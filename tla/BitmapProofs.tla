---------------------------- MODULE BitmapProofs ----------------------------
(***************************************************************************)
(* The three bitmaps that share the remaining data of a distribution, for  *)
(* all values of the constants: every debt is settled once, every reward   *)
(* is paid once, and what is settled and paid covers what is owed.         *)
(*                                                                         *)
(* The argument: the bitmaps are appended one after the other, in any      *)
(* order, so that their bytes are disjoint and a new bitmap is clear       *)
(* (LayoutInv); marking a leaf therefore changes one bitmap and no other   *)
(* (MarkOwn, MarkOther), and the counters and amounts follow the marks.    *)
(***************************************************************************)
EXTENDS TokenProofs

(***************************************************************************)
(* Bitmaps in general.                                                     *)
(***************************************************************************)

\* The leaves that are marked in a bitmap: ProcessedLeaves of some data.
Marked(data, range) ==
  {i \in 0..(8 * (range.end - range.start) - 1) : leaf_bit(range, i) \in data}

\* Two bitmaps without a common byte.
AreApart(range, other) == range.end <= other.start \/ other.end <= range.start

\* A leaf has a bit in a bitmap when the bitmap has a byte for it.
LEMMA LeafInRange ==
  ASSUME NEW range \in BitmapRange, NEW i \in Nat, i \div 8 < range.end - range.start
  PROVE  i \in 0..(8 * (range.end - range.start) - 1)
<1>1. PICK n \in Int, q \in Int : n = range.end - range.start /\ q = i \div 8
  BY DEF BitmapRange
<1>2. i < 8 * q + 8 /\ q + 1 <= n
  BY <1>1
<1>3. 8 * (range.end - range.start) = 8 * n
  BY <1>1
<1> QED
  BY <1>2, <1>3

\* A leaf that was not marked.
LEMMA LeafUnmarked ==
  ASSUME NEW data, NEW range \in BitmapRange, NEW i \in Nat,
         is_leaf_unprocessed(data, range, i)
  PROVE  i \notin Marked(data, range)
  BY DEF is_leaf_unprocessed, Marked

\* Marking a leaf in a bitmap marks that leaf and no other.
LEMMA MarkOwn ==
  ASSUME NEW data, NEW range \in BitmapRange, NEW i \in Nat,
         i \div 8 < range.end - range.start
  PROVE  Marked(data \cup {leaf_bit(range, i)}, range) = Marked(data, range) \cup {i}
<1>1. i \in 0..(8 * (range.end - range.start) - 1)
  BY LeafInRange
<1>2. \A j \in 0..(8 * (range.end - range.start) - 1) :
        leaf_bit(range, j) = leaf_bit(range, i) <=> j = i
  BY DEF leaf_bit, BitmapRange
<1> QED
  BY <1>1, <1>2 DEF Marked

\* Marking a leaf in another bitmap leaves the bitmap alone.
LEMMA MarkOther ==
  ASSUME NEW data, NEW range \in BitmapRange, NEW other \in BitmapRange, NEW i \in Nat,
         AreApart(range, other), i \div 8 < other.end - other.start
  PROVE  Marked(data \cup {leaf_bit(other, i)}, range) = Marked(data, range)
<1>1. i \in 0..(8 * (other.end - other.start) - 1)
  BY LeafInRange
<1>2. \A j \in 0..(8 * (range.end - range.start) - 1) : leaf_bit(range, j) # leaf_bit(other, i)
  BY <1>1 DEF leaf_bit, BitmapRange, AreApart
<1> QED
  BY <1>2 DEF Marked

\* A bitmap of no bytes marks nothing.
LEMMA MarkedNone ==
  ASSUME NEW data, NEW range \in BitmapRange, range.start = range.end
  PROVE  Marked(data, range) = {}
  BY DEF Marked, BitmapRange

\* A bitmap that starts where the data ends is clear.
LEMMA MarkedNew ==
  ASSUME NEW data, NEW len \in Nat, \A b \in data : b < 8 * len,
         NEW range \in BitmapRange, range.start >= len
  PROVE  Marked(data, range) = {}
<1>1. \A i \in 0..(8 * (range.end - range.start) - 1) : leaf_bit(range, i) >= 8 * len
  BY DEF leaf_bit, BitmapRange
<1>2. \A i \in 0..(8 * (range.end - range.start) - 1) : leaf_bit(range, i) \in Int
  BY DEF leaf_bit, BitmapRange
<1> QED
  BY <1>1, <1>2 DEF Marked

\* The bit of a leaf lies inside the data that holds the bitmap.
LEMMA LeafBitBound ==
  ASSUME NEW range \in BitmapRange, NEW len \in Nat, range.end <= len, NEW i \in Nat,
         i \div 8 < range.end - range.start
  PROVE  leaf_bit(range, i) < 8 * len
<1>1. i \in 0..(8 * (range.end - range.start) - 1)
  BY LeafInRange
<1> QED
  BY <1>1 DEF leaf_bit, BitmapRange

(***************************************************************************)
(* The layout of the remaining data.                                       *)
(***************************************************************************)

\* A bitmap lies inside the remaining data.
Fits(e, range) == range.start <= range.end /\ range.end <= remaining_data_len[e]

\* The bitmaps of an epoch lie inside its data and share no byte, no bit is set beyond the
\* data, and a bitmap has no bytes until the instruction that appends it.
EpochLayout(e) ==
  /\ \A b \in remaining_data[e] : b < 8 * remaining_data_len[e]
  /\ Fits(e, processed_debt_range[e])
  /\ Fits(e, write_off_range[e])
  /\ Fits(e, processed_rewards_range[e])
  /\ AreApart(processed_debt_range[e], write_off_range[e])
  /\ AreApart(processed_debt_range[e], processed_rewards_range[e])
  /\ AreApart(write_off_range[e], processed_rewards_range[e])
  /\ is_debt_calculation_finalized[e] \/ processed_debt_range[e].end = 0
  /\ is_solana_validator_debt_write_off_enabled[e] \/ write_off_range[e].end = 0
  /\ is_rewards_calculation_finalized[e] \/ processed_rewards_range[e].end = 0

LayoutInv == \A e \in Epochs : EpochLayout(e)

\* The types of what the layout is about.
LEMMA LayoutTypes ==
  ASSUME TypeInv
  PROVE  /\ remaining_data_len \in [Epochs -> Nat]
         /\ remaining_data \in [Epochs -> SUBSET Nat]
         /\ processed_debt_range \in [Epochs -> BitmapRange]
         /\ write_off_range \in [Epochs -> BitmapRange]
         /\ processed_rewards_range \in [Epochs -> BitmapRange]
         /\ is_debt_calculation_finalized \in [Epochs -> BOOLEAN]
         /\ is_solana_validator_debt_write_off_enabled \in [Epochs -> BOOLEAN]
         /\ is_rewards_calculation_finalized \in [Epochs -> BOOLEAN]
         /\ total_solana_validators \in [Epochs -> Nat]
         /\ total_contributors \in [Epochs -> Nat]
  BY DEF TypeInv, TypeOK, LayoutTypeOK, CalculatedDebtTypeOK, SettledDebtTypeOK, RewardsTypeOK

\* Initially no data follows the header.
LEMMA InitLayout ==
  ASSUME Init
  PROVE  LayoutInv
  BY DEF Init, LayoutInv, EpochLayout, Fits, AreApart, NoAmount, NoFlag, NoRange

\* The bitmap appended for n leaves starts where the data ends.
LEMMA AppendedRange ==
  ASSUME TypeInv, NEW e \in Epochs, NEW n \in Nat
  PROVE  \E bytes \in Nat :
           /\ bytes = bitmap_bytes(n)
           /\ appended_range(e, n) =
                [start |-> remaining_data_len[e], end |-> remaining_data_len[e] + bytes]
           /\ appended_range(e, n) \in BitmapRange
<1>1. bitmap_bytes(n) \in Nat /\ remaining_data_len[e] \in Nat
  BY BitmapBytesType, LayoutTypes
<1> QED
  BY <1>1 DEF appended_range, BitmapRange

\* Whatever bitmap is appended, the others stay apart from it and from each other.
LEMMA AppendLayout ==
  ASSUME NEW len \in Nat, NEW bytes \in Nat, NEW range \in BitmapRange,
         range.start <= range.end, range.end <= len,
         NEW new, new = [start |-> len, end |-> len + bytes]
  PROVE  /\ new.start <= new.end /\ new.end <= len + bytes
         /\ range.end <= len + bytes
         /\ AreApart(range, new) /\ AreApart(new, range)
  BY DEF BitmapRange, AreApart

\* FinalizeDistributionDebt appends the bitmap of processed debts, unless nothing is owed.
LEMMA FinalizeDebtLayout ==
  ASSUME TypeInv, NEW e \in Epochs, EpochLayout(e), FinalizeDistributionDebt(e)
  PROVE  EpochLayout(e)'
<1>1. /\ UNCHANGED <<remaining_data, write_off_range, processed_rewards_range,
                     is_solana_validator_debt_write_off_enabled,
                     is_rewards_calculation_finalized>>
      /\ is_debt_calculation_finalized'[e]
  BY LayoutTypes DEF FinalizeDistributionDebt, settledDebtVars, rewardsVars
<1>2. CASE UNCHANGED <<processed_debt_range, remaining_data_len>>
  BY <1>1, <1>2 DEF EpochLayout, Fits, AreApart
<1>3. CASE total_sol_debt(e) # 0
  <2>1. PICK bytes \in Nat :
          /\ bytes = bitmap_bytes(total_solana_validators[e])
          /\ appended_range(e, total_solana_validators[e]) =
               [start |-> remaining_data_len[e], end |-> remaining_data_len[e] + bytes]
    BY LayoutTypes, AppendedRange
  <2>2. /\ processed_debt_range'[e] =
             [start |-> remaining_data_len[e], end |-> remaining_data_len[e] + bytes]
        /\ remaining_data_len'[e] = remaining_data_len[e] + bytes
    BY <1>3, <2>1, LayoutTypes
       DEF FinalizeDistributionDebt, append_processed_debt_bitmap, resize
  <2> QED
    BY <1>1, <2>2, LayoutTypes, AppendLayout DEF EpochLayout, Fits
<1> QED
  BY <1>2, <1>3 DEF FinalizeDistributionDebt, append_processed_debt_bitmap

\* EnableSolanaValidatorDebtWriteOff appends the bitmap of written-off debts.
LEMMA EnableWriteOffLayout ==
  ASSUME TypeInv, NEW e \in Epochs, EpochLayout(e), EnableSolanaValidatorDebtWriteOff(e)
  PROVE  EpochLayout(e)'
<1>1. /\ UNCHANGED <<remaining_data, processed_debt_range, processed_rewards_range,
                     is_debt_calculation_finalized, is_rewards_calculation_finalized>>
      /\ is_solana_validator_debt_write_off_enabled'[e]
  BY LayoutTypes DEF EnableSolanaValidatorDebtWriteOff, calculatedDebtVars, rewardsVars
<1>2. PICK bytes \in Nat :
        /\ bytes = bitmap_bytes(total_solana_validators[e])
        /\ appended_range(e, total_solana_validators[e]) =
             [start |-> remaining_data_len[e], end |-> remaining_data_len[e] + bytes]
  BY LayoutTypes, AppendedRange
<1>3. /\ write_off_range'[e] =
           [start |-> remaining_data_len[e], end |-> remaining_data_len[e] + bytes]
      /\ remaining_data_len'[e] = remaining_data_len[e] + bytes
  BY <1>2, LayoutTypes DEF EnableSolanaValidatorDebtWriteOff, resize
<1> QED
  BY <1>1, <1>3, LayoutTypes, AppendLayout DEF EpochLayout, Fits

\* FinalizeDistributionRewards appends the bitmap of distributed rewards.
LEMMA FinalizeRewardsLayout ==
  ASSUME TypeInv, NEW e \in Epochs, EpochLayout(e), FinalizeDistributionRewards(e)
  PROVE  EpochLayout(e)'
<1>1. /\ UNCHANGED <<remaining_data, processed_debt_range, write_off_range,
                     is_debt_calculation_finalized,
                     is_solana_validator_debt_write_off_enabled>>
      /\ is_rewards_calculation_finalized'[e]
  BY LayoutTypes DEF FinalizeDistributionRewards, debtVars, calculatedDebtVars, settledDebtVars
<1>2. PICK bytes \in Nat :
        /\ bytes = bitmap_bytes(total_contributors[e])
        /\ appended_range(e, total_contributors[e]) =
             [start |-> remaining_data_len[e], end |-> remaining_data_len[e] + bytes]
  BY LayoutTypes, AppendedRange
<1>3. /\ processed_rewards_range'[e] =
           [start |-> remaining_data_len[e], end |-> remaining_data_len[e] + bytes]
      /\ remaining_data_len'[e] = remaining_data_len[e] + bytes
  BY <1>2, LayoutTypes DEF FinalizeDistributionRewards, resize
<1> QED
  BY <1>1, <1>3, LayoutTypes, AppendLayout DEF EpochLayout, Fits

(***************************************************************************)
(* The marks in the three bitmaps, and the steps that make them.           *)
(***************************************************************************)
Settled(e) == ProcessedLeaves(e, processed_debt_range[e])
WrittenOff(e) == ProcessedLeaves(e, write_off_range[e])
Rewarded(e) == ProcessedLeaves(e, processed_rewards_range[e])

\* What the layout and the marks of an epoch depend on.
DataOf(e) == <<remaining_data[e], remaining_data_len[e], processed_debt_range[e],
               write_off_range[e], processed_rewards_range[e],
               is_debt_calculation_finalized[e],
               is_solana_validator_debt_write_off_enabled[e],
               is_rewards_calculation_finalized[e]>>

\* The marks of an epoch are those in its data.
LEMMA MarksOf ==
  ASSUME NEW e \in Epochs
  PROVE  /\ Settled(e) = Marked(remaining_data[e], processed_debt_range[e])
         /\ WrittenOff(e) = Marked(remaining_data[e], write_off_range[e])
         /\ Rewarded(e) = Marked(remaining_data[e], processed_rewards_range[e])
         /\ Settled(e)' = Marked(remaining_data'[e], processed_debt_range'[e])
         /\ WrittenOff(e)' = Marked(remaining_data'[e], write_off_range'[e])
         /\ Rewarded(e)' = Marked(remaining_data'[e], processed_rewards_range'[e])
  BY DEF Settled, WrittenOff, Rewarded, ProcessedLeaves, Marked, leaf_bit

MarksKept(e) ==
  Settled(e)' = Settled(e) /\ WrittenOff(e)' = WrittenOff(e) /\ Rewarded(e)' = Rewarded(e)

\* A step that does not touch an epoch's data keeps its layout and its marks.
LEMMA DataKept ==
  ASSUME NEW e \in Epochs, EpochLayout(e), DataOf(e)' = DataOf(e)
  PROVE  EpochLayout(e)' /\ MarksKept(e)
<1>1. /\ remaining_data'[e] = remaining_data[e]
      /\ remaining_data_len'[e] = remaining_data_len[e]
      /\ processed_debt_range'[e] = processed_debt_range[e]
      /\ write_off_range'[e] = write_off_range[e]
      /\ processed_rewards_range'[e] = processed_rewards_range[e]
      /\ is_debt_calculation_finalized'[e] = is_debt_calculation_finalized[e]
      /\ is_solana_validator_debt_write_off_enabled'[e]
           = is_solana_validator_debt_write_off_enabled[e]
      /\ is_rewards_calculation_finalized'[e] = is_rewards_calculation_finalized[e]
  BY DEF DataOf
<1>2. EpochLayout(e)'
  BY <1>1 DEF EpochLayout, Fits, AreApart
<1> QED
  BY <1>1, <1>2, MarksOf DEF MarksKept

\* An epoch's bitmap has no marks before it is appended, and none right after.
LEMMA NoMarksBefore ==
  ASSUME TypeInv, NEW e \in Epochs, EpochLayout(e)
  PROVE  /\ ~is_debt_calculation_finalized[e] => Settled(e) = {}
         /\ ~is_solana_validator_debt_write_off_enabled[e] => WrittenOff(e) = {}
         /\ ~is_rewards_calculation_finalized[e] => Rewarded(e) = {}
<1>1. /\ processed_debt_range[e] \in BitmapRange /\ write_off_range[e] \in BitmapRange
      /\ processed_rewards_range[e] \in BitmapRange
  BY LayoutTypes
<1>2. ASSUME NEW range \in BitmapRange, Fits(e, range), range.end = 0
      PROVE  Marked(remaining_data[e], range) = {}
  <2>1. range.start = range.end
    BY <1>2 DEF Fits, BitmapRange
  <2> QED
    BY <2>1, MarkedNone
<1> QED
  BY <1>1, <1>2, MarksOf DEF EpochLayout

\* A bitmap appended to the data of an epoch is clear.
LEMMA AppendedIsClear ==
  ASSUME TypeInv, NEW e \in Epochs, EpochLayout(e),
         NEW range \in BitmapRange, range.start = remaining_data_len[e]
  PROVE  Marked(remaining_data[e], range) = {}
<1>1. PICK len \in Nat, data \in SUBSET Nat :
        len = remaining_data_len[e] /\ data = remaining_data[e]
  BY LayoutTypes
<1>2. range.start >= len /\ \A b \in data : b < 8 * len
  BY <1>1 DEF EpochLayout
<1>3. Marked(data, range) = {}
  BY <1>2, MarkedNew
<1> QED
  BY <1>1, <1>3

\* FinalizeDistributionDebt marks nothing.
LEMMA FinalizeDebtMarks ==
  ASSUME TypeInv, NEW e \in Epochs, EpochLayout(e), FinalizeDistributionDebt(e)
  PROVE  MarksKept(e)
<1>1. UNCHANGED <<remaining_data, write_off_range, processed_rewards_range>>
      /\ ~is_debt_calculation_finalized[e]
  BY DEF FinalizeDistributionDebt, try_require_unfinalized_debt_calculation
<1>2. Settled(e) = {}
  BY <1>1, NoMarksBefore
<1>3. CASE UNCHANGED processed_debt_range
  BY <1>1, <1>3, MarksOf DEF MarksKept
<1>4. CASE total_sol_debt(e) # 0
  <2>1. PICK range \in BitmapRange :
          /\ range = appended_range(e, total_solana_validators[e])
          /\ range.start = remaining_data_len[e]
    BY LayoutTypes, AppendedRange
  <2>2. processed_debt_range'[e] = range
    BY <1>4, <2>1, LayoutTypes DEF FinalizeDistributionDebt, append_processed_debt_bitmap
  <2>3. Marked(remaining_data[e], range) = {}
    BY <2>1, AppendedIsClear
  <2> QED
    BY <1>1, <1>2, <2>2, <2>3, MarksOf DEF MarksKept
<1> QED
  BY <1>3, <1>4 DEF FinalizeDistributionDebt, append_processed_debt_bitmap

\* EnableSolanaValidatorDebtWriteOff marks nothing.
LEMMA EnableWriteOffMarks ==
  ASSUME TypeInv, NEW e \in Epochs, EpochLayout(e), EnableSolanaValidatorDebtWriteOff(e)
  PROVE  MarksKept(e)
<1>1. UNCHANGED <<remaining_data, processed_debt_range, processed_rewards_range>>
      /\ ~is_solana_validator_debt_write_off_enabled[e]
  BY DEF EnableSolanaValidatorDebtWriteOff
<1>2. WrittenOff(e) = {}
  BY <1>1, NoMarksBefore
<1>3. PICK range \in BitmapRange :
        /\ range = appended_range(e, total_solana_validators[e])
        /\ range.start = remaining_data_len[e]
  BY LayoutTypes, AppendedRange
<1>4. write_off_range'[e] = range
  BY <1>3, LayoutTypes DEF EnableSolanaValidatorDebtWriteOff
<1>5. Marked(remaining_data[e], range) = {}
  BY <1>3, AppendedIsClear
<1> QED
  BY <1>1, <1>2, <1>4, <1>5, MarksOf DEF MarksKept

\* FinalizeDistributionRewards marks nothing.
LEMMA FinalizeRewardsMarks ==
  ASSUME TypeInv, NEW e \in Epochs, EpochLayout(e), FinalizeDistributionRewards(e)
  PROVE  MarksKept(e)
<1>1. UNCHANGED <<remaining_data, processed_debt_range, write_off_range>>
      /\ ~is_rewards_calculation_finalized[e]
  BY DEF FinalizeDistributionRewards, try_require_unfinalized_rewards_calculation
<1>2. Rewarded(e) = {}
  BY <1>1, NoMarksBefore
<1>3. PICK range \in BitmapRange :
        /\ range = appended_range(e, total_contributors[e])
        /\ range.start = remaining_data_len[e]
  BY LayoutTypes, AppendedRange
<1>4. processed_rewards_range'[e] = range
  BY <1>3, LayoutTypes DEF FinalizeDistributionRewards
<1>5. Marked(remaining_data[e], range) = {}
  BY <1>3, AppendedIsClear
<1> QED
  BY <1>1, <1>2, <1>4, <1>5, MarksOf DEF MarksKept

\* A step that settles no debt and pays no reward keeps every layout and every mark.
LEMMA UnmarkingSteps ==
  ASSUME TypeInv, LayoutInv, [Next]_vars, ~PaysDebt, ~WritesOffDebt, ~Distributes,
         NEW e \in Epochs
  PROVE  EpochLayout(e)' /\ MarksKept(e)
<1>1. EpochLayout(e)
  BY DEF LayoutInv
<1>2. CASE FinalizesDebt
  <2>1. PICK d \in Epochs : FinalizeDistributionDebt(d)
    BY <1>2 DEF FinalizesDebt
  <2>2. CASE d # e
    <3>1. DataOf(e)' = DataOf(e)
      BY <2>1, <2>2, LayoutTypes
         DEF FinalizeDistributionDebt, append_processed_debt_bitmap, resize, DataOf,
             settledDebtVars, rewardsVars
    <3> QED
      BY <1>1, <3>1, DataKept
  <2> QED
    BY <1>1, <2>1, <2>2, FinalizeDebtLayout, FinalizeDebtMarks
<1>3. CASE EnablesWriteOff
  <2>1. PICK d \in Epochs : EnableSolanaValidatorDebtWriteOff(d)
    BY <1>3 DEF EnablesWriteOff
  <2>2. CASE d # e
    <3>1. DataOf(e)' = DataOf(e)
      BY <2>1, <2>2, LayoutTypes
         DEF EnableSolanaValidatorDebtWriteOff, resize, DataOf, calculatedDebtVars,
             rewardsVars
    <3> QED
      BY <1>1, <3>1, DataKept
  <2> QED
    BY <1>1, <2>1, <2>2, EnableWriteOffLayout, EnableWriteOffMarks
<1>4. CASE FinalizesRewards
  <2>1. PICK d \in Epochs : FinalizeDistributionRewards(d)
    BY <1>4 DEF FinalizesRewards
  <2>2. CASE d # e
    <3>1. DataOf(e)' = DataOf(e)
      BY <2>1, <2>2, LayoutTypes
         DEF FinalizeDistributionRewards, resize, DataOf, debtVars, calculatedDebtVars,
             settledDebtVars
    <3> QED
      BY <1>1, <3>1, DataKept
  <2> QED
    BY <1>1, <2>1, <2>2, FinalizeRewardsLayout, FinalizeRewardsMarks
<1>5. CASE ~FinalizesDebt /\ ~EnablesWriteOff /\ ~FinalizesRewards
  <2>1. DataOf(e)' = DataOf(e)
    BY <1>5, Writers DEF FieldWriters, DataOf
  <2> QED
    BY <1>1, <2>1, DataKept
<1> QED
  BY <1>2, <1>3, <1>4, <1>5

\* New bits inside the data keep the layout.
LEMMA MarkLayout ==
  ASSUME NEW e \in Epochs, EpochLayout(e), NEW bits,
         \A b \in bits : b < 8 * remaining_data_len[e],
         remaining_data'[e] = remaining_data[e] \cup bits,
         UNCHANGED <<remaining_data_len, processed_debt_range, write_off_range,
                     processed_rewards_range, is_debt_calculation_finalized,
                     is_solana_validator_debt_write_off_enabled,
                     is_rewards_calculation_finalized>>
  PROVE  EpochLayout(e)'
  BY DEF EpochLayout, Fits, AreApart

\* A payment marks its leaf as settled, for the first time, and marks nothing else.
LEMMA PayMarks ==
  ASSUME TypeInv, LayoutInv, NEW e \in Epochs, NEW i \in Nat, NEW n, NEW amount,
         PaySolanaValidatorDebt(e, i, n, amount)
  PROVE  /\ LayoutInv'
         /\ i \notin Settled(e) /\ Settled(e)' = Settled(e) \cup {i}
         /\ WrittenOff(e)' = WrittenOff(e) /\ Rewarded(e)' = Rewarded(e)
         /\ \A d \in Epochs \ {e} : MarksKept(d)
<1>1. PICK debt \in BitmapRange, written \in BitmapRange, rewards \in BitmapRange,
           data \in SUBSET Nat, len \in Nat :
        /\ debt = processed_debt_range[e] /\ written = write_off_range[e]
        /\ rewards = processed_rewards_range[e]
        /\ data = remaining_data[e] /\ len = remaining_data_len[e]
  BY LayoutTypes
<1>2. UNCHANGED <<remaining_data_len, processed_debt_range, write_off_range,
                  processed_rewards_range, is_debt_calculation_finalized,
                  is_solana_validator_debt_write_off_enabled,
                  is_rewards_calculation_finalized>>
  BY DEF PaySolanaValidatorDebt, calculatedDebtVars, rewardsVars
<1>3. /\ is_leaf_unprocessed(data, debt, i)
      /\ remaining_data'[e] = data \cup {leaf_bit(debt, i)}
      /\ \A d \in Epochs \ {e} : remaining_data'[d] = remaining_data[d]
  BY <1>1, LayoutTypes DEF PaySolanaValidatorDebt
<1>4. i \div 8 < debt.end - debt.start
  BY <1>3 DEF is_leaf_unprocessed
<1>5. EpochLayout(e) /\ debt.end <= len
  BY <1>1 DEF LayoutInv, EpochLayout, Fits
<1>6. AreApart(written, debt) /\ AreApart(rewards, debt)
  BY <1>1, <1>5 DEF EpochLayout, AreApart
<1>7. /\ i \notin Settled(e) /\ Settled(e)' = Settled(e) \cup {i}
      /\ WrittenOff(e)' = WrittenOff(e) /\ Rewarded(e)' = Rewarded(e)
  <2>1. i \notin Marked(data, debt)
    BY <1>3, LeafUnmarked
  <2>2. Marked(data \cup {leaf_bit(debt, i)}, debt) = Marked(data, debt) \cup {i}
    BY <1>4, MarkOwn
  <2>3. /\ Marked(data \cup {leaf_bit(debt, i)}, written) = Marked(data, written)
        /\ Marked(data \cup {leaf_bit(debt, i)}, rewards) = Marked(data, rewards)
    BY <1>4, <1>6, MarkOther
  <2> QED
    <3>1. /\ Settled(e) = Marked(data, debt) /\ WrittenOff(e) = Marked(data, written)
          /\ Rewarded(e) = Marked(data, rewards)
      BY <1>1, MarksOf
    <3>2. /\ Settled(e)' = Marked(data \cup {leaf_bit(debt, i)}, debt)
          /\ WrittenOff(e)' = Marked(data \cup {leaf_bit(debt, i)}, written)
          /\ Rewarded(e)' = Marked(data \cup {leaf_bit(debt, i)}, rewards)
      BY <1>1, <1>2, <1>3, MarksOf
    <3> QED
      BY <2>1, <2>2, <2>3, <3>1, <3>2
<1>8. leaf_bit(debt, i) < 8 * len
  BY <1>4, <1>5, LeafBitBound
<1>9. EpochLayout(e)'
  <2>1. PICK bits : bits = {leaf_bit(debt, i)}
    OBVIOUS
  <2>2. /\ remaining_data'[e] = remaining_data[e] \cup bits
        /\ \A b \in bits : b < 8 * remaining_data_len[e]
    BY <1>1, <1>3, <1>8, <2>1
  <2> QED
    BY <1>2, <1>5, <2>2, MarkLayout
<1>10. ASSUME NEW d \in Epochs \ {e} PROVE EpochLayout(d)' /\ MarksKept(d)
  BY <1>2, <1>3, DataKept DEF DataOf, LayoutInv
<1> QED
  BY <1>7, <1>9, <1>10 DEF LayoutInv

\* A write-off marks its leaf in both debt bitmaps, for the first time in each.
LEMMA WriteOffMarks ==
  ASSUME TypeInv, LayoutInv, NEW e \in Epochs, NEW i \in Nat, NEW n, NEW amount, NEW w,
         WriteOffSolanaValidatorDebt(e, i, n, amount, w)
  PROVE  /\ LayoutInv'
         /\ i \notin Settled(e) /\ Settled(e)' = Settled(e) \cup {i}
         /\ i \notin WrittenOff(e) /\ WrittenOff(e)' = WrittenOff(e) \cup {i}
         /\ Rewarded(e)' = Rewarded(e)
         /\ \A d \in Epochs \ {e} : MarksKept(d)
<1>1. PICK debt \in BitmapRange, written \in BitmapRange, rewards \in BitmapRange,
           data \in SUBSET Nat, len \in Nat :
        /\ debt = processed_debt_range[e] /\ written = write_off_range[e]
        /\ rewards = processed_rewards_range[e]
        /\ data = remaining_data[e] /\ len = remaining_data_len[e]
  BY LayoutTypes
<1>2. UNCHANGED <<remaining_data_len, processed_debt_range, write_off_range,
                  processed_rewards_range, is_debt_calculation_finalized,
                  is_solana_validator_debt_write_off_enabled,
                  is_rewards_calculation_finalized>>
  BY DEF WriteOffSolanaValidatorDebt, calculatedDebtVars, rewardsVars
<1>3. /\ is_leaf_unprocessed(data, written, i)
      /\ is_leaf_unprocessed(data \cup {leaf_bit(written, i)}, debt, i)
      /\ remaining_data' = [remaining_data EXCEPT ![e] =
            @ \cup {leaf_bit(written, i), leaf_bit(debt, i)}]
  BY <1>1 DEF WriteOffSolanaValidatorDebt, is_write_off_unprocessed
<1>4. /\ remaining_data'[e] = (data \cup {leaf_bit(written, i)}) \cup {leaf_bit(debt, i)}
      /\ \A d \in Epochs \ {e} : remaining_data'[d] = remaining_data[d]
  BY <1>1, <1>3, LayoutTypes
<1>5. i \div 8 < debt.end - debt.start /\ i \div 8 < written.end - written.start
  BY <1>3 DEF is_leaf_unprocessed
<1>6. EpochLayout(e) /\ debt.end <= len /\ written.end <= len
  BY <1>1 DEF LayoutInv, EpochLayout, Fits
<1>7. /\ AreApart(written, debt) /\ AreApart(debt, written)
      /\ AreApart(rewards, debt) /\ AreApart(rewards, written)
  BY <1>1, <1>6 DEF EpochLayout, AreApart
<1>8. PICK marked : marked = data \cup {leaf_bit(written, i)}
  OBVIOUS
<1>9. i \notin Marked(data, written) /\ i \notin Marked(marked, debt)
  BY <1>3, <1>8, LeafUnmarked
<1>10. /\ Marked(marked, written) = Marked(data, written) \cup {i}
       /\ Marked(marked, debt) = Marked(data, debt)
       /\ Marked(marked, rewards) = Marked(data, rewards)
  BY <1>5, <1>7, <1>8, MarkOwn, MarkOther
<1>11. /\ Marked(marked \cup {leaf_bit(debt, i)}, written) = Marked(marked, written)
       /\ Marked(marked \cup {leaf_bit(debt, i)}, debt) = Marked(marked, debt) \cup {i}
       /\ Marked(marked \cup {leaf_bit(debt, i)}, rewards) = Marked(marked, rewards)
  BY <1>5, <1>7, MarkOwn, MarkOther
<1>12. remaining_data'[e] = marked \cup {leaf_bit(debt, i)}
  BY <1>4, <1>8
<1>13. /\ i \notin Settled(e) /\ Settled(e)' = Settled(e) \cup {i}
       /\ i \notin WrittenOff(e) /\ WrittenOff(e)' = WrittenOff(e) \cup {i}
       /\ Rewarded(e)' = Rewarded(e)
  BY <1>1, <1>2, <1>9, <1>10, <1>11, <1>12, MarksOf
<1>14. leaf_bit(debt, i) < 8 * len /\ leaf_bit(written, i) < 8 * len
  BY <1>5, <1>6, LeafBitBound
<1>15. EpochLayout(e)'
  <2>1. PICK bits : bits = {leaf_bit(written, i), leaf_bit(debt, i)}
    OBVIOUS
  <2>2. /\ remaining_data'[e] = remaining_data[e] \cup bits
        /\ \A b \in bits : b < 8 * remaining_data_len[e]
    BY <1>1, <1>4, <1>14, <2>1
  <2> QED
    BY <1>2, <1>6, <2>2, MarkLayout
<1>16. ASSUME NEW d \in Epochs \ {e} PROVE EpochLayout(d)' /\ MarksKept(d)
  BY <1>2, <1>4, DataKept DEF DataOf, LayoutInv
<1> QED
  BY <1>13, <1>15, <1>16 DEF LayoutInv

\* A distributed reward is marked for the first time, and the debts keep their marks.
LEMMA DistributeMarks ==
  ASSUME TypeInv, LayoutInv, NEW e \in Epochs, NEW i \in Nat, NEW leaf,
         DistributeRewards(e, i, leaf)
  PROVE  /\ LayoutInv'
         /\ i \notin Rewarded(e) /\ Rewarded(e)' = Rewarded(e) \cup {i}
         /\ Settled(e)' = Settled(e) /\ WrittenOff(e)' = WrittenOff(e)
         /\ \A d \in Epochs \ {e} : MarksKept(d)
<1>1. PICK debt \in BitmapRange, written \in BitmapRange, rewards \in BitmapRange,
           data \in SUBSET Nat, len \in Nat :
        /\ debt = processed_debt_range[e] /\ written = write_off_range[e]
        /\ rewards = processed_rewards_range[e]
        /\ data = remaining_data[e] /\ len = remaining_data_len[e]
  BY LayoutTypes
<1>2. UNCHANGED <<remaining_data_len, processed_debt_range, write_off_range,
                  processed_rewards_range, is_debt_calculation_finalized,
                  is_solana_validator_debt_write_off_enabled,
                  is_rewards_calculation_finalized>>
  BY DEF DistributeRewards, debtVars, calculatedDebtVars, settledDebtVars, rewardsVars
<1>3. /\ is_leaf_unprocessed(data, rewards, i)
      /\ remaining_data'[e] = data \cup {leaf_bit(rewards, i)}
      /\ \A d \in Epochs \ {e} : remaining_data'[d] = remaining_data[d]
  BY <1>1, LayoutTypes DEF DistributeRewards
<1>4. i \div 8 < rewards.end - rewards.start
  BY <1>3 DEF is_leaf_unprocessed
<1>5. EpochLayout(e) /\ rewards.end <= len
  BY <1>1 DEF LayoutInv, EpochLayout, Fits
<1>6. AreApart(written, rewards) /\ AreApart(debt, rewards)
  BY <1>1, <1>5 DEF EpochLayout, AreApart
<1>7. /\ i \notin Rewarded(e) /\ Rewarded(e)' = Rewarded(e) \cup {i}
      /\ Settled(e)' = Settled(e) /\ WrittenOff(e)' = WrittenOff(e)
  <2>1. i \notin Marked(data, rewards)
    BY <1>3, LeafUnmarked
  <2>2. Marked(data \cup {leaf_bit(rewards, i)}, rewards) = Marked(data, rewards) \cup {i}
    BY <1>4, MarkOwn
  <2>3. /\ Marked(data \cup {leaf_bit(rewards, i)}, written) = Marked(data, written)
        /\ Marked(data \cup {leaf_bit(rewards, i)}, debt) = Marked(data, debt)
    BY <1>4, <1>6, MarkOther
  <2> QED
    BY <1>1, <1>2, <1>3, <2>1, <2>2, <2>3, MarksOf
<1>8. leaf_bit(rewards, i) < 8 * len
  BY <1>4, <1>5, LeafBitBound
<1>9. EpochLayout(e)'
  <2>1. PICK bits : bits = {leaf_bit(rewards, i)}
    OBVIOUS
  <2>2. /\ remaining_data'[e] = remaining_data[e] \cup bits
        /\ \A b \in bits : b < 8 * remaining_data_len[e]
    BY <1>1, <1>3, <1>8, <2>1
  <2> QED
    BY <1>2, <1>5, <2>2, MarkLayout
<1>10. ASSUME NEW d \in Epochs \ {e} PROVE EpochLayout(d)' /\ MarksKept(d)
  BY <1>2, <1>3, DataKept DEF DataOf, LayoutInv
<1> QED
  BY <1>7, <1>9, <1>10 DEF LayoutInv

\* Every step keeps the bitmaps inside the data and apart from each other.
LEMMA NextLayout ==
  ASSUME TypeInv, LayoutInv, [Next]_vars
  PROVE  LayoutInv'
<1>1. CASE PaysDebt
  BY <1>1, InputTypes, PayMarks DEF PaysDebt, PayDebt
<1>2. CASE WritesOffDebt
  <2>1. PICK e \in Epochs, i \in DebtLeafIndices, leaf \in DebtLeaves, w \in Epochs :
          WriteOffSolanaValidatorDebt(e, i, leaf.node, leaf.amount, w)
    BY <1>2 DEF WritesOffDebt, WriteOffDebt
  <2> QED
    BY <2>1, InputTypes, WriteOffMarks
<1>3. CASE Distributes
  BY <1>3, InputTypes, DistributeMarks DEF Distributes, DistributeReward
<1>4. CASE ~PaysDebt /\ ~WritesOffDebt /\ ~Distributes
  BY <1>4, UnmarkingSteps DEF LayoutInv
<1> QED
  BY <1>1, <1>2, <1>3, <1>4

\* The three bitmaps of a distribution never overlap, in whatever order they are appended.
THEOREM LayoutInvariance == Spec => []LayoutInv
<1>1. Init => LayoutInv
  BY InitLayout
<1>2. TypeInv /\ LayoutInv /\ [Next]_vars => LayoutInv'
  BY NextLayout
<1> QED
  BY <1>1, <1>2, TypeInvariance, PTL DEF Spec

(***************************************************************************)
(* Every debt is settled once.                                             *)
(***************************************************************************)

\* The amounts of the debts of an epoch, in the order of its leaves.
LeafAmounts(e) ==
  [j \in DOMAIN solana_validator_debt_merkle_root[e] |->
     solana_validator_debt_merkle_root[e][j].amount]

\* The leaves of an epoch that were paid.
Paid(e) == Settled(e) \ WrittenOff(e)

\* The counters and the collected amount of an epoch follow the marks.
EpochSettled(e) ==
  /\ WrittenOff(e) \subseteq Settled(e)
  /\ Settled(e) \subseteq 0..(Len(solana_validator_debt_merkle_root[e]) - 1)
  /\ solana_validator_write_off_count[e] = Cardinality(WrittenOff(e))
  /\ solana_validator_payments_count[e] = Cardinality(Paid(e))
  /\ collected_solana_validator_payments[e] = Total(Indexed(LeafAmounts(e), Paid(e)))

\* The debt of the leaves of an epoch that were written off, whatever epoch was charged.
WrittenOffDebt == [e \in Epochs |-> Total(Indexed(LeafAmounts(e), WrittenOff(e)))]

\* DebtSettledOnce is inductive once written-off leaves are known to be leaves of the root;
\* the written-off leaves of all epochs make up what all epochs were charged.
SettledInv ==
  /\ \A e \in Epochs : EpochSettled(e)
  /\ WrittenOffDebt \in [Epochs -> Nat]
  /\ IsFiniteSet(Units(WrittenOffDebt))
  /\ Total(WrittenOffDebt) = Total(uncollectible_sol_debt)

\* The amounts of the leaves are natural numbers.
LEMMA LeafAmountsType ==
  ASSUME TypeInv, NEW e \in Epochs
  PROVE  /\ Len(solana_validator_debt_merkle_root[e]) \in Nat
         /\ LeafAmounts(e) \in [1..Len(solana_validator_debt_merkle_root[e]) -> Nat]
         /\ \A j \in 1..Len(solana_validator_debt_merkle_root[e]) :
              LeafAmounts(e)[j] = solana_validator_debt_merkle_root[e][j].amount
<1>1. solana_validator_debt_merkle_root[e] \in Seq(DebtLeaf)
  BY DEF TypeInv, TypeOK, CalculatedDebtTypeOK
<1>2. PICK leaves \in Seq(DebtLeaf) : leaves = solana_validator_debt_merkle_root[e]
  BY <1>1
<1>3. /\ Len(leaves) \in Nat /\ DOMAIN leaves = 1..Len(leaves)
      /\ \A j \in 1..Len(leaves) : leaves[j] \in DebtLeaf
  BY <1>2
<1>4. \A j \in 1..Len(leaves) : leaves[j].amount \in Nat
  BY <1>3 DEF DebtLeaf
<1>5. LeafAmounts(e) = [j \in 1..Len(leaves) |-> leaves[j].amount]
  BY <1>2, <1>3 DEF LeafAmounts
<1> QED
  BY <1>2, <1>3, <1>4, <1>5

\* What the books of the settled debts say after a step.
LEMMA SettledNext ==
  ASSUME NEW e \in Epochs
  PROVE  /\ WrittenOffDebt[e] = Total(Indexed(LeafAmounts(e), WrittenOff(e)))
         /\ WrittenOffDebt'[e] = Total(Indexed(LeafAmounts(e)', WrittenOff(e)'))
         /\ EpochSettled(e)' <=>
              /\ WrittenOff(e)' \subseteq Settled(e)'
              /\ Settled(e)' \subseteq 0..(Len(solana_validator_debt_merkle_root'[e]) - 1)
              /\ solana_validator_write_off_count'[e] = Cardinality(WrittenOff(e)')
              /\ solana_validator_payments_count'[e] = Cardinality(Paid(e)')
              /\ collected_solana_validator_payments'[e]
                   = Total(Indexed(LeafAmounts(e)', Paid(e)'))
<1>1. WrittenOffDebt[e] = Total(Indexed(LeafAmounts(e), WrittenOff(e)))
  BY DEF WrittenOffDebt
<1>2. WrittenOffDebt'[e] = Total(Indexed(LeafAmounts(e)', WrittenOff(e)'))
  BY DEF WrittenOffDebt, Total, Units, Indexed
<1>3. EpochSettled(e)' <=>
              /\ WrittenOff(e)' \subseteq Settled(e)'
              /\ Settled(e)' \subseteq 0..(Len(solana_validator_debt_merkle_root'[e]) - 1)
              /\ solana_validator_write_off_count'[e] = Cardinality(WrittenOff(e)')
              /\ solana_validator_payments_count'[e] = Cardinality(Paid(e)')
              /\ collected_solana_validator_payments'[e]
                   = Total(Indexed(LeafAmounts(e)', Paid(e)'))
  BY DEF EpochSettled, Total, Units, Indexed
<1> QED
  BY <1>1, <1>2, <1>3

\* The marked leaves are leaves of the root.
LEMMA LeafSets ==
  ASSUME NEW e \in Epochs, EpochSettled(e)
  PROVE  /\ Settled(e) \in SUBSET (0..(Len(solana_validator_debt_merkle_root[e]) - 1))
         /\ WrittenOff(e) \in SUBSET (0..(Len(solana_validator_debt_merkle_root[e]) - 1))
         /\ Paid(e) \in SUBSET (0..(Len(solana_validator_debt_merkle_root[e]) - 1))
  BY DEF EpochSettled, Paid

\* Initially nothing is settled.
LEMMA InitSettled ==
  ASSUME Init, TypeInv, LayoutInv
  PROVE  SettledInv
<1>1. ASSUME NEW e \in Epochs PROVE Settled(e) = {} /\ WrittenOff(e) = {} /\ Paid(e) = {}
  <2>1. ~is_debt_calculation_finalized[e] /\ ~is_solana_validator_debt_write_off_enabled[e]
    BY DEF Init, NoFlag
  <2> QED
    BY <2>1, NoMarksBefore DEF LayoutInv, Paid
<1>2. ASSUME NEW e \in Epochs PROVE EpochSettled(e)
  <2>1. /\ solana_validator_write_off_count[e] = 0 /\ solana_validator_payments_count[e] = 0
        /\ collected_solana_validator_payments[e] = 0
    BY DEF Init, NoAmount
  <2> QED
    BY <1>1, <2>1, FS_EmptySet, IndexedNone DEF EpochSettled
<1>3. \A e \in Epochs : WrittenOffDebt[e] = 0
  BY <1>1, IndexedNone DEF WrittenOffDebt
<1>4. WrittenOffDebt \in [Epochs -> Nat] /\ DOMAIN WrittenOffDebt = Epochs
  BY <1>3 DEF WrittenOffDebt
<1>5. IsFiniteSet(Units(WrittenOffDebt)) /\ Total(WrittenOffDebt) = 0
  BY <1>3, <1>4, TotalZero
<1>6. Total(uncollectible_sol_debt) = 0
  BY TotalZero DEF Init, NoAmount
<1> QED
  BY <1>2, <1>4, <1>5, <1>6 DEF SettledInv

\* An epoch whose marks, counters and amounts do not change stays settled as it is: its
\* leaves can only be configured anew while none of them is settled.
LEMMA SettledKept ==
  ASSUME NEW e \in Epochs, EpochSettled(e), Settled(e)' = Settled(e),
         WrittenOff(e)' = WrittenOff(e),
         solana_validator_debt_merkle_root'[e] = solana_validator_debt_merkle_root[e]
           \/ Settled(e) = {},
         solana_validator_write_off_count'[e] = solana_validator_write_off_count[e],
         solana_validator_payments_count'[e] = solana_validator_payments_count[e],
         collected_solana_validator_payments'[e] = collected_solana_validator_payments[e]
  PROVE  EpochSettled(e)' /\ WrittenOffDebt'[e] = WrittenOffDebt[e]
<1>1. Paid(e)' = Paid(e)
  BY DEF Paid
<1>2. CASE solana_validator_debt_merkle_root'[e] = solana_validator_debt_merkle_root[e]
  <2>1. LeafAmounts(e)' = LeafAmounts(e)
    BY <1>2 DEF LeafAmounts
  <2> QED
    BY <1>1, <1>2, <2>1, SettledNext DEF EpochSettled
<1>3. CASE Settled(e) = {}
  <2>1. WrittenOff(e) = {} /\ Paid(e) = {}
    BY <1>3 DEF EpochSettled, Paid
  <2>2. /\ Total(Indexed(LeafAmounts(e), {})) = 0
        /\ Total(Indexed(LeafAmounts(e)', {})) = 0
    BY IndexedNone
  <2> QED
    BY <1>1, <1>3, <2>1, <2>2, SettledNext DEF EpochSettled
<1> QED
  BY <1>2, <1>3

\* The written-off debts are kept one per epoch.
LEMMA WrittenOffEpochs ==
  /\ WrittenOffDebt = [d \in Epochs |-> WrittenOffDebt[d]]
  /\ WrittenOffDebt' = [d \in Epochs |-> WrittenOffDebt'[d]]
<1>1. WrittenOffDebt = [d \in Epochs |-> WrittenOffDebt[d]]
  BY DEF WrittenOffDebt
<1>2. WrittenOffDebt' = [d \in Epochs |-> WrittenOffDebt'[d]]
  BY DEF WrittenOffDebt
<1> QED
  BY <1>1, <1>2

\* A step that writes nothing off leaves the written-off debts in balance.
LEMMA WrittenOffKept ==
  ASSUME SettledInv, \A d \in Epochs : EpochSettled(d)' /\ WrittenOffDebt'[d] = WrittenOffDebt[d],
         UNCHANGED uncollectible_sol_debt
  PROVE  SettledInv'
<1>1. WrittenOffDebt' = WrittenOffDebt
  BY WrittenOffEpochs
<1> QED
  BY <1>1 DEF SettledInv, Total, Units

\* A payment settles its leaf, counts it and collects its amount.
LEMMA PaySettles ==
  ASSUME TypeInv, LayoutInv, SettledInv, NEW e \in Epochs, NEW i \in Nat, NEW n,
         NEW amount \in Nat, PaySolanaValidatorDebt(e, i, n, amount)
  PROVE  SettledInv'
<1>1. /\ i \notin Settled(e) /\ Settled(e)' = Settled(e) \cup {i}
      /\ WrittenOff(e)' = WrittenOff(e)
      /\ \A d \in Epochs \ {e} : MarksKept(d)
  BY PayMarks
<1>2. /\ UNCHANGED <<solana_validator_debt_merkle_root, solana_validator_write_off_count,
                     uncollectible_sol_debt>>
      /\ is_proven(solana_validator_debt_merkle_root[e], i, [node |-> n, amount |-> amount])
  BY DEF PaySolanaValidatorDebt, calculatedDebtVars
<1>3. /\ collected_solana_validator_payments'[e] = collected_solana_validator_payments[e] + amount
      /\ solana_validator_payments_count'[e] = solana_validator_payments_count[e] + 1
      /\ \A d \in Epochs \ {e} :
           /\ collected_solana_validator_payments'[d] = collected_solana_validator_payments[d]
           /\ solana_validator_payments_count'[d] = solana_validator_payments_count[d]
  BY DEF PaySolanaValidatorDebt, TypeInv, TypeOK, SettledDebtTypeOK
<1>4. ASSUME NEW d \in Epochs \ {e}
      PROVE  EpochSettled(d)' /\ WrittenOffDebt'[d] = WrittenOffDebt[d]
  BY <1>1, <1>2, <1>3, SettledKept DEF SettledInv, MarksKept
<1>5. EpochSettled(e)' /\ WrittenOffDebt'[e] = WrittenOffDebt[e]
  <2>1. PICK len, f, paid :
          /\ len = Len(solana_validator_debt_merkle_root[e])
          /\ f = LeafAmounts(e) /\ paid = Paid(e)
          /\ len \in Nat /\ f \in [1..len -> Nat] /\ paid \in SUBSET (0..(len - 1))
    BY LeafAmountsType, LeafSets DEF SettledInv
  <2>2. LeafAmounts(e)' = f
    BY <1>2, <2>1 DEF LeafAmounts
  <2>3. i \in 0..(len - 1) /\ f[i + 1] = amount
    BY <1>2, <2>1, LeafAmountsType DEF is_proven
  <2>4. i \notin paid /\ Paid(e)' = paid \cup {i}
    BY <1>1, <2>1 DEF Paid, SettledInv, EpochSettled
  <2>5. Total(Indexed(f, paid \cup {i})) = Total(Indexed(f, paid)) + amount
    <3>1. /\ len \in Nat /\ f \in [1..len -> Nat] /\ paid \in SUBSET (0..(len - 1))
          /\ i \in 0..(len - 1) /\ i \notin paid
      BY <2>1, <2>3, <2>4
    <3>2. Total(Indexed(f, paid \cup {i})) = Total(Indexed(f, paid)) + f[i + 1]
      BY <3>1, IndexedExtend
    <3> QED
      BY <2>3, <3>2
  <2>6. Cardinality(paid \cup {i}) = Cardinality(paid) + 1
    BY <2>1, <2>4, BitmapCardinality, FS_AddElement
  <2>7. /\ solana_validator_payments_count[e] = Cardinality(paid)
        /\ collected_solana_validator_payments[e] = Total(Indexed(f, paid))
        /\ solana_validator_write_off_count[e] = Cardinality(WrittenOff(e))
        /\ WrittenOff(e) \subseteq Settled(e) /\ Settled(e) \subseteq 0..(len - 1)
    BY <2>1 DEF SettledInv, EpochSettled
  <2>8. /\ WrittenOff(e)' \subseteq Settled(e)' /\ Settled(e)' \subseteq 0..(len - 1)
        /\ Len(solana_validator_debt_merkle_root'[e]) = len
    BY <1>1, <1>2, <2>1, <2>3, <2>7
  <2> QED
    <3>1. /\ solana_validator_write_off_count'[e] = Cardinality(WrittenOff(e)')
          /\ WrittenOffDebt'[e] = WrittenOffDebt[e]
      BY <1>1, <1>2, <2>1, <2>2, <2>7, SettledNext
    <3>2. /\ solana_validator_payments_count'[e] = Cardinality(Paid(e)')
          /\ collected_solana_validator_payments'[e] = Total(Indexed(LeafAmounts(e)', Paid(e)'))
      BY <1>3, <2>2, <2>4, <2>5, <2>6, <2>7
    <3> QED
      BY <2>8, <3>1, <3>2, SettledNext
<1> QED
  BY <1>2, <1>4, <1>5, WrittenOffKept

\* A write-off settles its leaf and counts it; the epoch that is charged may be another.
LEMMA WriteOffSettles ==
  ASSUME TypeInv, LayoutInv, SolBooks, SettledInv, NEW e \in Epochs, NEW i \in Nat, NEW n,
         NEW amount \in Nat, NEW w \in Epochs, WriteOffSolanaValidatorDebt(e, i, n, amount, w)
  PROVE  SettledInv'
<1>1. /\ i \notin Settled(e) /\ Settled(e)' = Settled(e) \cup {i}
      /\ i \notin WrittenOff(e) /\ WrittenOff(e)' = WrittenOff(e) \cup {i}
      /\ \A d \in Epochs \ {e} : MarksKept(d)
  BY WriteOffMarks
<1>2. /\ UNCHANGED <<solana_validator_debt_merkle_root, solana_validator_payments_count,
                     collected_solana_validator_payments>>
      /\ is_proven(solana_validator_debt_merkle_root[e], i, [node |-> n, amount |-> amount])
  BY DEF WriteOffSolanaValidatorDebt, calculatedDebtVars
<1>3. /\ solana_validator_write_off_count'[e] = solana_validator_write_off_count[e] + 1
      /\ \A d \in Epochs \ {e} :
           solana_validator_write_off_count'[d] = solana_validator_write_off_count[d]
  BY DEF WriteOffSolanaValidatorDebt, TypeInv, TypeOK, SettledDebtTypeOK
<1>4. ASSUME NEW d \in Epochs \ {e}
      PROVE  EpochSettled(d)' /\ WrittenOffDebt'[d] = WrittenOffDebt[d]
  BY <1>1, <1>2, <1>3, SettledKept DEF SettledInv, MarksKept
<1>5. EpochSettled(e)' /\ WrittenOffDebt'[e] = WrittenOffDebt[e] + amount
  <2>1. PICK len, f, written :
          /\ len = Len(solana_validator_debt_merkle_root[e])
          /\ f = LeafAmounts(e) /\ written = WrittenOff(e)
          /\ len \in Nat /\ f \in [1..len -> Nat] /\ written \in SUBSET (0..(len - 1))
    BY LeafAmountsType, LeafSets DEF SettledInv
  <2>2. LeafAmounts(e)' = f
    BY <1>2, <2>1 DEF LeafAmounts
  <2>3. i \in 0..(len - 1) /\ f[i + 1] = amount
    BY <1>2, <2>1, LeafAmountsType DEF is_proven
  <2>4. i \notin written /\ WrittenOff(e)' = written \cup {i} /\ Paid(e)' = Paid(e)
    BY <1>1, <2>1 DEF Paid
  <2>5. Total(Indexed(f, written \cup {i})) = Total(Indexed(f, written)) + amount
    <3>1. /\ len \in Nat /\ f \in [1..len -> Nat] /\ written \in SUBSET (0..(len - 1))
          /\ i \in 0..(len - 1) /\ i \notin written
      BY <2>1, <2>3, <2>4
    <3>2. Total(Indexed(f, written \cup {i})) = Total(Indexed(f, written)) + f[i + 1]
      BY <3>1, IndexedExtend
    <3> QED
      BY <2>3, <3>2
  <2>6. Cardinality(written \cup {i}) = Cardinality(written) + 1
    BY <2>1, <2>4, BitmapCardinality, FS_AddElement
  <2>7. /\ solana_validator_payments_count[e] = Cardinality(Paid(e))
        /\ collected_solana_validator_payments[e] = Total(Indexed(f, Paid(e)))
        /\ solana_validator_write_off_count[e] = Cardinality(written)
        /\ WrittenOff(e) \subseteq Settled(e) /\ Settled(e) \subseteq 0..(len - 1)
    BY <2>1 DEF SettledInv, EpochSettled
  <2>8. /\ WrittenOff(e)' \subseteq Settled(e)' /\ Settled(e)' \subseteq 0..(len - 1)
        /\ Len(solana_validator_debt_merkle_root'[e]) = len
    BY <1>1, <1>2, <2>1, <2>3, <2>7
  <2> QED
    BY <1>1, <1>2, <1>3, <2>1, <2>2, <2>4, <2>5, <2>6, <2>7, <2>8, SettledNext
<1>6. PICK f, g :
        f \in [Epochs -> Nat] /\ f = WrittenOffDebt /\ g = WrittenOffDebt'
  BY DEF SettledInv
<1>7. g = [f EXCEPT ![e] = f[e] + amount]
  BY <1>4, <1>5, <1>6, WrittenOffEpochs
<1>8. g \in [Epochs -> Nat] /\ IsFiniteSet(Units(g)) /\ Total(g) = Total(f) + amount
  <2>1. IsFiniteSet(Units(f)) /\ DOMAIN f = Epochs /\ \A d \in Epochs : f[d] \in Nat
    BY <1>6 DEF SettledInv
  <2>2. IsFiniteSet(Units(g)) /\ Total(g) = Total(f) + amount
    BY <1>7, <2>1, TotalIncrease
  <2> QED
    BY <1>6, <1>7, <2>2
<1>9. PICK c, h :
        /\ c \in [Epochs -> Nat]
        /\ c = uncollectible_sol_debt /\ h = uncollectible_sol_debt'
  BY DEF TypeInv, TypeOK, SettledDebtTypeOK
<1>10. h = [c EXCEPT ![w] = c[w] + amount]
  BY <1>9 DEF WriteOffSolanaValidatorDebt
<1>11. Total(h) = Total(c) + amount
  <2>1. IsFiniteSet(Units(c))
    BY <1>9 DEF SolBooks, FiniteBooks
  <2>2. DOMAIN c = Epochs /\ \A d \in DOMAIN c : c[d] \in Nat
    BY <1>9
  <2> QED
    BY <1>10, <2>1, <2>2, TotalIncrease
<1>12. Total(f) = Total(c)
  BY <1>6, <1>9 DEF SettledInv
<1> QED
  BY <1>4, <1>5, <1>6, <1>8, <1>9, <1>11, <1>12 DEF SettledInv, Total, Units

\* Every step keeps the books of the settled debts.
LEMMA NextSettled ==
  ASSUME TypeInv, LayoutInv, SolBooks, SettledInv, [Next]_vars
  PROVE  SettledInv'
<1>1. CASE PaysDebt
  <2>1. PICK e \in Epochs, i \in DebtLeafIndices, leaf \in DebtLeaves :
          PaySolanaValidatorDebt(e, i, leaf.node, leaf.amount)
    BY <1>1 DEF PaysDebt, PayDebt
  <2> QED
    BY <2>1, InputTypes, PaySettles
<1>2. CASE WritesOffDebt
  <2>1. PICK e \in Epochs, i \in DebtLeafIndices, leaf \in DebtLeaves, w \in Epochs :
          WriteOffSolanaValidatorDebt(e, i, leaf.node, leaf.amount, w)
    BY <1>2 DEF WritesOffDebt, WriteOffDebt
  <2> QED
    BY <2>1, InputTypes, WriteOffSettles
<1>3. CASE ~PaysDebt /\ ~WritesOffDebt
  <2>1. UNCHANGED <<uncollectible_sol_debt, solana_validator_write_off_count,
                    solana_validator_payments_count, collected_solana_validator_payments>>
    BY <1>3, Writers DEF FieldWriters
  <2>2. ASSUME NEW e \in Epochs
        PROVE  Settled(e)' = Settled(e) /\ WrittenOff(e)' = WrittenOff(e)
    <3>1. CASE Distributes
      <4>1. PICK d \in Epochs, i \in RewardLeafIndices, leaf \in RewardLeaves :
              DistributeRewards(d, i, leaf)
        BY <3>1 DEF Distributes, DistributeReward
      <4>2. /\ Settled(d)' = Settled(d) /\ WrittenOff(d)' = WrittenOff(d)
            /\ \A c \in Epochs \ {d} : MarksKept(c)
        BY <4>1, InputTypes, DistributeMarks
      <4> QED
        BY <4>2 DEF MarksKept
    <3>2. CASE ~Distributes
      BY <1>3, <3>2, UnmarkingSteps DEF MarksKept
    <3> QED
      BY <3>1, <3>2
  <2>3. ASSUME NEW e \in Epochs
        PROVE  \/ solana_validator_debt_merkle_root'[e] = solana_validator_debt_merkle_root[e]
               \/ Settled(e) = {}
    <3>1. CASE ConfiguresDebt
      <4>1. PICK d \in Epochs, calculation \in DebtCalculations :
              ConfigureDistributionDebt(d, calculation)
        BY <3>1 DEF ConfiguresDebt
      <4>2. ~is_debt_calculation_finalized[d]
        BY <4>1 DEF ConfigureDistributionDebt, try_require_unfinalized_debt_calculation
      <4>3. Settled(d) = {}
        BY <4>2, NoMarksBefore DEF LayoutInv
      <4>4. solana_validator_debt_merkle_root' =
              [solana_validator_debt_merkle_root EXCEPT ![d] = calculation.leaves]
        BY <4>1 DEF ConfigureDistributionDebt
      <4> QED
        BY <4>3, <4>4 DEF TypeInv, TypeOK, CalculatedDebtTypeOK
    <3>2. CASE ~ConfiguresDebt
      BY <3>2, Writers DEF FieldWriters
    <3> QED
      BY <3>1, <3>2
  <2>4. ASSUME NEW e \in Epochs
        PROVE  EpochSettled(e)' /\ WrittenOffDebt'[e] = WrittenOffDebt[e]
    BY <2>1, <2>2, <2>3, SettledKept DEF SettledInv
  <2> QED
    BY <2>1, <2>4, WrittenOffKept
<1> QED
  BY <1>1, <1>2, <1>3

\* The counters and the amounts of every epoch follow the marks in its bitmaps, and the
\* leaves written off in all epochs are worth what all epochs were charged.
THEOREM SettledInvariance == Spec => []SettledInv
<1>1. Init => TypeInv /\ LayoutInv
  BY InitTypes, InitLayout
<1>2. Init => SettledInv
  BY <1>1, InitSettled
<1>3. TypeInv /\ LayoutInv /\ SolBooks /\ SettledInv /\ [Next]_vars => SettledInv'
  BY NextSettled
<1> QED
  BY <1>2, <1>3, TypeInvariance, LayoutInvariance, BooksInvariance, PTL DEF Spec

\* Every debt is settled at most once, by PaySolanaValidatorDebt or by
\* WriteOffSolanaValidatorDebt: counters and collected SOL are those of the marked leaves.
THEOREM DebtsAreSettledOnce == Spec => []DebtSettledOnce
<1>1. ASSUME TypeInv, SettledInv
      PROVE  DebtSettledOnce
  <2>1. ASSUME NEW e \in Epochs
        PROVE  Indexed(LeafAmounts(e), Paid(e)) =
                 [i \in Paid(e) |-> solana_validator_debt_merkle_root[e][i + 1].amount]
    <3>1. \A i \in Paid(e) : i + 1 \in 1..Len(solana_validator_debt_merkle_root[e])
      BY <1>1, LeafAmountsType, LeafSets DEF SettledInv
    <3> QED
      BY <1>1, <3>1, LeafAmountsType DEF Indexed
  <2> QED
    BY <1>1, <2>1 DEF DebtSettledOnce, SettledInv, EpochSettled, Paid, Settled, WrittenOff
<1> QED
  BY <1>1, TypeInvariance, SettledInvariance, PTL

(***************************************************************************)
(* What was settled covers the sweeps to come.                             *)
(***************************************************************************)

\* The debts of the finalized epochs before write-offs, those still to be swept, and those
\* of the finalized epochs net of write-offs.
FinalizedDebt ==
  [e \in Epochs |-> IF is_debt_calculation_finalized[e] THEN total_solana_validator_debt[e] ELSE 0]
UnsweptDebt ==
  [e \in Epochs |-> IF is_debt_calculation_finalized[e] /\ ~has_swept_2z_tokens[e]
                    THEN total_sol_debt(e) ELSE 0]
NetDebt ==
  [e \in Epochs |-> IF is_debt_calculation_finalized[e] THEN total_sol_debt(e) ELSE 0]

\* Amounts kept per epoch have a sum.
LEMMA EpochTotals ==
  ASSUME NEW f \in [Epochs -> Nat]
  PROVE  IsFiniteSet(Units(f)) /\ Total(f) \in Nat
<1>1. MaxEpochs \in Nat
  BY BoundsAssumption
<1>2. PICK g : g = [j \in 1..MaxEpochs |-> f[j - 1]]
  OBVIOUS
<1>3. g \in [1..MaxEpochs -> Nat]
  BY <1>1, <1>2 DEF Epochs
<1>4. PICK S : S = 0..(MaxEpochs - 1) /\ S \in SUBSET (0..(MaxEpochs - 1))
  OBVIOUS
<1>5. Indexed(g, S) = f
  BY <1>1, <1>2, <1>4 DEF Indexed, Epochs
<1> QED
  BY <1>1, <1>3, <1>4, <1>5, IndexedTotal

\* Sums of amounts kept per epoch add up.
LEMMA EpochSums ==
  ASSUME NEW f \in [Epochs -> Nat], NEW g \in [Epochs -> Nat], NEW h \in [Epochs -> Nat],
         \A e \in Epochs : h[e] = f[e] + g[e]
  PROVE  Total(h) = Total(f) + Total(g)
<1>1. IsFiniteSet(Units(f)) /\ IsFiniteSet(Units(g))
  BY EpochTotals
<1>2. h = [e \in Epochs |-> f[e] + g[e]]
  OBVIOUS
<1> QED
  BY <1>1, <1>2, TotalSum

\* When all leaves of a consistent epoch are settled, what was paid and what was written off
\* add up to its debt.
LEMMA SettledEpoch ==
  ASSUME TypeInv, NEW e \in Epochs, EpochSettled(e), IsConsistentDebt(e),
         is_all_solana_validator_debt_processed(e)
  PROVE  collected_solana_validator_payments[e] + WrittenOffDebt[e]
           = total_solana_validator_debt[e]
<1>1. PICK len, f, paid, written :
        /\ len = Len(solana_validator_debt_merkle_root[e])
        /\ f = LeafAmounts(e) /\ paid = Paid(e) /\ written = WrittenOff(e)
        /\ len \in Nat /\ f \in [1..len -> Nat]
        /\ paid \in SUBSET (0..(len - 1)) /\ written \in SUBSET (0..(len - 1))
  BY LeafAmountsType, LeafSets
<1>2. total_solana_validators[e] = len /\ total_solana_validator_debt[e] = Total(f)
  BY <1>1 DEF IsConsistentDebt, LeafAmounts
<1>3. paid \cap written = {}
  BY <1>1 DEF Paid
<1>4. /\ solana_validator_payments_count[e] = Cardinality(paid)
      /\ solana_validator_write_off_count[e] = Cardinality(written)
      /\ collected_solana_validator_payments[e] = Total(Indexed(f, paid))
      /\ WrittenOffDebt[e] = Total(Indexed(f, written))
  BY <1>1, SettledNext DEF EpochSettled
<1>5. /\ IsFiniteSet(paid) /\ IsFiniteSet(written)
      /\ Cardinality(paid) \in Nat /\ Cardinality(written) \in Nat
  BY <1>1, BitmapCardinality
<1>6. Cardinality(paid \cup written) = Cardinality(paid) + Cardinality(written)
  BY <1>3, <1>5, DisjointUnion
<1>7. Cardinality(paid) + Cardinality(written) >= len
  BY <1>1, <1>2, <1>4, <1>5 DEF is_all_solana_validator_debt_processed, saturating_sub
<1>8. paid \cup written = 0..(len - 1)
  <2>1. PICK settled : settled = paid \cup written
    OBVIOUS
  <2>2. settled \in SUBSET (0..(len - 1)) /\ Cardinality(settled) >= len
    BY <1>1, <1>6, <1>7, <2>1
  <2>3. settled = 0..(len - 1)
    BY <1>1, <2>2, BitmapCardinality
  <2> QED
    BY <2>1, <2>3
<1>9. Total(Indexed(f, paid)) + Total(Indexed(f, written)) = Total(f)
  BY <1>1, <1>3, <1>8, IndexedParts
<1> QED
  BY <1>2, <1>4, <1>9

\* Nothing was paid or written off in an epoch whose debt is not final.
LEMMA UnfinalizedEpoch ==
  ASSUME TypeInv, LayoutInv, NEW e \in Epochs, EpochSettled(e),
         ~is_debt_calculation_finalized[e]
  PROVE  collected_solana_validator_payments[e] = 0 /\ WrittenOffDebt[e] = 0
<1>1. Settled(e) = {}
  BY NoMarksBefore DEF LayoutInv
<1>2. WrittenOff(e) = {} /\ Paid(e) = {}
  BY <1>1 DEF EpochSettled, Paid
<1> QED
  BY <1>2, IndexedNone, SettledNext DEF EpochSettled

\* Once every finalized debt is settled and all SOL is swapped, the swapped SOL is what the
\* sweeps to come need: what was paid is the finalized debt less what was written off, and
\* this is what was swept and what is to be swept.
THEOREM SettledDebtIsSwept == Spec => []SettledDebtCoversSweep
<1>1. ASSUME TypeInv, LayoutInv, SolBooks, SettledInv, AllDebtSettled, total_sol_balance = 0
      PROVE  swapped_sol_amount = Total(UnsweptDebt)
  <2>1. PICK c \in [Epochs -> Nat], u \in [Epochs -> Nat], debt \in [Epochs -> Nat],
             w \in [Epochs -> Nat] :
          /\ c = collected_solana_validator_payments /\ u = uncollectible_sol_debt
          /\ debt = total_solana_validator_debt /\ w = WrittenOffDebt
    BY <1>1 DEF TypeInv, TypeOK, CalculatedDebtTypeOK, SettledDebtTypeOK, SettledInv
  <2>2. \A e \in Epochs : debt[e] >= u[e] /\ total_sol_debt(e) = debt[e] - u[e]
    BY <1>1, <2>1
       DEF SolBooks, WriteOffConservation, is_total_sol_debt_some, total_sol_debt
  <2>3. PICK swept \in [Epochs -> Nat], unswept \in [Epochs -> Nat],
             final \in [Epochs -> Nat], net \in [Epochs -> Nat] :
          /\ swept = SweptDebt /\ unswept = UnsweptDebt /\ final = FinalizedDebt
          /\ net = NetDebt
    <3>1. SweptDebt \in [Epochs -> Nat]
      BY <2>2 DEF SweptDebt
    <3>2. UnsweptDebt \in [Epochs -> Nat]
      BY <2>2 DEF UnsweptDebt
    <3>3. FinalizedDebt \in [Epochs -> Nat]
      BY <2>1 DEF FinalizedDebt
    <3>4. NetDebt \in [Epochs -> Nat]
      BY <2>2 DEF NetDebt
    <3> QED
      BY <3>1, <3>2, <3>3, <3>4
  <2>4. ASSUME NEW e \in Epochs PROVE net[e] = swept[e] + unswept[e]
    <3>1. has_swept_2z_tokens[e] => is_debt_calculation_finalized[e]
      BY <1>1 DEF SolBooks, PhaseOrder
    <3>2. /\ swept[e] = IF has_swept_2z_tokens[e] THEN debt[e] - u[e] ELSE 0
          /\ unswept[e] = IF is_debt_calculation_finalized[e] /\ ~has_swept_2z_tokens[e]
                          THEN debt[e] - u[e] ELSE 0
          /\ net[e] = IF is_debt_calculation_finalized[e] THEN debt[e] - u[e] ELSE 0
      BY <2>2, <2>3 DEF SweptDebt, UnsweptDebt, NetDebt
    <3> QED
      BY <2>1, <2>3, <3>1, <3>2
  <2>5. ASSUME NEW e \in Epochs PROVE final[e] = net[e] + u[e]
    <3>1. ~is_debt_calculation_finalized[e] => u[e] = 0
      BY <1>1, <2>1 DEF SolBooks, PhaseOrder
    <3>2. /\ final[e] = IF is_debt_calculation_finalized[e] THEN debt[e] ELSE 0
          /\ net[e] = IF is_debt_calculation_finalized[e] THEN debt[e] - u[e] ELSE 0
      BY <2>1, <2>2, <2>3 DEF FinalizedDebt, NetDebt
    <3> QED
      BY <2>1, <2>3, <3>1, <3>2
  <2>6. ASSUME NEW e \in Epochs PROVE final[e] = c[e] + w[e]
    <3>1. final[e] = IF is_debt_calculation_finalized[e] THEN debt[e] ELSE 0
      BY <2>1, <2>3 DEF FinalizedDebt
    <3>2. CASE is_debt_calculation_finalized[e]
      BY <1>1, <2>1, <3>1, <3>2, SettledEpoch DEF AllDebtSettled, SettledInv
    <3>3. CASE ~is_debt_calculation_finalized[e]
      BY <1>1, <2>1, <3>1, <3>3, UnfinalizedEpoch DEF SettledInv
    <3> QED
      BY <3>2, <3>3
  <2>7. /\ Total(c) \in Nat /\ Total(u) \in Nat /\ Total(w) \in Nat /\ Total(swept) \in Nat
        /\ Total(unswept) \in Nat /\ Total(net) \in Nat
    BY EpochTotals
  <2>8. Total(net) = Total(swept) + Total(unswept)
    BY <2>4, EpochSums
  <2>9. Total(final) = Total(net) + Total(u)
    BY <2>5, EpochSums
  <2>10. Total(final) = Total(c) + Total(w)
    BY <2>6, EpochSums
  <2>11. Total(w) = Total(u)
    BY <1>1, <2>1 DEF SettledInv
  <2>12. swapped_sol_amount \in Nat /\ swapped_sol_amount + Total(swept) = Total(c)
    BY <1>1, <2>1, <2>3 DEF SolBooks, SolConservation, TypeInv, TypeOK, SolTypeOK
  <2>13. swapped_sol_amount = Total(unswept)
    BY <2>7, <2>8, <2>9, <2>10, <2>11, <2>12
  <2> QED
    BY <2>3, <2>13
<1>2. TypeInv /\ LayoutInv /\ SolBooks /\ SettledInv => SettledDebtCoversSweep
  BY <1>1 DEF SettledDebtCoversSweep, UnsweptDebt
<1> QED
  BY <1>2, TypeInvariance, LayoutInvariance, BooksInvariance, SettledInvariance, PTL

(***************************************************************************)
(* Every reward is paid once.                                              *)
(***************************************************************************)

\* What the rewards of an epoch are worth, in the order of its leaves.
ShareAmounts(e) ==
  [j \in DOMAIN rewards_merkle_root[e] |-> share_amount(e, rewards_merkle_root[e][j])]

\* The counter and the 2Z paid by an epoch follow the marks.
EpochRewarded(e) ==
  /\ Rewarded(e) \subseteq 0..(Len(rewards_merkle_root[e]) - 1)
  /\ distributed_rewards_count[e] = Cardinality(Rewarded(e))
  /\ distributed_2z_amount[e] + burned_2z_amount[e] = Total(Indexed(ShareAmounts(e), Rewarded(e)))

RewardedInv == \A e \in Epochs : EpochRewarded(e)
LowRewardedInv == \A e \in LowEpochs : EpochRewarded(e)

\* The rewards are natural numbers.
LEMMA ShareAmountsType ==
  ASSUME TypeInv, NEW e \in Epochs
  PROVE  /\ Len(rewards_merkle_root[e]) \in Nat
         /\ DOMAIN rewards_merkle_root[e] = 1..Len(rewards_merkle_root[e])
         /\ total_collected_2z_tokens(e) \in Nat
         /\ ShareAmounts(e) \in [1..Len(rewards_merkle_root[e]) -> Nat]
         /\ \A j \in 1..Len(rewards_merkle_root[e]) :
              /\ rewards_merkle_root[e][j].unit_share \in Nat
              /\ ShareAmounts(e)[j] = share_amount(e, rewards_merkle_root[e][j])
<1>1. PICK leaves \in Seq(RewardLeaf) : leaves = rewards_merkle_root[e]
  BY DEF TypeInv, TypeOK, RewardsTypeOK
<1>2. /\ Len(leaves) \in Nat /\ DOMAIN leaves = 1..Len(leaves)
      /\ \A j \in 1..Len(leaves) : leaves[j] \in RewardLeaf
  BY <1>1
<1>3. \A j \in 1..Len(leaves) : leaves[j].unit_share \in Nat
  BY <1>2 DEF RewardLeaf
<1>4. total_collected_2z_tokens(e) \in Nat
  BY TokenTypes DEF total_collected_2z_tokens
<1>5. ASSUME NEW j \in 1..Len(leaves) PROVE share_amount(e, leaves[j]) \in Nat
  <2>1. leaves[j].unit_share * total_collected_2z_tokens(e) \in Nat
    BY <1>3, <1>4
  <2>2. MAX_SHARE \in Nat \ {0}
    BY MaxShareAssumption
  <2> QED
    BY <2>1, <2>2, Quotient DEF share_amount, mul_scalar
<1>6. ShareAmounts(e) = [j \in 1..Len(leaves) |-> share_amount(e, leaves[j])]
  BY <1>1, <1>2 DEF ShareAmounts
<1> QED
  BY <1>1, <1>2, <1>3, <1>4, <1>5, <1>6

\* What the books of the paid rewards say after a step.
LEMMA RewardedNext ==
  ASSUME NEW e \in Epochs
  PROVE  EpochRewarded(e)' <=>
           /\ Rewarded(e)' \subseteq 0..(Len(rewards_merkle_root'[e]) - 1)
           /\ distributed_rewards_count'[e] = Cardinality(Rewarded(e)')
           /\ distributed_2z_amount'[e] + burned_2z_amount'[e]
                = Total(Indexed(ShareAmounts(e)', Rewarded(e)'))
  BY DEF EpochRewarded, Total, Units, Indexed

\* An epoch whose marks, counter and amounts do not change stays rewarded as it is: its
\* leaves and its collected 2Z can only change while none of its rewards is paid.
LEMMA RewardedKept ==
  ASSUME NEW e \in Epochs, EpochRewarded(e), Rewarded(e)' = Rewarded(e),
         \/ Rewarded(e) = {}
         \/ /\ rewards_merkle_root'[e] = rewards_merkle_root[e]
            /\ total_collected_2z_tokens(e)' = total_collected_2z_tokens(e),
         distributed_rewards_count'[e] = distributed_rewards_count[e],
         distributed_2z_amount'[e] = distributed_2z_amount[e],
         burned_2z_amount'[e] = burned_2z_amount[e]
  PROVE  EpochRewarded(e)'
<1>1. CASE Rewarded(e) = {}
  <2>1. /\ Total(Indexed(ShareAmounts(e), {})) = 0
        /\ Total(Indexed(ShareAmounts(e)', {})) = 0
    BY IndexedNone
  <2> QED
    BY <1>1, <2>1, RewardedNext DEF EpochRewarded
<1>2. CASE /\ rewards_merkle_root'[e] = rewards_merkle_root[e]
           /\ total_collected_2z_tokens(e)' = total_collected_2z_tokens(e)
  <2>1. ShareAmounts(e)' = ShareAmounts(e)
    BY <1>2 DEF ShareAmounts, share_amount, mul_scalar
  <2> QED
    BY <1>2, <2>1, RewardedNext DEF EpochRewarded
<1> QED
  BY <1>1, <1>2

\* Initially nothing is rewarded.
LEMMA InitRewarded ==
  ASSUME Init, TypeInv, LayoutInv, NEW e \in Epochs
  PROVE  EpochRewarded(e)
<1>1. Rewarded(e) = {}
  BY NoMarksBefore DEF LayoutInv, Init, NoFlag
<1>2. /\ distributed_rewards_count[e] = 0 /\ distributed_2z_amount[e] = 0
      /\ burned_2z_amount[e] = 0
  BY DEF Init, NoAmount
<1> QED
  BY <1>1, <1>2, FS_EmptySet, IndexedNone DEF EpochRewarded

\* DistributeRewards marks its leaf, counts it and pays out its share.
LEMMA DistributeRewarded ==
  ASSUME TypeInv, LayoutInv, NEW e \in Epochs, NEW i \in Nat,
         NEW leaf \in RewardLeaf, DistributeRewards(e, i, leaf),
         NEW d \in Epochs, EpochRewarded(d)
  PROVE  EpochRewarded(d)'
<1>1. /\ i \notin Rewarded(e) /\ Rewarded(e)' = Rewarded(e) \cup {i}
      /\ \A c \in Epochs \ {e} : MarksKept(c)
  BY DistributeMarks
<1>2. PICK transferred \in Nat, burned \in Nat :
        /\ transferred = transferred_share_amount(e, leaf)
        /\ burned = burned_share_amount(e, leaf)
        /\ transferred + burned = share_amount(e, leaf)
  BY RewardSplit DEF DistributeRewards
<1>3. /\ distributed_2z_amount' = [distributed_2z_amount EXCEPT ![e] = @ + transferred]
      /\ burned_2z_amount' = [burned_2z_amount EXCEPT ![e] = @ + burned]
      /\ distributed_rewards_count' = [distributed_rewards_count EXCEPT ![e] = @ + 1]
      /\ is_proven(rewards_merkle_root[e], i, leaf)
  BY <1>2 DEF DistributeRewards
<1>4. /\ UNCHANGED rewards_merkle_root
      /\ total_collected_2z_tokens(d)' = total_collected_2z_tokens(d)
  BY DEF DistributeRewards, rewardsVars, sweepVars, prepaidVars, collectionVars,
         total_collected_2z_tokens
<1>5. CASE d # e
  <2>1. /\ distributed_rewards_count'[d] = distributed_rewards_count[d]
        /\ distributed_2z_amount'[d] = distributed_2z_amount[d]
        /\ burned_2z_amount'[d] = burned_2z_amount[d]
    BY <1>3, <1>5 DEF TypeInv, TypeOK, PaidTypeOK
  <2> QED
    BY <1>1, <1>4, <1>5, <2>1, RewardedKept DEF MarksKept
<1>6. CASE d = e
  <2>1. PICK len, f, paid :
          /\ len = Len(rewards_merkle_root[e]) /\ f = ShareAmounts(e) /\ paid = Rewarded(e)
          /\ len \in Nat /\ f \in [1..len -> Nat] /\ paid \in SUBSET (0..(len - 1))
    BY <1>6, ShareAmountsType DEF EpochRewarded
  <2>2. ShareAmounts(e)' = f
    BY <1>4, <1>6, <2>1 DEF ShareAmounts, share_amount, mul_scalar
  <2>3. i \in 0..(len - 1) /\ f[i + 1] = transferred + burned
    BY <1>2, <1>3, <2>1, ShareAmountsType DEF is_proven
  <2>4. Total(Indexed(f, paid \cup {i})) = Total(Indexed(f, paid)) + (transferred + burned)
    BY <1>1, <2>1, <2>3, IndexedExtend
  <2>5. Cardinality(paid \cup {i}) = Cardinality(paid) + 1
    BY <1>1, <2>1, BitmapCardinality, FS_AddElement
  <2>6. /\ distributed_rewards_count[e] = Cardinality(paid)
        /\ distributed_2z_amount[e] + burned_2z_amount[e] = Total(Indexed(f, paid))
    BY <1>6, <2>1 DEF EpochRewarded
  <2>7. /\ distributed_rewards_count'[e] = distributed_rewards_count[e] + 1
        /\ distributed_2z_amount'[e] = distributed_2z_amount[e] + transferred
        /\ burned_2z_amount'[e] = burned_2z_amount[e] + burned
        /\ distributed_2z_amount[e] \in Nat /\ burned_2z_amount[e] \in Nat
    BY <1>3 DEF TypeInv, TypeOK, PaidTypeOK
  <2>8. distributed_2z_amount'[e] + burned_2z_amount'[e] = Total(Indexed(f, paid \cup {i}))
    <3>1. Total(Indexed(f, paid)) \in Nat
      BY <2>6, <2>7
    <3> QED
      BY <1>2, <2>4, <2>6, <2>7, <3>1
  <2>9. Rewarded(e)' = paid \cup {i} /\ Len(rewards_merkle_root'[e]) = len
    BY <1>1, <1>4, <2>1
  <2> QED
    BY <1>6, <2>1, <2>2, <2>3, <2>5, <2>6, <2>7, <2>8, <2>9, RewardedNext
<1> QED
  BY <1>5, <1>6

\* Every step keeps the books of the paid rewards.
LEMMA NextRewarded ==
  ASSUME TypeInv, LayoutInv, [Next]_vars, NEW e \in Epochs, EpochDistributing(e),
         EpochRewarded(e)
  PROVE  EpochRewarded(e)'
<1>1. CASE Distributes
  BY <1>1, InputTypes, DistributeRewarded DEF Distributes, DistributeReward
<1>2. CASE ~Distributes
  <2>1. EpochRewarded(e)
    OBVIOUS
  <2>2. UNCHANGED <<distributed_rewards_count, distributed_2z_amount, burned_2z_amount>>
    BY <1>2, Writers DEF FieldWriters
  <2>3. Rewarded(e)' = Rewarded(e)
    <3>1. CASE PaysDebt
      BY <3>1, InputTypes, PayMarks DEF PaysDebt, PayDebt, MarksKept
    <3>2. CASE WritesOffDebt
      <4>1. PICK d \in Epochs, i \in DebtLeafIndices, leaf \in DebtLeaves, w \in Epochs :
              WriteOffSolanaValidatorDebt(d, i, leaf.node, leaf.amount, w)
        BY <3>2 DEF WritesOffDebt, WriteOffDebt
      <4>2. Rewarded(d)' = Rewarded(d) /\ \A c \in Epochs \ {d} : MarksKept(c)
        BY <4>1, InputTypes, WriteOffMarks
      <4> QED
        BY <4>2 DEF MarksKept
    <3>3. CASE ~PaysDebt /\ ~WritesOffDebt
      BY <1>2, <3>3, UnmarkingSteps DEF MarksKept
    <3> QED
      BY <3>1, <3>2, <3>3
  <2>4. CASE Rewarded(e) # {}
    <3>1. distributed_rewards_count[e] > 0
      <4>1. PICK len, paid : /\ len = Len(rewards_merkle_root[e]) /\ paid = Rewarded(e)
                             /\ len \in Nat /\ paid \in SUBSET (0..(len - 1))
        BY <2>1, ShareAmountsType DEF EpochRewarded
      <4>2. IsFiniteSet(paid) /\ Cardinality(paid) \in Nat
        BY <4>1, BitmapCardinality
      <4>3. Cardinality(paid) # 0
        BY <2>4, <4>1, <4>2, FS_EmptySet
      <4> QED
        BY <2>1, <4>1, <4>2, <4>3 DEF EpochRewarded
    <3>2. total_collected_2z_tokens(e)' = total_collected_2z_tokens(e)
      BY <3>1, CollectedChanges DEF EpochDistributing
    <3>3. rewards_merkle_root'[e] = rewards_merkle_root[e]
      <4>1. CASE ConfiguresRewards
        <5>1. PICK d \in Epochs, calculation \in RewardsCalculations :
                ConfigureDistributionRewards(d, calculation)
          BY <4>1 DEF ConfiguresRewards
        <5>2. ~is_rewards_calculation_finalized[d]
          BY <5>1 DEF ConfigureDistributionRewards, try_require_unfinalized_rewards_calculation
        <5>3. d # e
          BY <2>4, <5>2, NoMarksBefore DEF LayoutInv
        <5> QED
          BY <5>1, <5>3 DEF ConfigureDistributionRewards, TypeInv, TypeOK, RewardsTypeOK
      <4>2. CASE ~ConfiguresRewards
        BY <4>2, Writers DEF FieldWriters
      <4> QED
        BY <4>1, <4>2
    <3> QED
      BY <2>1, <2>2, <2>3, <3>2, <3>3, RewardedKept
  <2>5. CASE Rewarded(e) = {}
    BY <2>1, <2>2, <2>3, <2>5, RewardedKept
  <2> QED
    BY <2>4, <2>5
<1> QED
  BY <1>1, <1>2

\* As long as no migration blocks a distribution again, its counter and the 2Z it paid
\* follow the marks in its rewards bitmap.
THEOREM RewardedInvariance == Spec /\ NoRetroactiveBlock => []RewardedInv
<1>1. Init => TypeInv /\ LayoutInv
  BY InitTypes, InitLayout
<1>2. Init => RewardedInv
  BY <1>1, InitRewarded DEF RewardedInv
<1>3. TypeInv /\ LayoutInv /\ DistributingInv /\ RewardedInv /\ [Next]_vars => RewardedInv'
  BY NextRewarded DEF RewardedInv, DistributingInv
<1> QED
  BY <1>2, <1>3, TypeInvariance, LayoutInvariance, DistributingInvariance, PTL DEF Spec

\* Below the floor of the migration they follow the marks with no proviso.
THEOREM LowRewardedInvariance == Spec => []LowRewardedInv
<1>1. Init => TypeInv /\ LayoutInv
  BY InitTypes, InitLayout
<1>2. Init => LowRewardedInv
  BY <1>1, InitRewarded DEF LowRewardedInv, LowEpochs
<1>3. TypeInv /\ LayoutInv /\ LowDistributingInv /\ LowRewardedInv /\ [Next]_vars
        => LowRewardedInv'
  BY NextRewarded DEF LowRewardedInv, LowDistributingInv, LowEpochs
<1> QED
  BY <1>2, <1>3, TypeInvariance, LayoutInvariance, LowDistributingInvariance, PTL DEF Spec

\* The rewards a distribution paid are worth what its leaves say.
LEMMA RewardedLeaves ==
  ASSUME TypeInv, NEW e \in Epochs, EpochRewarded(e)
  PROVE  Indexed(ShareAmounts(e), Rewarded(e)) =
           [i \in Rewarded(e) |-> share_amount(e, rewards_merkle_root[e][i + 1])]
<1>1. \A i \in Rewarded(e) : i + 1 \in 1..Len(rewards_merkle_root[e])
  BY ShareAmountsType DEF EpochRewarded
<1> QED
  BY <1>1, ShareAmountsType DEF Indexed

\* Marks that are followed are what RewardsCounted asks for.
LEMMA RewardedCounted ==
  ASSUME TypeInv, NEW e \in Epochs, EpochRewarded(e)
  PROVE  RewardsCounted(e)
  BY RewardedLeaves DEF RewardsCounted, EpochRewarded, Rewarded

\* As long as no migration blocks a distribution again, DistributeRewards pays every reward
\* at most once, at the share that its leaf gives it of the one total.
THEOREM RewardsArePaidOnce == Spec /\ NoRetroactiveBlock => []RewardsPaidOnce
<1>1. ASSUME TypeInv, RewardedInv
      PROVE  RewardsPaidOnce
  BY <1>1, RewardedCounted DEF RewardsPaidOnce, RewardedInv
<1> QED
  BY <1>1, TypeInvariance, RewardedInvariance, PTL

(***************************************************************************)
(* The token account can pay every reward that is left.                    *)
(***************************************************************************)

\* The shares of the rewards of an epoch, in the order of its leaves.
UnitShares(e) == [j \in DOMAIN rewards_merkle_root[e] |-> rewards_merkle_root[e][j].unit_share]

\* Shares that do not exceed the whole are worth at most what was collected: every reward
\* is rounded down.
LEMMA SharesFit ==
  ASSUME TypeInv, NEW e \in Epochs, Total(UnitShares(e)) <= MAX_SHARE
  PROVE  Total(ShareAmounts(e)) <= total_collected_2z_tokens(e)
<1>1. PICK n, f, g, x :
        /\ n = Len(rewards_merkle_root[e]) /\ f = UnitShares(e) /\ g = ShareAmounts(e)
        /\ x = total_collected_2z_tokens(e)
        /\ n \in Nat /\ x \in Nat /\ g \in [1..n -> Nat]
  BY ShareAmountsType
<1>2. f \in [1..n -> Nat]
  BY <1>1, ShareAmountsType DEF UnitShares
<1>3. g = [r \in 1..n |-> (f[r] * x) \div MAX_SHARE]
  <2>1. \A r \in 1..n : g[r] = (f[r] * x) \div MAX_SHARE
    BY <1>1, ShareAmountsType DEF UnitShares, share_amount, mul_scalar
  <2> QED
    BY <1>1, <2>1
<1>4. MAX_SHARE \in Nat \ {0}
  BY MaxShareAssumption
<1>5. MAX_SHARE * Total(g) <= Total(f) * x
  <2>1. MAX_SHARE * Total([r \in 1..n |-> (f[r] * x) \div MAX_SHARE]) <= Total(f) * x
    BY <1>1, <1>2, <1>4, TotalOfQuotients
  <2> QED
    BY <1>3, <2>1
<1>6. Total(f) \in Nat /\ Total(g) \in Nat /\ Total(f) <= MAX_SHARE
  BY <1>1, <1>2, TotalFinite
<1>7. MAX_SHARE * Total(g) <= MAX_SHARE * x
  <2>1. PICK M \in Nat, a \in Nat : M = MAX_SHARE /\ a = Total(f)
    BY <1>4, <1>6
  <2>2. a * x <= M * x
    BY <1>1, <1>6, <2>1
  <2>3. a * x \in Nat /\ M * x \in Nat /\ M * Total(g) \in Nat
    BY <1>1, <1>6, <2>1
  <2> QED
    BY <1>5, <2>1, <2>2, <2>3
<1>8. Total(g) <= x
  <2>1. PICK M \in Nat \ {0}, q \in Nat, y \in Nat : M = MAX_SHARE /\ q = Total(g) /\ y = x
    BY <1>1, <1>4, <1>6
  <2>2. M * q <= M * y
    BY <1>7, <2>1
  <2>3. q <= y
    BY <2>2
  <2> QED
    BY <2>1, <2>3
<1> QED
  BY <1>1, <1>8

\* The token account of an epoch holds what its unpaid rewards are worth: what left it is
\* what the marked leaves are worth, and all leaves together are worth at most what came in.
LEMMA RewardedSolvent ==
  ASSUME TypeInv, TokenConservation, NEW e \in Epochs, EpochRewarded(e),
         Total(UnitShares(e)) <= MAX_SHARE
  PROVE  distribution_2z[e] >= Total(Part(ShareAmounts(e), UnpaidRewards(e)))
<1>1. PICK n, f, paid :
        /\ n = Len(rewards_merkle_root[e]) /\ f = ShareAmounts(e) /\ paid = Rewarded(e)
        /\ n \in Nat /\ f \in [1..n -> Nat] /\ paid \in SUBSET (0..(n - 1))
  BY ShareAmountsType DEF EpochRewarded
<1>2. PICK A, B : A = UnpaidRewards(e) /\ B = Positions(paid)
  OBVIOUS
<1>3. /\ B \in SUBSET (1..n) /\ Total(Indexed(f, paid)) = Total(Part(f, B))
  BY <1>1, <1>2, IndexedTotal
<1>4. A \in SUBSET (1..n)
  BY <1>1, <1>2, ShareAmountsType DEF UnpaidRewards
<1>5. A \cap B = {}
  <2>1. ASSUME NEW j \in B
        PROVE  leaf_bit(processed_rewards_range[e], j - 1) \in remaining_data[e]
    <3>1. PICK i \in paid : j = i + 1 /\ i \in Nat
      BY <1>1, <1>2 DEF Positions
    <3>2. leaf_bit(processed_rewards_range[e], i) \in remaining_data[e]
      BY <1>1, <3>1 DEF Rewarded, ProcessedLeaves
    <3> QED
      BY <3>1, <3>2
  <2> QED
    BY <1>2, <2>1 DEF UnpaidRewards
<1>6. /\ Total(Part(f, A)) \in Nat /\ Total(Part(f, B)) \in Nat /\ Total(f) \in Nat
      /\ Total(Part(f, A)) + Total(Part(f, B)) <= Total(f)
  <2>1. IsFiniteSet(Units(f)) /\ DOMAIN f = 1..n
    BY <1>1, TotalFinite
  <2> QED
    BY <1>3, <1>4, <1>5, <2>1, TotalParts
<1>7. Total(f) <= total_collected_2z_tokens(e)
  BY <1>1, SharesFit
<1>8. distributed_2z_amount[e] + burned_2z_amount[e] = Total(Part(f, B))
  BY <1>1, <1>3 DEF EpochRewarded
<1>9. distribution_2z[e] + distributed_2z_amount[e] + burned_2z_amount[e]
        = total_collected_2z_tokens(e)
  BY DEF TokenConservation
<1>10. /\ distribution_2z[e] \in Nat /\ distributed_2z_amount[e] \in Nat
       /\ burned_2z_amount[e] \in Nat
  BY TokenTypes
<1>11. distribution_2z[e] >= Total(Part(f, A))
  BY <1>6, <1>7, <1>8, <1>9, <1>10
<1> QED
  BY <1>1, <1>2, <1>11

\* The same in the words of RewardsCovered.
LEMMA RewardedCovered ==
  ASSUME TypeInv, TokenConservation, NEW e \in Epochs, EpochRewarded(e)
  PROVE  RewardsCovered(e)
<1>1. Part(ShareAmounts(e), UnpaidRewards(e)) =
        [j \in UnpaidRewards(e) |-> share_amount(e, rewards_merkle_root[e][j])]
  BY DEF Part, ShareAmounts, UnpaidRewards
<1> QED
  BY <1>1, RewardedSolvent DEF RewardsCovered, UnitShares

\* As long as no migration blocks a distribution again, its token account holds at least
\* what its unpaid rewards are worth, in whatever order DistributeRewards pays them.
THEOREM RewardsAreSolvent == Spec /\ NoRetroactiveBlock => []RewardsSolvency
<1>1. TypeInv /\ TokenConservation /\ RewardedInv => RewardsSolvency
  BY RewardedCovered DEF RewardsSolvency, RewardedInv
<1> QED
  BY <1>1, TypeInvariance, TokensAreConserved, RewardedInvariance, PTL

\* For every floor of the account migration: whatever distributions MigrateProgramAccounts
\* rewrites from the floor on, and whenever it does, every epoch below the floor pays its
\* rewards once, from one total and from an account that can pay them, and holds no 2Z under
\* a null root.  Nothing is assumed of the migrations.
THEOREM RewardsAreSafeBelowTheFloor == Spec => []SafeBelowTheFloor
<1>1. TypeInv /\ TokenConservation /\ LowNullRootInv /\ LowRewardedInv => SafeBelowTheFloor
  <2> SUFFICES ASSUME TypeInv, TokenConservation, LowNullRootInv, LowRewardedInv,
                      NEW e \in Epochs, e < MIN_DZ_EPOCH
               PROVE  NullRootEmpty(e) /\ RewardsCovered(e) /\ RewardsCounted(e)
    BY DEF SafeBelowTheFloor
  <2>1. EpochNullRoot(e) /\ EpochRewarded(e)
    BY DEF LowNullRootInv, LowRewardedInv, LowEpochs
  <2>2. NullRootEmpty(e)
    BY <2>1 DEF NullRootEmpty, EpochNullRoot
  <2> QED
    BY <2>1, <2>2, RewardedCovered, RewardedCounted
<1> QED
  BY <1>1, TypeInvariance, TokensAreConserved, LowNullRootInvariance, LowRewardedInvariance,
     PTL
==============================================================================
