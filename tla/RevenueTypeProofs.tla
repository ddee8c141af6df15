-------------------------- MODULE RevenueTypeProofs --------------------------
(***************************************************************************)
(* Every account field keeps its type, for all values of the constants.    *)
(***************************************************************************)
EXTENDS RevenueProperties, TotalsTheorems, TLAPS

\* Recipients are absent or make up the whole.
RecipientsValid ==
  \A c \in Contributors :
    recipient_shares[c] = <<>> \/ is_valid_recipient_shares(recipient_shares[c])

\* TypeOK is not inductive: the amounts a step subtracts are bounded by the journal's books
\* matching its lamports and by the recipients' shares making up the whole, and the slope of
\* the burn rate is a quotient.
TypeInv ==
  /\ TypeOK
  /\ RecipientsValid
  /\ config.community_burn_rate_parameters.cached_slope_denominator # 0
  /\ journal_lamports = total_sol_balance

\* A group of variables that does not change keeps its types.
LEMMA StableTypes ==
  /\ UNCHANGED now /\ now \in Nat => now' \in Nat
  /\ UNCHANGED configVars /\ ConfigTypeOK => ConfigTypeOK'
  /\ UNCHANGED depositVars /\ DepositTypeOK => DepositTypeOK'
  /\ UNCHANGED solVars /\ SolTypeOK => SolTypeOK'
  /\ UNCHANGED swapVars /\ SwapTypeOK => SwapTypeOK'
  /\ UNCHANGED termVars /\ TermTypeOK => TermTypeOK'
  /\ UNCHANGED calculatedDebtVars /\ CalculatedDebtTypeOK => CalculatedDebtTypeOK'
  /\ UNCHANGED settledDebtVars /\ SettledDebtTypeOK => SettledDebtTypeOK'
  /\ UNCHANGED rewardsVars /\ RewardsTypeOK => RewardsTypeOK'
  /\ UNCHANGED paidVars /\ PaidTypeOK => PaidTypeOK'
  /\ UNCHANGED sweepVars /\ SweepTypeOK => SweepTypeOK'
  /\ UNCHANGED integrationVars /\ IntegrationTypeOK => IntegrationTypeOK'
  /\ UNCHANGED collectionVars /\ CollectionTypeOK => CollectionTypeOK'
  /\ UNCHANGED prepaidVars /\ PrepaidTypeOK => PrepaidTypeOK'
  /\ UNCHANGED layoutVars /\ LayoutTypeOK => LayoutTypeOK'
<1>1. UNCHANGED now /\ now \in Nat => now' \in Nat
  OBVIOUS
<1>2. UNCHANGED configVars /\ ConfigTypeOK => ConfigTypeOK'
  BY DEF configVars, ConfigTypeOK
<1>3. UNCHANGED depositVars /\ DepositTypeOK => DepositTypeOK'
  BY DEF depositVars, DepositTypeOK
<1>4. UNCHANGED solVars /\ SolTypeOK => SolTypeOK'
  BY DEF solVars, SolTypeOK
<1>5. UNCHANGED swapVars /\ SwapTypeOK => SwapTypeOK'
  BY DEF swapVars, journalSwapVars, SwapTypeOK
<1>6. UNCHANGED termVars /\ TermTypeOK => TermTypeOK'
  BY DEF termVars, TermTypeOK
<1>7. UNCHANGED calculatedDebtVars /\ CalculatedDebtTypeOK => CalculatedDebtTypeOK'
  BY DEF calculatedDebtVars, CalculatedDebtTypeOK
<1>8. UNCHANGED settledDebtVars /\ SettledDebtTypeOK => SettledDebtTypeOK'
  BY DEF settledDebtVars, SettledDebtTypeOK
<1>9. UNCHANGED rewardsVars /\ RewardsTypeOK => RewardsTypeOK'
  BY DEF rewardsVars, RewardsTypeOK
<1>10. UNCHANGED paidVars /\ PaidTypeOK => PaidTypeOK'
  BY DEF paidVars, PaidTypeOK
<1>11. UNCHANGED sweepVars /\ SweepTypeOK => SweepTypeOK'
  BY DEF sweepVars, SweepTypeOK
<1>12. UNCHANGED integrationVars /\ IntegrationTypeOK => IntegrationTypeOK'
  BY DEF integrationVars, IntegrationTypeOK
<1>13. UNCHANGED collectionVars /\ CollectionTypeOK => CollectionTypeOK'
  BY DEF collectionVars, CollectionTypeOK
<1>14. UNCHANGED prepaidVars /\ PrepaidTypeOK => PrepaidTypeOK'
  BY DEF prepaidVars, PrepaidTypeOK
<1>15. UNCHANGED layoutVars /\ LayoutTypeOK => LayoutTypeOK'
  BY DEF layoutVars, LayoutTypeOK
<1> QED
  BY <1>1, <1>2, <1>3, <1>4, <1>5, <1>6, <1>7, <1>8, <1>9, <1>10, <1>11, <1>12, <1>13,
     <1>14, <1>15

\* The shares of unchanged recipients stay valid, and so does an unchanged slope.
LEMMA StableStrengthening ==
  /\ UNCHANGED recipient_shares /\ RecipientsValid => RecipientsValid'
  /\ UNCHANGED configVars => UNCHANGED config
  /\ UNCHANGED solVars => UNCHANGED <<journal_lamports, total_sol_balance>>
  BY DEF RecipientsValid, is_valid_recipient_shares, configVars, solVars

(***************************************************************************)
(* The bitmaps at the end of a Distribution account.                       *)
(***************************************************************************)
\* The bit of a leaf is a position of the remaining data.
LEMMA LeafBitType ==
  ASSUME NEW range \in BitmapRange, NEW i \in Nat
  PROVE  leaf_bit(range, i) \in Nat
  BY DEF BitmapRange, leaf_bit

\* A bitmap has a natural number of bytes.
LEMMA BitmapBytesType ==
  ASSUME NEW n \in Nat
  PROVE  bitmap_bytes(n) \in Nat
  BY DEF bitmap_bytes

\* A saturating subtraction never goes below zero, nor above its first operand.
LEMMA SaturatingSubType ==
  ASSUME NEW a \in Nat, NEW b \in Nat
  PROVE  /\ saturating_sub(a, b) \in Nat
         /\ saturating_sub(a, b) <= a
         /\ saturating_sub(a, b) = 0 \/ saturating_sub(a, b) + b = a
  BY DEF saturating_sub

\* The rent exemption of a Distribution account is a natural number.
LEMMA MinimumBalanceType ==
  ASSUME NEW len \in Nat
  PROVE  minimum_balance(len) \in Nat
  BY LimitsAssumption DEF minimum_balance

\* Growing a Distribution account keeps the types of its length and its lamports.
LEMMA ResizeType ==
  ASSUME LayoutTypeOK, NEW e \in Epochs, NEW n \in Nat, NEW extra \in Nat
  PROVE  /\ appended_range(e, n) \in BitmapRange
         /\ resize(e, n, extra) => /\ remaining_data_len' \in [Epochs -> Nat]
                                   /\ distribution_lamports' \in [Epochs -> Nat]
<1>1. /\ remaining_data_len \in [Epochs -> Nat] /\ distribution_lamports \in [Epochs -> Nat]
      /\ remaining_data_len[e] \in Nat /\ distribution_lamports[e] \in Nat
  BY DEF LayoutTypeOK
<1>2. bitmap_bytes(n) \in Nat
  BY BitmapBytesType
<1>3. remaining_data_len[e] + bitmap_bytes(n) \in Nat
  BY <1>1, <1>2
<1>4. additional_lamports_for_resize(e, n) \in Nat
  BY <1>1, <1>3, MinimumBalanceType, SaturatingSubType DEF additional_lamports_for_resize
<1>5. appended_range(e, n) \in BitmapRange
  BY <1>1, <1>2 DEF appended_range, BitmapRange
<1>6. ASSUME resize(e, n, extra)
      PROVE  /\ remaining_data_len' \in [Epochs -> Nat]
             /\ distribution_lamports' \in [Epochs -> Nat]
  BY <1>1, <1>2, <1>4, <1>6 DEF resize
<1> QED
  BY <1>5, <1>6

(***************************************************************************)
(* The instructions on debt.                                               *)
(***************************************************************************)
\* ConfigureDistributionDebt preserves the types.
LEMMA ConfigureDistributionDebtType ==
  ASSUME TypeInv, NEW e \in Epochs, NEW calculation \in DebtCalculation,
         ConfigureDistributionDebt(e, calculation)
  PROVE  TypeInv'
<1> USE DEF ConfigureDistributionDebt
<1>1. CalculatedDebtTypeOK'
  BY DEF TypeInv, TypeOK, CalculatedDebtTypeOK, DebtCalculation
<1> QED
  BY <1>1, StableTypes, StableStrengthening DEF TypeInv, TypeOK

\* FinalizeDistributionDebt preserves the types, with and without debt.
LEMMA FinalizeDistributionDebtType ==
  ASSUME TypeInv, NEW e \in Epochs, FinalizeDistributionDebt(e)
  PROVE  TypeInv'
<1> USE DEF FinalizeDistributionDebt
<1>1. CalculatedDebtTypeOK'
  BY DEF TypeInv, TypeOK, CalculatedDebtTypeOK
<1>2. LayoutTypeOK'
  <2>1. total_solana_validators[e] \in Nat /\ LayoutTypeOK
    BY DEF TypeInv, TypeOK, CalculatedDebtTypeOK
  <2>2. /\ appended_range(e, total_solana_validators[e]) \in BitmapRange
        /\ resize(e, total_solana_validators[e], 0) =>
             /\ remaining_data_len' \in [Epochs -> Nat]
             /\ distribution_lamports' \in [Epochs -> Nat]
    BY <2>1, ResizeType
  <2> QED
    BY <2>1, <2>2 DEF LayoutTypeOK, append_processed_debt_bitmap
<1> QED
  BY <1>1, <1>2, StableTypes, StableStrengthening DEF TypeInv, TypeOK

\* A transfer to a deposit address preserves the types.
LEMMA FundSolanaValidatorDepositType ==
  ASSUME TypeInv, NEW n \in Nodes, NEW amount \in Nat, FundSolanaValidatorDeposit(n, amount)
  PROVE  TypeInv'
<1> USE DEF FundSolanaValidatorDeposit
<1>1. DepositTypeOK'
  BY DEF TypeInv, TypeOK, DepositTypeOK
<1> QED
  BY <1>1, StableTypes, StableStrengthening DEF TypeInv, TypeOK, debtVars

\* InitializeSolanaValidatorDeposit preserves the types.
LEMMA InitializeSolanaValidatorDepositType ==
  ASSUME TypeInv, NEW n \in Nodes, InitializeSolanaValidatorDeposit(n)
  PROVE  TypeInv'
<1> USE DEF InitializeSolanaValidatorDeposit
<1>1. DepositTypeOK'
  BY LimitsAssumption DEF TypeInv, TypeOK, DepositTypeOK
<1> QED
  BY <1>1, StableTypes, StableStrengthening DEF TypeInv, TypeOK, debtVars

\* WithdrawSolanaValidatorDeposit never takes more than the deposit holds.
LEMMA WithdrawSolanaValidatorDepositType ==
  ASSUME TypeInv, NEW n \in Nodes, WithdrawSolanaValidatorDeposit(n)
  PROVE  TypeInv'
<1> USE DEF WithdrawSolanaValidatorDeposit
<1>1. DepositTypeOK'
  BY LimitsAssumption
     DEF TypeInv, TypeOK, DepositTypeOK, withdrawn_lamports, excess_lamports, saturating_sub
<1> QED
  BY <1>1, StableTypes, StableStrengthening DEF TypeInv, TypeOK, debtVars

\* PaySolanaValidatorDebt never takes more than the deposit holds.
LEMMA PaySolanaValidatorDebtType ==
  ASSUME TypeInv, NEW e \in Epochs, NEW i \in Nat, NEW n \in Nodes, NEW amount \in Nat,
         PaySolanaValidatorDebt(e, i, n, amount)
  PROVE  TypeInv'
<1> USE DEF PaySolanaValidatorDebt
<1>1. DepositTypeOK'
  BY LimitsAssumption
     DEF TypeInv, TypeOK, DepositTypeOK, can_pay, excess_lamports, saturating_sub
<1>2. SolTypeOK' /\ journal_lamports' = total_sol_balance'
  BY DEF TypeInv, TypeOK, SolTypeOK
<1>3. SettledDebtTypeOK'
  BY DEF TypeInv, TypeOK, SettledDebtTypeOK
<1>4. LayoutTypeOK'
  <2>1. processed_debt_range[e] \in BitmapRange
    BY DEF TypeInv, TypeOK, LayoutTypeOK
  <2>2. leaf_bit(processed_debt_range[e], i) \in Nat
    BY <2>1, LeafBitType
  <2> QED
    BY <2>2 DEF TypeInv, TypeOK, LayoutTypeOK
<1> QED
  BY <1>1, <1>2, <1>3, <1>4, StableTypes, StableStrengthening DEF TypeInv, TypeOK, debtVars

\* EnableSolanaValidatorDebtWriteOff preserves the types.
LEMMA EnableSolanaValidatorDebtWriteOffType ==
  ASSUME TypeInv, NEW e \in Epochs, EnableSolanaValidatorDebtWriteOff(e)
  PROVE  TypeInv'
<1> USE DEF EnableSolanaValidatorDebtWriteOff
<1>1. SettledDebtTypeOK'
  BY DEF TypeInv, TypeOK, SettledDebtTypeOK
<1>2. LayoutTypeOK'
  <2>1. total_solana_validators[e] \in Nat /\ LayoutTypeOK
    BY DEF TypeInv, TypeOK, CalculatedDebtTypeOK
  <2>2. /\ appended_range(e, total_solana_validators[e]) \in BitmapRange
        /\ remaining_data_len' \in [Epochs -> Nat]
        /\ distribution_lamports' \in [Epochs -> Nat]
    BY <2>1, ResizeType
  <2> QED
    BY <2>1, <2>2 DEF LayoutTypeOK
<1> QED
  BY <1>1, <1>2, StableTypes, StableStrengthening DEF TypeInv, TypeOK

\* WriteOffSolanaValidatorDebt preserves the types.
LEMMA WriteOffSolanaValidatorDebtType ==
  ASSUME TypeInv, NEW e \in Epochs, NEW i \in Nat, NEW n \in Nodes, NEW amount \in Nat,
         NEW w \in Epochs, WriteOffSolanaValidatorDebt(e, i, n, amount, w)
  PROVE  TypeInv'
<1> USE DEF WriteOffSolanaValidatorDebt
<1>1. DepositTypeOK'
  BY DEF TypeInv, TypeOK, DepositTypeOK
<1>2. SettledDebtTypeOK'
  <2>1. uncollectible_sol_debt' \in [Epochs -> Nat]
    BY DEF TypeInv, TypeOK, SettledDebtTypeOK
  <2>2. solana_validator_write_off_count' \in [Epochs -> Nat]
    BY DEF TypeInv, TypeOK, SettledDebtTypeOK
  <2> QED
    BY <2>1, <2>2, Zenon DEF TypeInv, TypeOK, SettledDebtTypeOK
<1>3. LayoutTypeOK'
  <2>1. processed_debt_range[e] \in BitmapRange /\ write_off_range[e] \in BitmapRange
    BY DEF TypeInv, TypeOK, LayoutTypeOK
  <2>2. leaf_bit(processed_debt_range[e], i) \in Nat /\ leaf_bit(write_off_range[e], i) \in Nat
    BY <2>1, LeafBitType
  <2> QED
    BY <2>2 DEF TypeInv, TypeOK, LayoutTypeOK
<1> QED
  BY <1>1, <1>2, <1>3, StableTypes, StableStrengthening DEF TypeInv, TypeOK

(***************************************************************************)
(* What a share of an amount is.                                           *)
(***************************************************************************)
\* Multiplication by a natural number is monotone.
LEMMA ProductMonotone ==
  ASSUME NEW a \in Nat, NEW b \in Nat, NEW x \in Nat, a <= b
  PROVE  a * x <= b * x
OBVIOUS

\* A common positive factor of two ordered products can be cancelled.
LEMMA ProductCancel ==
  ASSUME NEW a \in Nat, NEW b \in Nat, NEW M \in Nat \ {0}, M * a <= M * b
  PROVE  a <= b
OBVIOUS

\* A share that is at most the whole is at most the amount.
LEMMA MulScalarBound ==
  ASSUME NEW share \in Nat, NEW x \in Nat, NEW max \in Nat \ {0}
  PROVE  /\ mul_scalar(share, x, max) \in Nat
         /\ share <= max => mul_scalar(share, x, max) <= x
<1> DEFINE q == mul_scalar(share, x, max)
<1>1. share * x \in Nat
  OBVIOUS
<1>2. q \in Nat /\ max * q <= share * x
  BY <1>1, Quotient DEF mul_scalar
<1>3. ASSUME share <= max PROVE q <= x
  <2>1. share * x <= max * x
    BY <1>3, ProductMonotone
  <2>2. max * q <= max * x
    BY <1>1, <1>2, <2>1
  <2> HIDE DEF q
  <2> QED
    BY <1>2, <2>2, ProductCancel
<1> QED
  BY <1>2, <1>3

\* The recipients of a contributor together receive at most what is split among them.
LEMMA RecipientsBound ==
  ASSUME NEW shares \in Seq(Nat), is_valid_recipient_shares(shares), NEW x \in Nat
  PROVE  LET parts == [r \in DOMAIN shares |-> mul_scalar(shares[r], x, MAX_RECIPIENT_SHARE)]
         IN  Total(parts) \in Nat /\ Total(parts) <= x
<1> DEFINE n == Len(shares)
           M == MAX_RECIPIENT_SHARE
           parts == [r \in 1..n |-> (shares[r] * x) \div M]
<1>1. n \in Nat /\ DOMAIN shares = 1..n /\ shares \in [1..n -> Nat]
  OBVIOUS
<1>2. M \in Nat \ {0}
  BY LimitsAssumption
<1>3. M * Total(parts) <= Total(shares) * x
  <2> HIDE DEF n, M
  <2> QED
    BY <1>1, <1>2, TotalOfQuotients
<1>4. parts \in [1..n -> Nat]
  <2>1. ASSUME NEW r \in 1..n PROVE (shares[r] * x) \div M \in Nat
    <3>1. shares[r] * x \in Nat
      BY <1>1
    <3> QED
      BY <1>2, <3>1, Quotient
  <2> QED
    BY <2>1
<1>5. Total(parts) \in Nat
  <2> HIDE DEF n, parts
  <2> QED
    BY <1>1, <1>4, TotalFinite
<1>6. Total(shares) = M
  BY DEF is_valid_recipient_shares
<1>7. M * Total(parts) <= M * x
  BY <1>3, <1>6
<1>8. Total(parts) <= x
  <2> HIDE DEF parts, M
  <2> QED
    BY <1>2, <1>5, <1>7, ProductCancel
<1>9. [r \in DOMAIN shares |-> mul_scalar(shares[r], x, MAX_RECIPIENT_SHARE)] = parts
  BY <1>1 DEF mul_scalar
<1> QED
  BY <1>5, <1>8, <1>9

\* A reward splits into what the recipients receive and what is burned.
LEMMA RewardSplit ==
  ASSUME TypeInv, NEW e \in Epochs, NEW leaf \in RewardLeaf, is_valid_reward_share(leaf),
         recipient_shares[leaf.service_key] # <<>>
  PROVE  /\ share_amount(e, leaf) \in Nat
         /\ transferred_share_amount(e, leaf) \in Nat
         /\ burned_share_amount(e, leaf) \in Nat
         /\ transferred_share_amount(e, leaf) + burned_share_amount(e, leaf)
              = share_amount(e, leaf)
<1> DEFINE x == share_amount(e, leaf)
           b == burn_share_amount(e, leaf)
           shares == recipient_shares[leaf.service_key]
<1>1. MAX_SHARE \in Nat \ {0}
  BY MaxShareAssumption
<1>2. total_collected_2z_tokens(e) \in Nat
  BY DEF TypeInv, TypeOK, total_collected_2z_tokens, PrepaidTypeOK, SweepTypeOK,
         CollectionTypeOK
<1>3. leaf.unit_share \in Nat /\ leaf.economic_burn_rate \in Nat /\ leaf.service_key \in Contributors
  BY DEF RewardLeaf
<1>4. x \in Nat
  BY <1>1, <1>2, <1>3, MulScalarBound DEF share_amount
<1>5. burn_rate(e, leaf) \in Nat /\ burn_rate(e, leaf) <= MAX_SHARE
  <2>1. economic_burn_rate[e] \in 0..MAX_SHARE /\ community_burn_rate[e] \in 0..MAX_SHARE
    BY DEF TypeInv, TypeOK, RewardsTypeOK, TermTypeOK, BurnRate
  <2> QED
    BY <1>1, <1>3, <2>1 DEF burn_rate, is_valid_reward_share
<1>6. b \in Nat /\ b <= x
  <2> HIDE DEF x
  <2> QED
    BY <1>1, <1>4, <1>5, MulScalarBound DEF burn_share_amount, x
<1>7. x - b \in Nat /\ x - b <= x
  <2> HIDE DEF x, b
  <2> QED
    BY <1>4, <1>6
<1>8. shares \in Seq(Nat) /\ is_valid_recipient_shares(shares)
  BY <1>3 DEF TypeInv, TypeOK, RecipientsValid
<1>9. transferred_share_amount(e, leaf) \in Nat /\ transferred_share_amount(e, leaf) <= x - b
  <2> HIDE DEF x, b
  <2> QED
    BY <1>7, <1>8, RecipientsBound DEF transferred_share_amount, x, b
<1> HIDE DEF b
<1> QED
  BY <1>4, <1>7, <1>9 DEF burned_share_amount, x

(***************************************************************************)
(* The instructions on rewards.                                            *)
(***************************************************************************)
\* ConfigureDistributionRewards preserves the types.
LEMMA ConfigureDistributionRewardsType ==
  ASSUME TypeInv, NEW e \in Epochs, NEW calculation \in RewardsCalculation,
         ConfigureDistributionRewards(e, calculation)
  PROVE  TypeInv'
<1> USE DEF ConfigureDistributionRewards
<1>1. RewardsTypeOK'
  BY DEF TypeInv, TypeOK, RewardsTypeOK, RewardsCalculation
<1> QED
  BY <1>1, StableTypes, StableStrengthening DEF TypeInv, TypeOK, debtVars

\* SetDistributionEconomicBurnRate stores a rate that is at most the whole.
LEMMA SetDistributionEconomicBurnRateType ==
  ASSUME TypeInv, NEW e \in Epochs, NEW rate \in Nat, SetDistributionEconomicBurnRate(e, rate)
  PROVE  TypeInv'
<1> USE DEF SetDistributionEconomicBurnRate
<1>1. RewardsTypeOK'
  <2>1. rate \in BurnRate
    BY MaxShareAssumption DEF BurnRate
  <2> QED
    BY <2>1 DEF TypeInv, TypeOK, RewardsTypeOK
<1> QED
  BY <1>1, StableTypes, StableStrengthening DEF TypeInv, TypeOK, debtVars

\* FinalizeDistributionRewards preserves the types.
LEMMA FinalizeDistributionRewardsType ==
  ASSUME TypeInv, NEW e \in Epochs, FinalizeDistributionRewards(e)
  PROVE  TypeInv'
<1> USE DEF FinalizeDistributionRewards
<1>1. RewardsTypeOK'
  BY DEF TypeInv, TypeOK, RewardsTypeOK
<1>2. LayoutTypeOK'
  <2>1. /\ total_contributors[e] \in Nat /\ distribute_rewards_relay_lamports[e] \in Nat
        /\ LayoutTypeOK
    BY DEF TypeInv, TypeOK, RewardsTypeOK, TermTypeOK
  <2>2. relay_escrow(e) \in Nat
    BY <2>1 DEF relay_escrow
  <2>3. /\ appended_range(e, total_contributors[e]) \in BitmapRange
        /\ remaining_data_len' \in [Epochs -> Nat]
        /\ distribution_lamports' \in [Epochs -> Nat]
    BY <2>1, <2>2, ResizeType
  <2> QED
    BY <2>1, <2>3 DEF LayoutTypeOK
<1> QED
  BY <1>1, <1>2, StableTypes, StableStrengthening DEF TypeInv, TypeOK, debtVars

\* DistributeRewards never takes more 2Z or lamports than the distribution holds.
LEMMA DistributeRewardsType ==
  ASSUME TypeInv, NEW e \in Epochs, NEW i \in Nat, NEW leaf \in RewardLeaf,
         DistributeRewards(e, i, leaf)
  PROVE  TypeInv'
<1> USE DEF DistributeRewards
<1> DEFINE transferred == transferred_share_amount(e, leaf)
           burned == burned_share_amount(e, leaf)
<1>1. /\ transferred \in Nat /\ burned \in Nat
      /\ distribution_2z[e] >= transferred + burned
  BY RewardSplit
<1> HIDE DEF transferred, burned
<1>2. PaidTypeOK'
  <2>1. distributed_2z_amount' = [distributed_2z_amount EXCEPT ![e] = @ + transferred]
    BY DEF transferred
  <2>2. burned_2z_amount' = [burned_2z_amount EXCEPT ![e] = @ + burned]
    BY DEF burned
  <2>3. distributed_rewards_count' = [distributed_rewards_count EXCEPT ![e] = @ + 1]
    OBVIOUS
  <2> QED
    BY <1>1, <2>1, <2>2, <2>3 DEF TypeInv, TypeOK, PaidTypeOK
<1>3. distribution_2z' \in [Epochs -> Nat]
  <2>1. distribution_2z' = [distribution_2z EXCEPT ![e] = @ - transferred - burned]
    BY DEF transferred, burned
  <2>2. distribution_2z \in [Epochs -> Nat]
    BY DEF TypeInv, TypeOK
  <2> QED
    BY <1>1, <2>1, <2>2
<1>4. LayoutTypeOK'
  <2>1. processed_rewards_range[e] \in BitmapRange
    BY DEF TypeInv, TypeOK, LayoutTypeOK
  <2>2. leaf_bit(processed_rewards_range[e], i) \in Nat
    BY <2>1, LeafBitType
  <2>3. remaining_data' \in [Epochs -> SUBSET Nat]
    BY <2>2 DEF TypeInv, TypeOK, LayoutTypeOK
  <2>4. /\ remaining_data_len[e] \in Nat /\ distribute_rewards_relay_lamports[e] \in Nat
        /\ distribution_lamports \in [Epochs -> Nat]
    BY DEF TypeInv, TypeOK, LayoutTypeOK, TermTypeOK
  <2>5. minimum_balance(remaining_data_len[e]) \in Nat
    BY <2>4, MinimumBalanceType
  <2>6. distribution_lamports' \in [Epochs -> Nat]
    BY <2>4, <2>5 DEF can_pay_relayer
  <2> QED
    BY <2>3, <2>6 DEF TypeInv, TypeOK, LayoutTypeOK
<1> QED
  BY <1>2, <1>3, <1>4, StableTypes, StableStrengthening DEF TypeInv, TypeOK, debtVars

\* Recipients that are configured together receive the whole.
LEMMA ConfigureRecipientsType ==
  ASSUME TypeInv, NEW c \in Contributors, NEW shares \in Seq(Nat),
         ConfigureRecipients(c, shares)
  PROVE  TypeInv'
<1> USE DEF ConfigureRecipients
<1>1. recipient_shares' \in [Contributors -> Seq(Nat)]
  BY DEF TypeInv, TypeOK
<1>2. RecipientsValid'
  <2> SUFFICES ASSUME NEW d \in Contributors
               PROVE  \/ recipient_shares'[d] = <<>>
                      \/ is_valid_recipient_shares(recipient_shares'[d])
    BY DEF RecipientsValid, is_valid_recipient_shares
  <2>1. recipient_shares'[d] = IF d = c THEN shares ELSE recipient_shares[d]
    BY DEF TypeInv, TypeOK
  <2>2. CASE d = c
    BY <2>1, <2>2
  <2>3. CASE d # c
    BY <2>1, <2>3 DEF TypeInv, RecipientsValid
  <2> QED
    BY <2>2, <2>3
<1> QED
  BY <1>1, <1>2, StableTypes, StableStrengthening DEF TypeInv, TypeOK, debtVars

(***************************************************************************)
(* The instructions on the journal and on integrations.                    *)
(***************************************************************************)
\* What wraps stays below the number of values of a u64.
LEMMA WrappingType ==
  ASSUME NEW x \in Int, NEW y \in Int
  PROVE  wrapping_add(x, y) \in 0..(U64 - 1) /\ wrapping_sub(x, y) \in 0..(U64 - 1)
<1>1. ASSUME NEW z \in Int
      PROVE  z % U64 \in 0..(U64 - 1)
  BY LimitsAssumption
<1>2. x + y \in Int /\ x - y \in Int
  OBVIOUS
<1> QED
  BY <1>1, <1>2 DEF wrapping_add, wrapping_sub

\* WithdrawSol never takes more than the journal holds for the swap.
LEMMA WithdrawSolType ==
  ASSUME TypeInv, NEW amount \in Nat, NEW transfer_amount \in Nat,
         WithdrawSol(amount, transfer_amount)
  PROVE  TypeInv'
<1> USE DEF WithdrawSol
<1>1. SolTypeOK' /\ journal_lamports' = total_sol_balance'
  BY DEF TypeInv, TypeOK, SolTypeOK, can_withdraw_sol
<1>2. SwapTypeOK'
  BY WrappingType DEF TypeInv, TypeOK, SwapTypeOK
<1> QED
  BY <1>1, <1>2, StableTypes, StableStrengthening DEF TypeInv, TypeOK, debtVars

\* SweepDistributionTokens never takes more SOL than was swapped nor more 2Z than there is.
LEMMA SweepDistributionTokensType ==
  ASSUME TypeInv, NEW e \in Epochs, NEW token_2z_amount \in Nat,
         SweepDistributionTokens(e, token_2z_amount)
  PROVE  TypeInv'
<1> USE DEF SweepDistributionTokens, move_swept_2z
<1>1. total_sol_debt(e) \in Nat
  BY DEF TypeInv, TypeOK, CalculatedDebtTypeOK, SettledDebtTypeOK, total_sol_debt,
         can_sweep, is_total_sol_debt_some
<1>2. SolTypeOK' /\ journal_lamports' = total_sol_balance'
  BY <1>1 DEF TypeInv, TypeOK, SolTypeOK, covers_sol_debt
<1>3. SwapTypeOK' /\ distribution_2z' \in [Epochs -> Nat]
  <2>1. /\ SwapTypeOK /\ distribution_2z \in [Epochs -> Nat]
        /\ UNCHANGED <<lifetime_swapped_2z_amount, donated_2z>>
    BY DEF TypeInv, TypeOK
  <2>2. CASE total_sol_debt(e) = 0
    BY <2>1, <2>2 DEF SwapTypeOK
  <2>3. CASE total_sol_debt(e) # 0
    <3>1. /\ token_2z_amount <= swap_destination_2z
          /\ swap_destination_2z' = swap_destination_2z - token_2z_amount
          /\ swap_2z_destination_balance' =
               wrapping_sub(swap_2z_destination_balance, token_2z_amount)
          /\ distribution_2z' = [distribution_2z EXCEPT ![e] = @ + token_2z_amount]
      BY <2>3 DEF is_transfer_funded, swap_balance_after
    <3> HIDE DEF SweepDistributionTokens, move_swept_2z
    <3>2. swap_2z_destination_balance' \in 0..(U64 - 1)
      BY <2>1, <3>1, WrappingType DEF SwapTypeOK
    <3> QED
      BY <2>1, <3>1, <3>2 DEF SwapTypeOK
  <2> QED
    BY <2>2, <2>3
<1>4. SweepTypeOK'
  <2>1. SweepTypeOK
    BY DEF TypeInv, TypeOK
  <2>2. /\ has_swept_2z_tokens' = [has_swept_2z_tokens EXCEPT ![e] = TRUE]
        /\ next_dz_epoch_to_sweep_tokens' = next_dz_epoch_to_sweep_tokens + 1
        /\ \/ UNCHANGED collected_2z_converted_from_sol
           \/ collected_2z_converted_from_sol' =
                [collected_2z_converted_from_sol EXCEPT ![e] = token_2z_amount]
    OBVIOUS
  <2> HIDE DEF SweepDistributionTokens, move_swept_2z
  <2> QED
    BY <2>1, <2>2 DEF SweepTypeOK
<1> QED
  BY <1>2, <1>3, <1>4, StableTypes, StableStrengthening DEF TypeInv, TypeOK, debtVars

\* A transfer to the swap destination preserves the types.
LEMMA DonateTwoZType ==
  ASSUME TypeInv, NEW amount \in Nat, DonateTwoZ(amount)
  PROVE  TypeInv'
<1> USE DEF DonateTwoZ
<1>1. SwapTypeOK'
  BY DEF TypeInv, TypeOK, SwapTypeOK, journalSwapVars
<1> QED
  BY <1>1, StableTypes, StableStrengthening DEF TypeInv, TypeOK, debtVars

\* InitializeRewardsIntegration preserves the types.
LEMMA InitializeRewardsIntegrationType ==
  ASSUME TypeInv, NEW p \in Integrations, InitializeRewardsIntegration(p)
  PROVE  TypeInv'
<1> USE DEF InitializeRewardsIntegration
<1>1. IntegrationTypeOK'
  BY DEF TypeInv, TypeOK, IntegrationTypeOK
<1> QED
  BY <1>1, StableTypes, StableStrengthening DEF TypeInv, TypeOK, debtVars

\* CollectIntegrationRewards preserves the types.
LEMMA CollectIntegrationRewardsType ==
  ASSUME TypeInv, NEW e \in Epochs, NEW p \in Integrations, NEW collected_amount \in Nat,
         CollectIntegrationRewards(e, p, collected_amount)
  PROVE  TypeInv'
<1> USE DEF CollectIntegrationRewards
<1>1. CollectionTypeOK'
  <2>1. registration_index[p] \in Nat
    BY DEF TypeInv, TypeOK, IntegrationTypeOK
  <2>2. /\ CollectionTypeOK
        /\ collected_2z_from_integrations' =
              [collected_2z_from_integrations EXCEPT ![e] = @ + collected_amount]
        /\ integrations_collected_count' = [integrations_collected_count EXCEPT ![e] = @ + 1]
        /\ collected_integrations_bitmap' =
              [collected_integrations_bitmap EXCEPT ![e] = @ \cup {registration_index[p]}]
        /\ UNCHANGED integrations_count_snapshot
    BY DEF TypeInv, TypeOK
  <2> HIDE DEF CollectIntegrationRewards
  <2>3. /\ collected_2z_from_integrations' \in [Epochs -> Nat]
        /\ integrations_collected_count' \in [Epochs -> Nat]
        /\ integrations_count_snapshot' \in [Epochs -> Nat]
    BY <2>2 DEF CollectionTypeOK
  <2>4. collected_integrations_bitmap' \in [Epochs -> SUBSET Nat]
    BY <2>1, <2>2 DEF CollectionTypeOK
  <2> QED
    BY <2>3, <2>4 DEF CollectionTypeOK
<1>2. distribution_2z' \in [Epochs -> Nat]
  BY DEF TypeInv, TypeOK
<1> QED
  BY <1>1, <1>2, StableTypes, StableStrengthening DEF TypeInv, TypeOK, debtVars

(***************************************************************************)
(* The schedule of the community burn rate.                                *)
(***************************************************************************)
\* checked_compute keeps every parameter of the burn-rate schedule in its range.
LEMMA ComputedType ==
  ASSUME NEW p \in CommunityBurnRateParameters, p.cached_slope_denominator # 0
  PROVE  /\ computed(p) \in CommunityBurnRateParameters
         /\ computed(p).cached_slope_denominator # 0
<1> DEFINE to_limit == saturating_sub(p.dz_epochs_to_limit, 1)
           to_increasing == saturating_sub(p.dz_epochs_to_increasing, 1)
           rate == next_cached_rate(p, to_increasing, to_limit)
<1>1. /\ p.limit \in BurnRate /\ p.cached_next_burn_rate \in BurnRate
      /\ p.cached_slope_numerator \in BurnRate /\ p.cached_slope_denominator \in Nat \ {0}
      /\ p.dz_epochs_to_limit \in Nat /\ p.dz_epochs_to_increasing \in Nat
  BY DEF CommunityBurnRateParameters
<1>2. to_limit \in Nat /\ to_increasing \in Nat
  BY <1>1, SaturatingSubType
<1>3. increased_rate(p) \in BurnRate
  <2> DEFINE a == p.cached_next_burn_rate * p.cached_slope_denominator + p.cached_slope_numerator
             q == a \div p.cached_slope_denominator
  <2>1. a \in Nat
    <3>1. p.cached_next_burn_rate \in Nat /\ p.cached_slope_numerator \in Nat
      BY <1>1, MaxShareAssumption DEF BurnRate
    <3>2. p.cached_next_burn_rate * p.cached_slope_denominator \in Nat
      BY <1>1, <3>1
    <3> QED
      BY <3>1, <3>2
  <2>2. q \in Nat
    <3> HIDE DEF a
    <3> QED
      BY <1>1, <2>1, Quotient
  <2>3. increased_rate(p) = IF q <= p.limit THEN q ELSE p.limit
    BY DEF increased_rate
  <2> HIDE DEF q
  <2> QED
    BY <1>1, <2>2, <2>3, MaxShareAssumption DEF BurnRate
<1>4. rate \in BurnRate
  BY <1>1, <1>3 DEF next_cached_rate
<1>5. computed(p) = [p EXCEPT !.dz_epochs_to_limit = to_limit,
                              !.dz_epochs_to_increasing = to_increasing,
                              !.cached_next_burn_rate = rate]
  BY DEF computed
<1> HIDE DEF to_limit, to_increasing, rate
<1> QED
  BY <1>1, <1>2, <1>4, <1>5 DEF CommunityBurnRateParameters

\* checked_update keeps the parameters in their ranges and the slope defined.
LEMMA UpdatedType ==
  ASSUME NEW p \in CommunityBurnRateParameters, NEW limit \in BurnRate,
         NEW to_increasing \in Nat, NEW to_limit \in Nat,
         can_update(p, limit, to_increasing, to_limit)
  PROVE  /\ updated(p, limit, to_increasing, to_limit) \in CommunityBurnRateParameters
         /\ updated(p, limit, to_increasing, to_limit).cached_slope_denominator # 0
<1>1. p.cached_next_burn_rate \in 0..MAX_SHARE /\ limit \in 0..MAX_SHARE
  BY DEF CommunityBurnRateParameters, BurnRate
<1>2. limit - p.cached_next_burn_rate \in BurnRate
  BY <1>1, MaxShareAssumption DEF can_update, BurnRate
<1>3. (to_limit - to_increasing) + 1 \in Nat \ {0}
  BY DEF can_update
<1> QED
  BY <1>2, <1>3 DEF updated, CommunityBurnRateParameters

\* Parameters with an initial rate are in their ranges.
LEMMA InitialRateType ==
  ASSUME NEW rate \in BurnRate
  PROVE  with_initial_rate(rate) \in CommunityBurnRateParameters
<1>1. 0 \in BurnRate
  BY MaxShareAssumption DEF BurnRate
<1> QED
  BY <1>1 DEF with_initial_rate, DefaultCommunityBurnRate, CommunityBurnRateParameters

(***************************************************************************)
(* The instructions that set the terms of an epoch.                        *)
(***************************************************************************)
\* A prepayment preserves the types.
LEMMA PrepayTwoZType ==
  ASSUME TypeInv, NEW amount \in Nat, PrepayTwoZ(amount)
  PROVE  TypeInv'
<1> USE DEF PrepayTwoZ
<1>1. PrepaidTypeOK'
  BY DEF TypeInv, TypeOK, PrepaidTypeOK
<1> QED
  BY <1>1, StableTypes, StableStrengthening DEF TypeInv, TypeOK, debtVars

\* MigrateProgramAccounts preserves the types.
LEMMA MigrateProgramAccountsType ==
  ASSUME TypeInv, NEW distributions \in SUBSET Epochs, MigrateProgramAccounts(distributions)
  PROVE  TypeInv'
<1> USE DEF MigrateProgramAccounts
<1>1. CollectionTypeOK'
  BY DEF TypeInv, TypeOK, CollectionTypeOK, IntegrationTypeOK
<1> QED
  BY <1>1, StableTypes, StableStrengthening DEF TypeInv, TypeOK, debtVars

\* InitializeDistribution gives the new distribution fields of their types.
LEMMA InitializeDistributionType ==
  ASSUME TypeInv, InitializeDistribution
  PROVE  TypeInv'
<1> USE DEF InitializeDistribution, move_prepaid_2z
<1> DEFINE e == next_completed_dz_epoch
           p == config.community_burn_rate_parameters
<1>1. e \in Epochs /\ e + 1 \in 0..MaxEpochs
  BY BoundsAssumption DEF TypeInv, TypeOK, ConfigTypeOK, Epochs
<1>2. config \in Config /\ now \in Nat
  BY DEF TypeInv, TypeOK, ConfigTypeOK
<1>3. /\ p \in CommunityBurnRateParameters
      /\ config.calculation_grace_period \in Nat
      /\ config.distribute_rewards_lamports \in Nat
      /\ config.has_solana_validator_fees \in BOOLEAN
  BY <1>2 DEF Config
<1>4. computed(p) \in CommunityBurnRateParameters /\ computed(p).cached_slope_denominator # 0
  BY <1>3, ComputedType DEF TypeInv
<1>5. /\ config' \in Config
      /\ config'.community_burn_rate_parameters = computed(p)
  <2>1. config' = [config EXCEPT !.community_burn_rate_parameters = computed(p)]
    OBVIOUS
  <2> HIDE DEF p
  <2> QED
    BY <1>2, <1>4, <2>1 DEF Config
<1>6. ConfigTypeOK'
  BY <1>1, <1>2, <1>5 DEF TypeInv, TypeOK, ConfigTypeOK
<1>7. TermTypeOK'
  <2>1. p.cached_next_burn_rate \in BurnRate
    BY <1>3 DEF CommunityBurnRateParameters
  <2>2. community_burn_rate' \in [Epochs -> BurnRate]
    BY <2>1 DEF TypeInv, TypeOK, TermTypeOK
  <2>3. has_solana_validator_fees' \in [Epochs -> BOOLEAN]
    BY <1>3 DEF TypeInv, TypeOK, TermTypeOK
  <2>4. distribute_rewards_relay_lamports' \in [Epochs -> Nat]
    BY <1>3 DEF TypeInv, TypeOK, TermTypeOK
  <2>5. calculation_allowed_timestamp' \in [Epochs -> Nat]
    <3>1. now + config.calculation_grace_period \in Nat
      BY <1>2, <1>3
    <3> QED
      BY <3>1 DEF TypeInv, TypeOK, TermTypeOK
  <2> QED
    BY <2>2, <2>3, <2>4, <2>5 DEF TermTypeOK
<1>8. CollectionTypeOK'
  BY DEF TypeInv, TypeOK, CollectionTypeOK, IntegrationTypeOK
<1>9. LayoutTypeOK'
  <2>1. minimum_balance(0) \in Nat
    BY MinimumBalanceType
  <2> QED
    BY <2>1 DEF TypeInv, TypeOK, LayoutTypeOK
<1>10. PrepaidTypeOK' /\ distribution_2z' \in [Epochs -> Nat]
  <2>1. journal_ata_2z \in Nat /\ collected_prepaid_2z_payments \in [Epochs -> Nat]
    BY DEF TypeInv, TypeOK, PrepaidTypeOK
  <2>2. collected_prepaid_2z_payments' \in [Epochs -> Nat] /\ journal_ata_2z' \in Nat
    BY <1>1, <2>1
  <2>3. distribution_2z' \in [Epochs -> Nat]
    BY <1>1, <2>1 DEF TypeInv, TypeOK
  <2> QED
    BY <2>2, <2>3 DEF PrepaidTypeOK
<1>11. config'.community_burn_rate_parameters.cached_slope_denominator # 0
  BY <1>4, <1>5
<1>12. RecipientsValid' /\ journal_lamports' = total_sol_balance'
  BY StableStrengthening DEF TypeInv
<1>13. TypeOK'
  BY <1>6, <1>7, <1>8, <1>9, <1>10, StableTypes DEF TypeInv, TypeOK, debtVars
<1> QED
  BY <1>11, <1>12, <1>13 DEF TypeInv

\* ConfigureProgram keeps the configuration valid, whichever setting it changes.
LEMMA ConfigureProgramType ==
  ASSUME TypeInv, ConfigureProgram
  PROVE  TypeInv'
<1> USE DEF ConfigureProgram
<1>1. ConfigSettings \in Settings
  BY InputsAssumption
<1>2. /\ config \in Config
      /\ config.community_burn_rate_parameters \in CommunityBurnRateParameters
  BY DEF TypeInv, TypeOK, ConfigTypeOK, Config
<1>3. /\ ConfigTypeOK'
      /\ config'.community_burn_rate_parameters.cached_slope_denominator # 0
  <2>1. ASSUME NEW should_pause \in ConfigSettings.is_paused, ConfigurePaused(should_pause)
        PROVE  <1>3!:
    <3>1. should_pause \in BOOLEAN
      BY <1>1 DEF Settings
    <3> QED
      BY <2>1, <3>1 DEF ConfigurePaused, TypeInv, TypeOK, ConfigTypeOK
  <2>2. ASSUME NEW field \in ConfigurableFields, NEW value \in ConfigSettings[field],
               ConfigureParameter(field, value)
        PROVE  <1>3!:
    <3>1. /\ config' \in Config
          /\ config'.community_burn_rate_parameters = config.community_burn_rate_parameters
      <4>1. config' = [config EXCEPT ![field] = value]
        BY <2>2 DEF ConfigureParameter
      <4>2. CASE field = "calculation_grace_period"
        BY <1>1, <1>2, <4>1, <4>2 DEF Settings, Config
      <4>3. CASE field = "initialization_grace_period"
        BY <1>1, <1>2, <4>1, <4>3 DEF Settings, Config
      <4>4. CASE field = "minimum_epoch_duration_to_finalize_rewards"
        BY <1>1, <1>2, <4>1, <4>4 DEF Settings, Config
      <4>5. CASE field = "distribute_rewards_lamports"
        BY <1>1, <1>2, <4>1, <4>5 DEF Settings, Config
      <4>6. CASE field = "has_solana_validator_fees"
        BY <1>1, <1>2, <4>1, <4>6 DEF Settings, Config
      <4>7. CASE field = "debt_write_off_feature_activation_epoch"
        BY <1>1, <1>2, <4>1, <4>7 DEF Settings, Config
      <4> QED
        BY <2>2, <4>2, <4>3, <4>4, <4>5, <4>6, <4>7 DEF ConfigurableFields
    <3> QED
      BY <2>2, <3>1 DEF ConfigureParameter, TypeInv, TypeOK, ConfigTypeOK
  <2>3. ASSUME NEW p \in CommunityBurnRateParameters, p.cached_slope_denominator # 0,
               config' = [config EXCEPT !.community_burn_rate_parameters = p],
               UNCHANGED <<is_paused, next_completed_dz_epoch,
                           last_initialized_distribution_timestamp>>
        PROVE  <1>3!:
    <3>1. config' \in Config /\ config'.community_burn_rate_parameters = p
      BY <1>2, <2>3 DEF Config
    <3> QED
      BY <2>3, <3>1 DEF TypeInv, TypeOK, ConfigTypeOK
  <2>4. ASSUME NEW s \in ConfigSettings.community_burn_rate
        PROVE  s.limit \in BurnRate /\ s.to_increasing \in Nat /\ s.to_limit \in Nat
    BY <1>1 DEF Settings
  <2>5. ASSUME NEW s \in ConfigSettings.community_burn_rate, ConfigureCommunityBurnRate(s)
        PROVE  <1>3!:
    <3> DEFINE p == updated(config.community_burn_rate_parameters, s.limit, s.to_increasing,
                            s.to_limit)
    <3>1. p \in CommunityBurnRateParameters /\ p.cached_slope_denominator # 0
      BY <1>2, <2>4, <2>5, UpdatedType DEF ConfigureCommunityBurnRate
    <3>2. config' = [config EXCEPT !.community_burn_rate_parameters = p]
      BY <2>5 DEF ConfigureCommunityBurnRate
    <3> HIDE DEF p
    <3> QED
      BY <2>3, <2>5, <3>1, <3>2 DEF ConfigureCommunityBurnRate
  <2>6. ASSUME NEW initial_rate \in ConfigSettings.initial_burn_rate,
               NEW s \in ConfigSettings.community_burn_rate,
               InitializeCommunityBurnRate(initial_rate, s)
        PROVE  <1>3!:
    <3> DEFINE p == updated(with_initial_rate(initial_rate), s.limit, s.to_increasing,
                            s.to_limit)
    <3>1. with_initial_rate(initial_rate) \in CommunityBurnRateParameters
      BY <1>1, InitialRateType DEF Settings
    <3>2. p \in CommunityBurnRateParameters /\ p.cached_slope_denominator # 0
      BY <2>4, <2>6, <3>1, UpdatedType DEF InitializeCommunityBurnRate
    <3>3. config' = [config EXCEPT !.community_burn_rate_parameters = p]
      BY <2>6 DEF InitializeCommunityBurnRate
    <3> HIDE DEF p
    <3> QED
      BY <2>3, <2>6, <3>2, <3>3 DEF InitializeCommunityBurnRate
  <2> QED
    BY <2>1, <2>2, <2>5, <2>6
<1> QED
  BY <1>3, StableTypes, StableStrengthening DEF TypeInv, TypeOK, debtVars

(***************************************************************************)
(* The specification.                                                      *)
(***************************************************************************)
\* The passing of time preserves the types.
LEMMA TickType ==
  ASSUME TypeInv, Tick
  PROVE  TypeInv'
<1> USE DEF Tick
<1>1. now' \in Nat
  BY DEF TypeInv, TypeOK
<1> QED
  BY <1>1, StableTypes, StableStrengthening DEF TypeInv, TypeOK, debtVars

\* The initial accounts have their types.
LEMMA InitTypes ==
  ASSUME Init
  PROVE  TypeInv
<1> USE DEF Init
<1>1. ConfigTypeOK /\ config.community_burn_rate_parameters.cached_slope_denominator # 0
  <2>1. /\ InitialConfig \in Config
        /\ InitialConfig.community_burn_rate_parameters.cached_slope_denominator # 0
    BY InputsAssumption
  <2>2. 0 \in 0..MaxEpochs /\ 0 \in Nat
    BY BoundsAssumption
  <2> QED
    BY <2>1, <2>2 DEF ConfigTypeOK
<1>2. DepositTypeOK
  BY DEF DepositTypeOK
<1>3. SolTypeOK /\ SwapTypeOK /\ now \in Nat
  BY BoundsAssumption, LimitsAssumption DEF SolTypeOK, SwapTypeOK
<1>4. TermTypeOK
  BY MaxShareAssumption DEF TermTypeOK, NoAmount, NoFlag, BurnRate
<1>5. CalculatedDebtTypeOK
  BY DEF CalculatedDebtTypeOK, NoAmount, NoFlag
<1>6. SettledDebtTypeOK
  BY DEF SettledDebtTypeOK, NoAmount, NoFlag
<1>7. RewardsTypeOK
  BY MaxShareAssumption DEF RewardsTypeOK, NoAmount, NoFlag, BurnRate
<1>8. PaidTypeOK
  BY DEF PaidTypeOK, NoAmount
<1>9. SweepTypeOK
  BY DEF SweepTypeOK, NoAmount, NoFlag
<1>10. IntegrationTypeOK
  BY DEF IntegrationTypeOK
<1>11. CollectionTypeOK
  BY DEF CollectionTypeOK, NoAmount
<1>12. PrepaidTypeOK
  BY DEF PrepaidTypeOK, NoAmount
<1>13. LayoutTypeOK
  BY DEF LayoutTypeOK, NoAmount, NoRange, BitmapRange
<1>14. recipient_shares \in [Contributors -> Seq(Nat)] /\ RecipientsValid
  BY DEF RecipientsValid
<1>15. distribution_2z \in [Epochs -> Nat]
  BY DEF NoAmount
<1> QED
  BY <1>1, <1>2, <1>3, <1>4, <1>5, <1>6, <1>7, <1>8, <1>9, <1>10, <1>11, <1>12, <1>13,
     <1>14, <1>15 DEF TypeInv, TypeOK

\* What callers may pass is of the type the instructions expect.
LEMMA InputTypes ==
  /\ DebtLeafIndices \subseteq Nat /\ RewardLeafIndices \subseteq Nat
  /\ \A leaf \in DebtLeaves : leaf.node \in Nodes /\ leaf.amount \in Nat
  /\ RewardLeaves \subseteq RewardLeaf
<1>1. DebtCalculations \subseteq DebtCalculation /\ RewardsCalculations \subseteq RewardsCalculation
  BY InputsAssumption
<1>2. ASSUME NEW c \in DebtCalculations, NEW j \in DOMAIN c.leaves
      PROVE  j - 1 \in Nat /\ c.leaves[j].node \in Nodes /\ c.leaves[j].amount \in Nat
  <2>1. c.leaves \in Seq(DebtLeaf)
    BY <1>1 DEF DebtCalculation
  <2>2. j \in 1..Len(c.leaves) /\ c.leaves[j] \in DebtLeaf
    BY <2>1
  <2> QED
    BY <2>2 DEF DebtLeaf
<1>3. ASSUME NEW c \in RewardsCalculations, NEW j \in DOMAIN c.leaves
      PROVE  j - 1 \in Nat /\ c.leaves[j] \in RewardLeaf
  BY <1>1 DEF RewardsCalculation
<1>4. DebtLeafIndices \subseteq Nat
  BY <1>2 DEF DebtLeafIndices
<1>5. RewardLeafIndices \subseteq Nat
  BY <1>3 DEF RewardLeafIndices
<1>6. \A leaf \in DebtLeaves : leaf.node \in Nodes /\ leaf.amount \in Nat
  BY <1>2 DEF DebtLeaves
<1>7. RewardLeaves \subseteq RewardLeaf
  BY <1>3 DEF RewardLeaves
<1> QED
  BY <1>4, <1>5, <1>6, <1>7

\* Every step of the program preserves the types.
LEMMA NextTypes ==
  ASSUME TypeInv, Next
  PROVE  TypeInv'
<1>1. /\ FundAmounts \subseteq Nat /\ SwapAmounts \subseteq Nat /\ TokenAmounts \subseteq Nat
      /\ DebtCalculations \subseteq DebtCalculation
      /\ RewardsCalculations \subseteq RewardsCalculation
      /\ EconomicBurnRates \subseteq Nat
      /\ RecipientSettings \subseteq Seq(Nat)
  BY BoundsAssumption, InputsAssumption
<1>2. CASE Tick
  BY <1>2, TickType
<1>3. CASE ConfigureProgram
  BY <1>3, ConfigureProgramType
<1>4. CASE InitializeDistribution
  BY <1>4, InitializeDistributionType
<1>5. CASE \E amount \in TokenAmounts : PrepayTwoZ(amount)
  BY <1>1, <1>5, PrepayTwoZType
<1>6. CASE \E distributions \in SUBSET Epochs : MigrateProgramAccounts(distributions)
  BY <1>6, MigrateProgramAccountsType
<1>7. CASE \E n \in Nodes, amount \in FundAmounts : FundSolanaValidatorDeposit(n, amount)
  BY <1>1, <1>7, FundSolanaValidatorDepositType
<1>8. CASE \E n \in Nodes : InitializeSolanaValidatorDeposit(n)
  BY <1>8, InitializeSolanaValidatorDepositType
<1>9. CASE \E n \in Nodes : WithdrawSolanaValidatorDeposit(n)
  BY <1>9, WithdrawSolanaValidatorDepositType
<1>10. CASE SwapSol
  BY <1>1, <1>10, WithdrawSolType DEF SwapSol
<1>11. CASE \E p \in Integrations : InitializeRewardsIntegration(p)
  BY <1>11, InitializeRewardsIntegrationType
<1>12. CASE \E c \in Contributors, shares \in RecipientSettings : ConfigureRecipients(c, shares)
  BY <1>1, <1>12, ConfigureRecipientsType
<1>13. CASE \E e \in Epochs, calculation \in DebtCalculations :
              ConfigureDistributionDebt(e, calculation)
  BY <1>1, <1>13, ConfigureDistributionDebtType
<1>14. CASE \E e \in Epochs : FinalizeDistributionDebt(e)
  BY <1>14, FinalizeDistributionDebtType
<1>15. CASE \E e \in Epochs : PayDebt(e)
  BY <1>15, InputTypes, PaySolanaValidatorDebtType DEF PayDebt
<1>16. CASE \E e \in Epochs : EnableSolanaValidatorDebtWriteOff(e)
  BY <1>16, EnableSolanaValidatorDebtWriteOffType
<1>17. CASE \E e \in Epochs : WriteOffDebt(e)
  BY <1>17, InputTypes, WriteOffSolanaValidatorDebtType DEF WriteOffDebt
<1>18. CASE \E e \in Epochs, calculation \in RewardsCalculations :
              ConfigureDistributionRewards(e, calculation)
  BY <1>1, <1>18, ConfigureDistributionRewardsType
<1>19. CASE \E e \in Epochs, rate \in EconomicBurnRates : SetDistributionEconomicBurnRate(e, rate)
  BY <1>1, <1>19, SetDistributionEconomicBurnRateType
<1>20. CASE \E e \in Epochs : FinalizeDistributionRewards(e)
  BY <1>20, FinalizeDistributionRewardsType
<1>21. CASE \E e \in Epochs : DistributeReward(e)
  BY <1>21, InputTypes, DistributeRewardsType DEF DistributeReward
<1>22. CASE \E e \in Epochs : Sweep(e)
  BY <1>1, <1>22, SweepDistributionTokensType DEF Sweep
<1>23. CASE \E e \in Epochs, p \in Integrations : Collect(e, p)
  BY <1>1, <1>23, CollectIntegrationRewardsType DEF Collect
<1>24. CASE \E amount \in TokenAmounts : DonateTwoZ(amount)
  BY <1>1, <1>24, DonateTwoZType
<1> QED
  BY <1>2, <1>3, <1>4, <1>5, <1>6, <1>7, <1>8, <1>9, <1>10, <1>11, <1>12, <1>13, <1>14,
     <1>15, <1>16, <1>17, <1>18, <1>19, <1>20, <1>21, <1>22, <1>23, <1>24 DEF Next, OwnStep

\* A stuttering step preserves the types.
LEMMA StutterTypes ==
  ASSUME TypeInv, UNCHANGED vars
  PROVE  TypeInv'
<1>1. /\ UNCHANGED <<now, configVars, depositVars, solVars, swapVars, termVars,
                     calculatedDebtVars, settledDebtVars, rewardsVars, paidVars, sweepVars,
                     integrationVars, collectionVars, prepaidVars, layoutVars,
                     recipient_shares, distribution_2z>>
  BY DEF vars, debtVars
<1> QED
  BY <1>1, StableTypes, StableStrengthening DEF TypeInv, TypeOK

\* The strengthened type invariant is an invariant of the program.
THEOREM TypeInvariance == Spec => []TypeInv
<1>1. Init => TypeInv
  BY InitTypes
<1>2. TypeInv /\ [Next]_vars => TypeInv'
  BY NextTypes, StutterTypes
<1> QED
  BY <1>1, <1>2, PTL DEF Spec

\* For any number of epochs, validators, contributors and integrations and any inputs, every
\* account field keeps its type: no instruction, in any order, drives an unsigned amount or a
\* counter below zero, and what the recipients of a reward receive never exceeds the reward.
THEOREM TypeCorrectness == Spec => []TypeOK
<1>1. TypeInv => TypeOK
  BY DEF TypeInv
<1> QED
  BY <1>1, TypeInvariance, PTL
=============================================================================
