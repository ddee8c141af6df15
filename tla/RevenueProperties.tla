-------------------------- MODULE RevenueProperties --------------------------
(***************************************************************************)
(* What makes the revenue-distribution program correct: no lamport and no  *)
(* 2Z is created, lost or counted twice while debts are paid, written off, *)
(* swapped, swept and distributed by callers nobody coordinates.           *)
(***************************************************************************)
EXTENDS RevenueDistribution

(***************************************************************************)
(* Validator debt and the SOL of the journal.                              *)
(***************************************************************************)

\* The SOL debt that the sweep of an epoch took out of the swapped SOL.
SweptDebt == [e \in Epochs |-> IF has_swept_2z_tokens[e] THEN total_sol_debt(e) ELSE 0]

\* SOL is conserved: what validators paid for all epochs is in the journal, has been
\* swapped and waits for a sweep, or was accounted for by the sweep of an epoch at
\* that epoch's debt net of write-offs, however payments, write-offs, withdrawals and
\* sweeps of different epochs interleave; and the journal's books match its lamports.
SolConservation ==
  /\ journal_lamports = total_sol_balance
  /\ total_sol_balance + swapped_sol_amount + Total(SweptDebt)
       = Total(collected_solana_validator_payments)

\* Bad debt is conserved: what write-offs charged to epochs equals what they recorded
\* against validators, and no epoch is charged more than its debt, so that the
\* unchecked reading of checked_total_sol_debt() never panics.
WriteOffConservation ==
  /\ Total(uncollectible_sol_debt) = Total(written_off_sol_debt)
  /\ \A e \in Epochs : is_total_sol_debt_some(e)

\* The leaves of a bitmap of epoch e whose bit is set.
ProcessedLeaves(e, range) ==
  {i \in 0..(8 * (range.end - range.start) - 1) : leaf_bit(range, i) \in remaining_data[e]}

\* Every debt is settled at most once, by a payment or by a write-off: the counters and
\* the collected amount are those of the leaves marked in the two debt bitmaps.
DebtSettledOnce ==
  \A e \in Epochs :
    LET processed  == ProcessedLeaves(e, processed_debt_range[e])
        writtenOff == ProcessedLeaves(e, write_off_range[e])
        paid       == processed \ writtenOff
    IN  /\ writtenOff \subseteq processed
        /\ solana_validator_write_off_count[e] = Cardinality(writtenOff)
        /\ solana_validator_payments_count[e] = Cardinality(paid)
        /\ paid \subseteq 0..(Len(solana_validator_debt_merkle_root[e]) - 1)
        /\ collected_solana_validator_payments[e] =
             Total([i \in paid |-> solana_validator_debt_merkle_root[e][i + 1].amount])

\* The debt accountant configured a total that is the sum of the leaves.
IsConsistentDebt(e) ==
  LET leaves == solana_validator_debt_merkle_root[e]
  IN  /\ total_solana_validators[e] = Len(leaves)
      /\ total_solana_validator_debt[e] = Total([j \in DOMAIN leaves |-> leaves[j].amount])

\* Every finalized debt has been paid or written off.
AllDebtSettled ==
  \A e \in Epochs : is_debt_calculation_finalized[e] =>
    IsConsistentDebt(e) /\ is_all_solana_validator_debt_processed(e)

\* Once every finalized debt is settled and the journal's SOL has been swapped, the
\* swapped SOL is exactly what the epochs still to be swept need: no order of payments
\* and of write-offs charged to later epochs leaves a sweep short of SOL for ever.
SettledDebtCoversSweep ==
  AllDebtSettled /\ total_sol_balance = 0 =>
    swapped_sol_amount =
      Total([e \in Epochs |-> IF is_debt_calculation_finalized[e] /\ ~has_swept_2z_tokens[e]
                              THEN total_sol_debt(e) ELSE 0])

\* A deposit loses lamports only to a payment of the same size to the journal, or by a
\* withdrawal that leaves its rent exemption and all its written-off debt behind.
DepositDebits ==
  [][\A n \in Nodes : deposit_lamports'[n] < deposit_lamports[n] =>
        \/ journal_lamports' - journal_lamports = deposit_lamports[n] - deposit_lamports'[n]
        \/ deposit_lamports'[n] = DepositRent + written_off_sol_debt[n]]_vars

(***************************************************************************)
(* Rewards and 2Z.                                                         *)
(***************************************************************************)

\* 2Z is conserved: a distribution's token account holds what it collected less what it
\* paid and burned, and what was ever swapped, or sent to the swap destination, is there or
\* was swept, whatever amounts the swap program reports.
TokenConservation ==
  /\ \A e \in Epochs :
       distribution_2z[e] + distributed_2z_amount[e] + burned_2z_amount[e]
         = total_collected_2z_tokens(e)
  /\ lifetime_swapped_2z_amount + donated_2z =
       swap_destination_2z + Total(collected_2z_converted_from_sol)

\* The journal's record of the swap destination is what the token account holds less what
\* was sent to it without a swap.  The record has no value while sweeps have taken more 2Z
\* than swaps delivered; the unchecked subtraction has then wrapped, and the record is
\* right again as soon as later swaps have made up for it.
SwapDestinationTracked ==
  LET expected == swap_destination_2z - donated_2z
  IN  expected \in 0..(U64 - 1) => swap_2z_destination_balance = expected

\* An epoch finalized with the null root has collected nothing and owes nothing.
NullRootEmpty(e) ==
  is_rewards_calculation_finalized[e] /\ rewards_merkle_root[e] = <<>> =>
    total_collected_2z_tokens(e) = 0 /\ total_sol_debt(e) = 0

\* A distribution finalized with a null rewards root never holds 2Z: nobody could be
\* paid from it, so the 2Z would be stranded.
NullRootStaysEmpty == \A e \in Epochs : NullRootEmpty(e)

\* Positions in the rewards root of the rewards not distributed yet.
UnpaidRewards(e) ==
  {j \in DOMAIN rewards_merkle_root[e] :
     leaf_bit(processed_rewards_range[e], j - 1) \notin remaining_data[e]}

\* The token account of an epoch that can distribute covers the rewards that are left.
RewardsCovered(e) ==
  LET root == rewards_merkle_root[e]
  IN  /\ has_swept_2z_tokens[e]
      /\ are_all_integrations_collected(e)
      /\ Total([j \in DOMAIN root |-> root[j].unit_share]) <= MAX_SHARE
      => distribution_2z[e] >= Total([j \in UnpaidRewards(e) |-> share_amount(e, root[j])])

\* While rewards are distributed, in any order and with any rounding, the token account
\* can pay every reward that is left, if the shares of the root do not exceed the whole.
RewardsSolvency == \A e \in Epochs : RewardsCovered(e)

\* The counter and the 2Z paid by an epoch are those of the leaves it marked.
RewardsCounted(e) ==
  LET root == rewards_merkle_root[e]
      paid == ProcessedLeaves(e, processed_rewards_range[e])
  IN  /\ paid \subseteq 0..(Len(root) - 1)
      /\ distributed_rewards_count[e] = Cardinality(paid)
      /\ distributed_2z_amount[e] + burned_2z_amount[e] =
           Total([i \in paid |-> share_amount(e, root[i + 1])])

\* Every reward is paid at most once: the counter, and the 2Z that left the token account,
\* are those of the leaves marked in the rewards bitmap, which shares no bit with the two
\* debt bitmaps in the same data, whatever the order in which the three were appended.
RewardsPaidOnce == \A e \in Epochs : RewardsCounted(e)

\* The three for the epochs below the floor of the account migration: whatever snapshots
\* MigrateProgramAccounts rewrites from its floor on, at whatever point of a distribution,
\* what the older epochs collect, owe and pay stays right.
SafeBelowTheFloor ==
  \A e \in Epochs : e < MIN_DZ_EPOCH =>
    NullRootEmpty(e) /\ RewardsCovered(e) /\ RewardsCounted(e)

\* The rewards of an epoch are shares of one total: once the first is distributed, no
\* later sweep or collection changes the total the others are computed from.
CollectedFrozenWhenDistributing ==
  [][\A e \in Epochs : distributed_rewards_count[e] > 0 =>
        total_collected_2z_tokens(e)' = total_collected_2z_tokens(e)]_vars

\* What callers settle is what the accountants finalized: the debt terms do not change
\* after the debt is finalized, the rewards terms after the rewards are finalized, and
\* the debt net of write-offs after the sweep converted it.
FinalizedTermsFrozen ==
  [][\A e \in Epochs :
       /\ is_debt_calculation_finalized[e] =>
            /\ is_debt_calculation_finalized'[e]
            /\ total_solana_validators'[e] = total_solana_validators[e]
            /\ total_solana_validator_debt'[e] = total_solana_validator_debt[e]
            /\ solana_validator_debt_merkle_root'[e] = solana_validator_debt_merkle_root[e]
       /\ is_rewards_calculation_finalized[e] =>
            /\ is_rewards_calculation_finalized'[e]
            /\ total_contributors'[e] = total_contributors[e]
            /\ rewards_merkle_root'[e] = rewards_merkle_root[e]
            /\ economic_burn_rate'[e] = economic_burn_rate[e]
       /\ has_swept_2z_tokens[e] =>
            /\ has_swept_2z_tokens'[e]
            /\ total_sol_debt(e)' = total_sol_debt(e)]_vars

\* A distribution that no integration blocks any more is not blocked later: integrations
\* registered after its initialization do not count for it.
NoRetroactiveBlock ==
  [][\A e \in Epochs : exists(e) /\ are_all_integrations_collected(e) =>
        are_all_integrations_collected(e)']_vars

\* The gate before DistributeRewards is honest: when a distribution counts as collected,
\* every integration of its snapshot has been collected, whatever integrations were
\* registered later and whichever the callers collected first.
GateHonest ==
  \A e \in Epochs : exists(e) /\ are_all_integrations_collected(e) =>
    \A p \in DOMAIN registration_index :
      registration_index[p] < integrations_count_snapshot[e] =>
        registration_index[p] \in collected_integrations_bitmap[e]

\* The gate can open: as long as a distribution waits for integrations, and its snapshot is
\* no larger than the bitmap, some registered integration can still be collected for it.
GateCanOpen ==
  \A e \in Epochs :
    exists(e) /\ ~are_all_integrations_collected(e)
      /\ integrations_count_snapshot[e] <= INTEGRATION_BITS =>
        \E p \in DOMAIN registration_index : is_collection_pending(e, registration_index[p])

\* From the finalization of the rewards on, the account holds the relay lamports of every
\* reward that is left on top of its rent exemption: the relayers' pay was put up when the
\* rewards were finalized and nothing else may use it up.
EscrowCoversRelays ==
  \A e \in Epochs : is_rewards_calculation_finalized[e] =>
    distribution_lamports[e] >= minimum_balance(remaining_data_len[e])
      + distribute_rewards_relay_lamports[e]
          * saturating_sub(total_contributors[e], distributed_rewards_count[e])

(***************************************************************************)
(* What the program promises: the ledger of SettlementLedger.              *)
(***************************************************************************)
settlement_phase(e) ==
  IF has_swept_2z_tokens[e] THEN "swept"
  ELSE IF is_rewards_calculation_finalized[e] THEN "approved"
  ELSE IF is_debt_calculation_finalized[e] THEN "owed"
  ELSE IF exists(e) THEN "open"
  ELSE "pending"

settlement_phases == [e \in Epochs |-> settlement_phase(e)]
net_sol_debt == [e \in Epochs |-> total_sol_debt(e)]

Ledger == INSTANCE SettlementLedger WITH
  phase   <- settlement_phases,
  owed    <- net_sol_debt,
  sol     <- total_sol_balance,
  swapped <- swapped_sol_amount,
  tokens  <- swap_destination_2z,
  next    <- next_dz_epoch_to_sweep_tokens,
  pot     <- distribution_2z

\* The program implements the settlement ledger: every instruction is a step of the
\* ledger or leaves it alone.  Epochs are settled phase by phase and swept in order at
\* their net debt, forgiven debt never touches a swept epoch, SOL leaves only in exchange
\* for tokens and tokens only from swept epochs, whoever calls what in between.
ImplementsLedger == Ledger!LedgerSpec

(***************************************************************************)
(* The configuration.                                                      *)
(***************************************************************************)

\* The community burn rate never falls from one epoch to the next, nor below what the
\* next epoch will get, nor above its limit, however the admin reschedules it while it
\* is static, increasing or at the limit.
BurnRateNeverFalls ==
  LET next == config.community_burn_rate_parameters
  IN  /\ next.cached_next_burn_rate <= next.limit
      /\ \A e \in Epochs : exists(e) => community_burn_rate[e] <= next.cached_next_burn_rate
      /\ \A d, e \in Epochs : d <= e /\ exists(e) =>
           community_burn_rate[d] <= community_burn_rate[e]

\* While the program is paused no caller settles anything: no deposit, no token account
\* and not the journal loses funds, and no debt or reward is calculated, paid or written off.
PauseFreezesFunds ==
  [][is_paused =>
       /\ UNCHANGED <<solVars, journalSwapVars, debtVars, rewardsVars, paidVars, sweepVars,
                      distribution_2z, written_off_sol_debt, recipient_shares, layoutVars>>
       /\ swap_destination_2z' >= swap_destination_2z
       /\ \A n \in Nodes : deposit_lamports'[n] >= deposit_lamports[n]]_vars

(***************************************************************************)
(* Progress, under Fairness.                                               *)
(***************************************************************************)

\* When every debt is settled and the rewards of the epochs up to e are finalized, epoch e
\* is swept in the end (or a further debt has been finalized and is not settled).
SettledEpochsAreSwept ==
  \A e \in Epochs :
    AllDebtSettled /\ (\A d \in 0..e : is_rewards_calculation_finalized[d])
      ~> has_swept_2z_tokens[e] \/ ~AllDebtSettled

\* The rewards root of the epoch has one leaf per contributor and its shares make up at
\* most the whole, and every contributor has recipients.
IsPayable(e) ==
  LET root == rewards_merkle_root[e]
  IN  /\ total_contributors[e] = Len(root)
      /\ Total([j \in DOMAIN root |-> root[j].unit_share]) <= MAX_SHARE
      /\ \A c \in Contributors : recipient_shares[c] # <<>>
=============================================================================
