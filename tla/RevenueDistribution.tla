------------------------- MODULE RevenueDistribution -------------------------
(***************************************************************************)
(* The revenue-distribution program: every instruction is one atomic step  *)
(* (a failing instruction reverts), and the steps of the accountants, the  *)
(* swap program, the relayers and anyone else interleave freely.           *)
(***************************************************************************)
EXTENDS DebtInstructions, RewardsInstructions, JournalInstructions, EpochInstructions

BitmapRange == [start : Nat, end : Nat]

(***************************************************************************)
(* The types of the account fields, one definition per group of variables. *)
(***************************************************************************)
ConfigTypeOK ==
  /\ is_paused \in BOOLEAN
  /\ next_completed_dz_epoch \in 0..MaxEpochs
  /\ last_initialized_distribution_timestamp \in Nat
  /\ config \in Config
DepositTypeOK ==
  /\ deposit_exists \in [Nodes -> BOOLEAN]
  /\ deposit_lamports \in [Nodes -> Nat]
  /\ written_off_sol_debt \in [Nodes -> Nat]
SolTypeOK ==
  journal_lamports \in Nat /\ total_sol_balance \in Nat /\ swapped_sol_amount \in Nat
SwapTypeOK ==
  /\ swap_2z_destination_balance \in 0..(U64 - 1) /\ lifetime_swapped_2z_amount \in Nat
  /\ swap_destination_2z \in Nat /\ donated_2z \in Nat
TermTypeOK ==
  /\ calculation_allowed_timestamp \in [Epochs -> Nat]
  /\ has_solana_validator_fees \in [Epochs -> BOOLEAN]
  /\ distribute_rewards_relay_lamports \in [Epochs -> Nat]
  /\ community_burn_rate \in [Epochs -> BurnRate]
CalculatedDebtTypeOK ==
  /\ is_debt_calculation_finalized \in [Epochs -> BOOLEAN]
  /\ total_solana_validators \in [Epochs -> Nat]
  /\ total_solana_validator_debt \in [Epochs -> Nat]
  /\ solana_validator_debt_merkle_root \in [Epochs -> Seq(DebtLeaf)]
SettledDebtTypeOK ==
  /\ is_solana_validator_debt_write_off_enabled \in [Epochs -> BOOLEAN]
  /\ uncollectible_sol_debt \in [Epochs -> Nat]
  /\ collected_solana_validator_payments \in [Epochs -> Nat]
  /\ solana_validator_payments_count \in [Epochs -> Nat]
  /\ solana_validator_write_off_count \in [Epochs -> Nat]
RewardsTypeOK ==
  /\ is_rewards_calculation_finalized \in [Epochs -> BOOLEAN]
  /\ total_contributors \in [Epochs -> Nat]
  /\ rewards_merkle_root \in [Epochs -> Seq(RewardLeaf)]
  /\ economic_burn_rate \in [Epochs -> BurnRate]
PaidTypeOK ==
  /\ distributed_rewards_count \in [Epochs -> Nat]
  /\ distributed_2z_amount \in [Epochs -> Nat]
  /\ burned_2z_amount \in [Epochs -> Nat]
SweepTypeOK ==
  /\ has_swept_2z_tokens \in [Epochs -> BOOLEAN]
  /\ next_dz_epoch_to_sweep_tokens \in Nat
  /\ collected_2z_converted_from_sol \in [Epochs -> Nat]
IntegrationTypeOK ==
  /\ integrations_count \in Nat
  /\ DOMAIN registration_index \subseteq Integrations
  /\ registration_index \in [DOMAIN registration_index -> Nat]
CollectionTypeOK ==
  /\ collected_2z_from_integrations \in [Epochs -> Nat]
  /\ integrations_count_snapshot \in [Epochs -> Nat]
  /\ integrations_collected_count \in [Epochs -> Nat]
  /\ collected_integrations_bitmap \in [Epochs -> SUBSET Nat]
PrepaidTypeOK ==
  /\ journal_ata_2z \in Nat
  /\ collected_prepaid_2z_payments \in [Epochs -> Nat]
LayoutTypeOK ==
  /\ distribution_lamports \in [Epochs -> Nat]
  /\ remaining_data_len \in [Epochs -> Nat]
  /\ remaining_data \in [Epochs -> SUBSET Nat]
  /\ processed_debt_range \in [Epochs -> BitmapRange]
  /\ write_off_range \in [Epochs -> BitmapRange]
  /\ processed_rewards_range \in [Epochs -> BitmapRange]

\* Every account field has its type: in particular no unsigned amount or counter is ever
\* driven below zero by the program's subtractions, unchecked ones included.
TypeOK ==
  /\ now \in Nat
  /\ ConfigTypeOK /\ DepositTypeOK /\ SolTypeOK /\ SwapTypeOK /\ TermTypeOK
  /\ CalculatedDebtTypeOK /\ SettledDebtTypeOK /\ RewardsTypeOK /\ PaidTypeOK
  /\ SweepTypeOK /\ IntegrationTypeOK /\ CollectionTypeOK /\ PrepaidTypeOK
  /\ LayoutTypeOK
  /\ recipient_shares \in [Contributors -> Seq(Nat)]
  /\ distribution_2z \in [Epochs -> Nat]

(***************************************************************************)
(* Initially the program, the journal and the swap destination have been   *)
(* initialized and configured, and no DZ epoch has completed.              *)
(***************************************************************************)
NoAmount == [e \in Epochs |-> 0]
NoFlag == [e \in Epochs |-> FALSE]
NoRange == [e \in Epochs |-> [start |-> 0, end |-> 0]]

Init ==
  /\ now = StartTime
  /\ is_paused = FALSE
  /\ next_completed_dz_epoch = 0
  /\ last_initialized_distribution_timestamp = 0
  /\ config = InitialConfig
  /\ deposit_exists = [n \in Nodes |-> FALSE]
  /\ deposit_lamports = [n \in Nodes |-> 0]
  /\ written_off_sol_debt = [n \in Nodes |-> 0]
  /\ journal_lamports = 0 /\ total_sol_balance = 0 /\ swapped_sol_amount = 0
  /\ swap_2z_destination_balance = 0 /\ lifetime_swapped_2z_amount = 0
  /\ swap_destination_2z = 0 /\ donated_2z = 0
  /\ next_dz_epoch_to_sweep_tokens = 0
  /\ integrations_count = 0
  /\ journal_ata_2z = 0
  /\ registration_index = [p \in {} |-> 0]
  /\ recipient_shares = [c \in Contributors |-> <<>>]
  /\ calculation_allowed_timestamp = NoAmount
  /\ has_solana_validator_fees = NoFlag
  /\ distribute_rewards_relay_lamports = NoAmount
  /\ community_burn_rate = NoAmount
  /\ is_debt_calculation_finalized = NoFlag
  /\ is_solana_validator_debt_write_off_enabled = NoFlag
  /\ total_solana_validators = NoAmount
  /\ total_solana_validator_debt = NoAmount
  /\ solana_validator_debt_merkle_root = [e \in Epochs |-> <<>>]
  /\ uncollectible_sol_debt = NoAmount
  /\ collected_solana_validator_payments = NoAmount
  /\ solana_validator_payments_count = NoAmount
  /\ solana_validator_write_off_count = NoAmount
  /\ is_rewards_calculation_finalized = NoFlag
  /\ total_contributors = NoAmount
  /\ rewards_merkle_root = [e \in Epochs |-> <<>>]
  /\ economic_burn_rate = NoAmount
  /\ distributed_rewards_count = NoAmount
  /\ distributed_2z_amount = NoAmount
  /\ burned_2z_amount = NoAmount
  /\ has_swept_2z_tokens = NoFlag
  /\ collected_prepaid_2z_payments = NoAmount
  /\ collected_2z_converted_from_sol = NoAmount
  /\ collected_2z_from_integrations = NoAmount
  /\ integrations_count_snapshot = NoAmount
  /\ integrations_collected_count = NoAmount
  /\ collected_integrations_bitmap = [e \in Epochs |-> {}]
  /\ distribution_2z = NoAmount
  /\ distribution_lamports = NoAmount
  /\ remaining_data_len = NoAmount
  /\ remaining_data = [e \in Epochs |-> {}]
  /\ processed_debt_range = NoRange
  /\ write_off_range = NoRange
  /\ processed_rewards_range = NoRange

Tick ==
  /\ now < MaxTime
  /\ now' = now + 1
  /\ UNCHANGED <<configVars, depositVars, solVars, swapVars, termVars, debtVars,
                 rewardsVars, paidVars, sweepVars, integrationVars, collectionVars,
                 prepaidVars, layoutVars, recipient_shares, distribution_2z>>

\* What a caller may pass: any leaf some calculation committed to, at any index.
DebtLeaves == UNION {{c.leaves[j] : j \in DOMAIN c.leaves} : c \in DebtCalculations}
DebtLeafIndices == UNION {{j - 1 : j \in DOMAIN c.leaves} : c \in DebtCalculations}
RewardLeaves == UNION {{c.leaves[j] : j \in DOMAIN c.leaves} : c \in RewardsCalculations}
RewardLeafIndices == UNION {{j - 1 : j \in DOMAIN c.leaves} : c \in RewardsCalculations}

PayDebt(e) ==
  \E i \in DebtLeafIndices, leaf \in DebtLeaves :
    PaySolanaValidatorDebt(e, i, leaf.node, leaf.amount)

WriteOffDebt(e) ==
  \E i \in DebtLeafIndices, leaf \in DebtLeaves, w \in Epochs :
    WriteOffSolanaValidatorDebt(e, i, leaf.node, leaf.amount, w)

DistributeReward(e) ==
  \E i \in RewardLeafIndices, leaf \in RewardLeaves : DistributeRewards(e, i, leaf)

\* The steps that call, or are called by, another program.
SwapSol == \E amount \in SwapAmounts, transfer \in TokenAmounts : WithdrawSol(amount, transfer)

Sweep(e) == \E token_2z_amount \in TokenAmounts : SweepDistributionTokens(e, token_2z_amount)

Collect(e, p) == \E amount \in TokenAmounts : CollectIntegrationRewards(e, p, amount)

\* The steps the program takes on its own.
OwnStep ==
  \/ Tick
  \/ ConfigureProgram
  \/ InitializeDistribution
  \/ \E amount \in TokenAmounts : PrepayTwoZ(amount)
  \/ \E amount \in TokenAmounts : DonateTwoZ(amount)
  \/ \E distributions \in SUBSET Epochs : MigrateProgramAccounts(distributions)
  \/ \E n \in Nodes, amount \in FundAmounts : FundSolanaValidatorDeposit(n, amount)
  \/ \E n \in Nodes : InitializeSolanaValidatorDeposit(n)
  \/ \E n \in Nodes : WithdrawSolanaValidatorDeposit(n)
  \/ \E p \in Integrations : InitializeRewardsIntegration(p)
  \/ \E c \in Contributors, shares \in RecipientSettings : ConfigureRecipients(c, shares)
  \/ \E e \in Epochs, calculation \in DebtCalculations :
        ConfigureDistributionDebt(e, calculation)
  \/ \E e \in Epochs : FinalizeDistributionDebt(e)
  \/ \E e \in Epochs : PayDebt(e)
  \/ \E e \in Epochs : EnableSolanaValidatorDebtWriteOff(e)
  \/ \E e \in Epochs : WriteOffDebt(e)
  \/ \E e \in Epochs, calculation \in RewardsCalculations :
        ConfigureDistributionRewards(e, calculation)
  \/ \E e \in Epochs, rate \in EconomicBurnRates : SetDistributionEconomicBurnRate(e, rate)
  \/ \E e \in Epochs : FinalizeDistributionRewards(e)
  \/ \E e \in Epochs : DistributeReward(e)

Next ==
  \/ OwnStep
  \/ SwapSol
  \/ \E e \in Epochs : Sweep(e)
  \/ \E e \in Epochs, p \in Integrations : Collect(e, p)

Spec == Init /\ [][Next]_vars

(***************************************************************************)
(* Steps that need no authority and that somebody is paid or has a stake   *)
(* to take: the swap market buys the SOL that is offered, and anyone may   *)
(* sweep an epoch or relay a reward.  Nothing is assumed of the admin, the *)
(* accountants, the validators or the integrations, which may refuse a     *)
(* collection for ever.                                                    *)
(***************************************************************************)
Fairness ==
  /\ WF_vars(SwapSol)
  /\ \A e \in Epochs : WF_vars(Sweep(e))
  /\ \A e \in Epochs : WF_vars(DistributeReward(e))

FairSpec == Spec /\ Fairness
=============================================================================
