----------------------------- MODULE TokenProofs -----------------------------
(***************************************************************************)
(* The 2Z of the distributions, for all values of the constants: tokens    *)
(* are conserved, the gate before the distribution of rewards is honest    *)
(* and can open, the burn rate never falls, what was finalized is frozen,  *)
(* and a paused program moves no funds.  The compositions with the mock    *)
(* swap program and the mock rewards integration implement the program.    *)
(*                                                                         *)
(* The account migration may rewrite the snapshot of a distribution whose  *)
(* rewards are being distributed, which breaks NoRetroactiveBlock (see     *)
(* RevenueProperties).  What rests on the snapshot is therefore proved     *)
(* from Spec and NoRetroactiveBlock, and NoRetroactiveBlock from the       *)
(* condition that migrations leave the snapshots of distributions alone.   *)
(***************************************************************************)
EXTENDS LedgerProofs, MockIntegration, MockSwap

(***************************************************************************)
(* Who writes which account field.                                         *)
(***************************************************************************)
PrepaysTokens == \E amount \in TokenAmounts : PrepayTwoZ(amount)
Donates == \E amount \in TokenAmounts : DonateTwoZ(amount)
InitializesEpoch == InitializeDistribution
Migrates == \E distributions \in SUBSET Epochs : MigrateProgramAccounts(distributions)
FundsDeposit ==
  \E n \in Nodes, amount \in FundAmounts : FundSolanaValidatorDeposit(n, amount)
OpensDeposit == \E n \in Nodes : InitializeSolanaValidatorDeposit(n)
WithdrawsDeposit == \E n \in Nodes : WithdrawSolanaValidatorDeposit(n)
RegistersIntegration == \E p \in Integrations : InitializeRewardsIntegration(p)
ConfiguresRecipients ==
  \E c \in Contributors, shares \in RecipientSettings : ConfigureRecipients(c, shares)
ConfiguresDebt ==
  \E e \in Epochs, calculation \in DebtCalculations :
    ConfigureDistributionDebt(e, calculation)
FinalizesDebt == \E e \in Epochs : FinalizeDistributionDebt(e)
PaysDebt == \E e \in Epochs : PayDebt(e)
EnablesWriteOff == \E e \in Epochs : EnableSolanaValidatorDebtWriteOff(e)
WritesOffDebt == \E e \in Epochs : WriteOffDebt(e)
ConfiguresRewards ==
  \E e \in Epochs, calculation \in RewardsCalculations :
    ConfigureDistributionRewards(e, calculation)
SetsBurnRate ==
  \E e \in Epochs, rate \in EconomicBurnRates : SetDistributionEconomicBurnRate(e, rate)
FinalizesRewards == \E e \in Epochs : FinalizeDistributionRewards(e)
Distributes == \E e \in Epochs : DistributeReward(e)
Sweeps == \E e \in Epochs : Sweep(e)
Collects == \E e \in Epochs, p \in Integrations : Collect(e, p)

\* Every account field has its writers; no other instruction changes it.
FieldWriters ==
  /\ \/ UNCHANGED <<next_completed_dz_epoch, last_initialized_distribution_timestamp,
                    calculation_allowed_timestamp, has_solana_validator_fees,
                    distribute_rewards_relay_lamports, community_burn_rate,
                    collected_prepaid_2z_payments>>
     \/ InitializesEpoch
  /\ UNCHANGED is_paused \/ ConfigureProgram
  /\ UNCHANGED config \/ ConfigureProgram \/ InitializesEpoch
  /\ UNCHANGED deposit_exists \/ OpensDeposit
  /\ \/ UNCHANGED deposit_lamports
     \/ FundsDeposit \/ OpensDeposit \/ WithdrawsDeposit \/ PaysDebt
  /\ \/ UNCHANGED <<written_off_sol_debt, uncollectible_sol_debt,
                    solana_validator_write_off_count>>
     \/ WritesOffDebt
  /\ UNCHANGED <<journal_lamports, total_sol_balance>> \/ PaysDebt \/ SwapSol
  /\ UNCHANGED <<swapped_sol_amount, swap_2z_destination_balance>> \/ SwapSol \/ Sweeps
  /\ UNCHANGED lifetime_swapped_2z_amount \/ SwapSol
  /\ UNCHANGED swap_destination_2z \/ SwapSol \/ Sweeps \/ Donates
  /\ UNCHANGED donated_2z \/ Donates
  /\ UNCHANGED <<is_debt_calculation_finalized, processed_debt_range>> \/ FinalizesDebt
  /\ \/ UNCHANGED <<total_solana_validators, total_solana_validator_debt,
                    solana_validator_debt_merkle_root>>
     \/ ConfiguresDebt
  /\ \/ UNCHANGED <<is_solana_validator_debt_write_off_enabled, write_off_range>>
     \/ EnablesWriteOff
  /\ \/ UNCHANGED <<collected_solana_validator_payments, solana_validator_payments_count>>
     \/ PaysDebt
  /\ \/ UNCHANGED <<is_rewards_calculation_finalized, processed_rewards_range>>
     \/ FinalizesRewards
  /\ UNCHANGED <<total_contributors, rewards_merkle_root>> \/ ConfiguresRewards
  /\ UNCHANGED economic_burn_rate \/ SetsBurnRate
  /\ \/ UNCHANGED <<distributed_rewards_count, distributed_2z_amount, burned_2z_amount>>
     \/ Distributes
  /\ \/ UNCHANGED <<has_swept_2z_tokens, next_dz_epoch_to_sweep_tokens,
                    collected_2z_converted_from_sol>>
     \/ Sweeps
  /\ UNCHANGED <<integrations_count, registration_index>> \/ RegistersIntegration
  /\ UNCHANGED integrations_count_snapshot \/ InitializesEpoch \/ Migrates
  /\ \/ UNCHANGED <<collected_2z_from_integrations, integrations_collected_count,
                    collected_integrations_bitmap>>
     \/ Collects
  /\ UNCHANGED distribution_2z \/ InitializesEpoch \/ Distributes \/ Sweeps \/ Collects
  /\ \/ UNCHANGED distribution_lamports
     \/ InitializesEpoch \/ FinalizesDebt \/ EnablesWriteOff \/ FinalizesRewards \/ Distributes
  /\ UNCHANGED remaining_data_len \/ FinalizesDebt \/ EnablesWriteOff \/ FinalizesRewards
  /\ UNCHANGED remaining_data \/ PaysDebt \/ WritesOffDebt \/ Distributes
  /\ UNCHANGED recipient_shares \/ ConfiguresRecipients

\* The writers of a field are the instructions listed for it.
LEMMA Writers ==
  ASSUME [Next]_vars
  PROVE  FieldWriters
<1> USE DEF FieldWriters, configVars, depositVars, solVars, journalSwapVars, swapVars, termVars,
            calculatedDebtVars, settledDebtVars, debtVars, rewardsVars,
            paidVars, sweepVars, integrationVars, collectionVars, prepaidVars,
            layoutVars
<1>1. CASE Tick
  BY <1>1 DEF Tick
<1>2. CASE PrepaysTokens
  BY <1>2 DEF PrepayTwoZ, PrepaysTokens
<1>3. CASE ConfigureProgram
  BY <1>3 DEF ConfigureProgram, ConfigurePaused, ConfigureParameter,
      ConfigureCommunityBurnRate, InitializeCommunityBurnRate
<1>4. CASE InitializesEpoch
  BY <1>4 DEF InitializeDistribution, move_prepaid_2z, InitializesEpoch
<1>5. CASE Migrates
  BY <1>5 DEF MigrateProgramAccounts, Migrates
<1>6. CASE FundsDeposit
  BY <1>6 DEF FundSolanaValidatorDeposit, FundsDeposit
<1>7. CASE OpensDeposit
  BY <1>7 DEF InitializeSolanaValidatorDeposit, OpensDeposit
<1>8. CASE WithdrawsDeposit
  BY <1>8 DEF WithdrawSolanaValidatorDeposit, WithdrawsDeposit
<1>9. CASE RegistersIntegration
  BY <1>9 DEF InitializeRewardsIntegration, RegistersIntegration
<1>10. CASE ConfiguresRecipients
  BY <1>10 DEF ConfigureRecipients, ConfiguresRecipients
<1>11. CASE ConfiguresDebt
  BY <1>11 DEF ConfigureDistributionDebt, ConfiguresDebt
<1>12. CASE FinalizesDebt
  BY <1>12 DEF FinalizeDistributionDebt, FinalizesDebt
<1>13. CASE PaysDebt
  <2>1. PICK e \in Epochs, i \in DebtLeafIndices, leaf \in DebtLeaves :
          PaySolanaValidatorDebt(e, i, leaf.node, leaf.amount)
    BY <1>13 DEF PaysDebt, PayDebt
  <2>2. UNCHANGED <<now, configVars, deposit_exists, written_off_sol_debt, swapped_sol_amount,
                    swapVars, termVars, calculatedDebtVars,
                    is_solana_validator_debt_write_off_enabled, uncollectible_sol_debt,
                    solana_validator_write_off_count, rewardsVars, paidVars, sweepVars,
                    integrationVars, collectionVars, prepaidVars, distribution_lamports,
                    remaining_data_len, processed_debt_range, write_off_range,
                    processed_rewards_range, recipient_shares, distribution_2z>>
    BY <2>1 DEF PaySolanaValidatorDebt
  <2> QED
    BY <1>13, <2>2
<1>14. CASE EnablesWriteOff
  BY <1>14 DEF EnableSolanaValidatorDebtWriteOff, EnablesWriteOff
<1>15. CASE WritesOffDebt
  <2>1. PICK e \in Epochs, i \in DebtLeafIndices, leaf \in DebtLeaves, w \in Epochs :
          WriteOffSolanaValidatorDebt(e, i, leaf.node, leaf.amount, w)
    BY <1>15 DEF WritesOffDebt, WriteOffDebt
  <2>2. UNCHANGED <<now, configVars, deposit_exists, deposit_lamports, solVars, swapVars,
                    termVars, calculatedDebtVars, is_solana_validator_debt_write_off_enabled,
                    collected_solana_validator_payments, solana_validator_payments_count,
                    rewardsVars, paidVars, sweepVars, integrationVars, collectionVars,
                    prepaidVars, distribution_lamports, remaining_data_len,
                    processed_debt_range, write_off_range, processed_rewards_range,
                    recipient_shares, distribution_2z>>
    BY <2>1 DEF WriteOffSolanaValidatorDebt
  <2> QED
    BY <1>15, <2>2
<1>16. CASE ConfiguresRewards
  BY <1>16 DEF ConfigureDistributionRewards, ConfiguresRewards
<1>17. CASE SetsBurnRate
  BY <1>17 DEF SetDistributionEconomicBurnRate, SetsBurnRate
<1>18. CASE FinalizesRewards
  BY <1>18 DEF FinalizeDistributionRewards, FinalizesRewards
<1>19. CASE Distributes
  <2>1. PICK e \in Epochs, i \in RewardLeafIndices, leaf \in RewardLeaves :
          DistributeRewards(e, i, leaf)
    BY <1>19 DEF Distributes, DistributeReward
  <2>2. UNCHANGED <<now, configVars, depositVars, solVars, swapVars, termVars, debtVars,
                    rewardsVars, sweepVars, integrationVars, collectionVars, prepaidVars,
                    remaining_data_len, processed_debt_range, write_off_range,
                    processed_rewards_range, recipient_shares>>
    BY <2>1 DEF DistributeRewards
  <2> QED
    BY <1>19, <2>2
<1>20. CASE SwapSol
  BY <1>20 DEF SwapSol, WithdrawSol
<1>21. CASE Sweeps
  BY <1>21 DEF Sweep, SweepDistributionTokens, move_swept_2z, Sweeps
<1>22. CASE Collects
  BY <1>22 DEF Collect, CollectIntegrationRewards, Collects
<1>23. CASE UNCHANGED vars
  BY <1>23 DEF vars
<1>24. CASE Donates
  BY <1>24 DEF DonateTwoZ, Donates
<1> QED
  BY <1>1, <1>2, <1>3, <1>4, <1>5, <1>6, <1>7, <1>8, <1>9, <1>10, <1>11, <1>12, <1>13, <1>14,
     <1>15, <1>16, <1>17, <1>18, <1>19, <1>20, <1>21, <1>22, <1>23, <1>24, Zenon
     DEF Next, OwnStep, PrepaysTokens, Donates, InitializesEpoch, Migrates, FundsDeposit, OpensDeposit,
     WithdrawsDeposit, RegistersIntegration, ConfiguresRecipients, ConfiguresDebt,
     FinalizesDebt, PaysDebt, EnablesWriteOff, WritesOffDebt, ConfiguresRewards,
     SetsBurnRate, FinalizesRewards, Distributes, Sweeps, Collects

\* The epoch that InitializeDistribution creates is a new one.
LEMMA InitializedEpoch ==
  ASSUME TypeInv, InitializeDistribution
  PROVE  next_completed_dz_epoch \in Epochs /\ ~exists(next_completed_dz_epoch)
  BY BoundsAssumption
     DEF InitializeDistribution, TypeInv, TypeOK, ConfigTypeOK, Epochs, exists

(***************************************************************************)
(* The gate before DistributeRewards.                                      *)
(***************************************************************************)

\* Neither property of the gate is inductive: the counter is the number of bits that are
\* set, the bits are below the snapshot, the snapshot is no larger than the number of
\* registered integrations, and every index below that number is some integration's.
GateInv ==
  /\ \A i \in 0..(integrations_count - 1) :
       \E p \in DOMAIN registration_index : registration_index[p] = i
  /\ \A e \in Epochs :
       /\ integrations_count_snapshot[e] <= integrations_count
       /\ collected_integrations_bitmap[e] \subseteq 0..(integrations_count_snapshot[e] - 1)
       /\ integrations_collected_count[e] = Cardinality(collected_integrations_bitmap[e])

\* A bitmap whose bits are below the snapshot is finite and no larger than the snapshot.
LEMMA BitmapCardinality ==
  ASSUME NEW n \in Nat, NEW S \in SUBSET (0..(n - 1))
  PROVE  /\ IsFiniteSet(S) /\ Cardinality(S) \in Nat /\ Cardinality(S) <= n
         /\ Cardinality(S) >= n => S = 0..(n - 1)
         /\ Cardinality(0..(n - 1)) = n
<1>1. IsFiniteSet(0..(n - 1)) /\ Cardinality(0..(n - 1)) = n
  BY FS_Interval
<1>2. /\ IsFiniteSet(S) /\ Cardinality(S) <= n
      /\ Cardinality(S) = n => S = 0..(n - 1)
  BY <1>1, FS_Subset
<1>3. Cardinality(S) \in Nat
  BY <1>2, FS_CardinalityType
<1> QED
  BY <1>1, <1>2, <1>3

\* Initially no integration is registered or collected.
LEMMA InitGate ==
  ASSUME Init
  PROVE  GateInv
<1>1. \A i \in 0..(integrations_count - 1) : FALSE
  BY DEF Init
<1> QED
  BY <1>1, FS_EmptySet DEF Init, GateInv, NoAmount

\* A new integration takes the next index.
LEMMA RegistersIntegrationGate ==
  ASSUME TypeInv, GateInv, NEW p \in Integrations, InitializeRewardsIntegration(p)
  PROVE  GateInv'
<1> USE DEF InitializeRewardsIntegration
<1>1. /\ UNCHANGED <<integrations_count_snapshot, integrations_collected_count,
                     collected_integrations_bitmap>>
      /\ integrations_count \in Nat /\ integrations_count' = integrations_count + 1
      /\ integrations_count_snapshot \in [Epochs -> Nat]
  BY DEF collectionVars, TypeInv, TypeOK, IntegrationTypeOK, CollectionTypeOK
<1>2. /\ DOMAIN registration_index' = DOMAIN registration_index \cup {p}
      /\ registration_index'[p] = integrations_count
      /\ \A q \in DOMAIN registration_index : registration_index'[q] = registration_index[q]
  OBVIOUS
<1> HIDE DEF InitializeRewardsIntegration
<1>3. ASSUME NEW i \in 0..(integrations_count' - 1)
      PROVE  \E q \in DOMAIN registration_index' : registration_index'[q] = i
  <2>1. i \in 0..(integrations_count - 1) \/ i = integrations_count
    BY <1>1
  <2> QED
    BY <1>2, <2>1 DEF GateInv
<1>4. \A e \in Epochs : integrations_count_snapshot'[e] <= integrations_count'
  BY <1>1 DEF GateInv
<1> QED
  BY <1>1, <1>3, <1>4 DEF GateInv

\* A snapshot that is raised to the number of integrations, by the initialization of an
\* epoch or by the migration, still has every collected bit below it.
LEMMA SnapshotGate ==
  ASSUME TypeInv, GateInv, NEW raised \in SUBSET Epochs,
         UNCHANGED <<integrations_count, registration_index, integrations_collected_count,
                     collected_integrations_bitmap>>,
         \A e \in Epochs : integrations_count_snapshot'[e] =
            IF e \in raised THEN integrations_count ELSE integrations_count_snapshot[e]
  PROVE  GateInv'
<1>1. integrations_count \in Nat /\ integrations_count_snapshot \in [Epochs -> Nat]
  BY DEF TypeInv, TypeOK, IntegrationTypeOK, CollectionTypeOK
<1>2. ASSUME NEW e \in Epochs
      PROVE  /\ integrations_count_snapshot'[e] <= integrations_count
             /\ collected_integrations_bitmap[e] \subseteq 0..(integrations_count_snapshot'[e] - 1)
  <2>1. /\ integrations_count_snapshot[e] <= integrations_count
        /\ collected_integrations_bitmap[e] \subseteq 0..(integrations_count_snapshot[e] - 1)
    BY DEF GateInv
  <2>2. integrations_count_snapshot[e] \in Nat
    BY <1>1
  <2>3. 0..(integrations_count_snapshot[e] - 1) \subseteq 0..(integrations_count - 1)
    BY <1>1, <2>1, <2>2
  <2> QED
    BY <1>1, <2>1, <2>3
<1> QED
  BY <1>2 DEF GateInv

\* A collection sets a bit that was not set.
LEMMA CollectGate ==
  ASSUME TypeInv, GateInv, NEW e \in Epochs, NEW p \in Integrations,
         NEW collected_amount \in Nat, CollectIntegrationRewards(e, p, collected_amount)
  PROVE  GateInv'
<1> USE DEF CollectIntegrationRewards
<1>1. PICK index \in Nat :
        /\ index = registration_index[p]
        /\ index < integrations_count_snapshot[e]
        /\ index \notin collected_integrations_bitmap[e]
        /\ integrations_collected_count' = [integrations_collected_count EXCEPT ![e] = @ + 1]
        /\ collected_integrations_bitmap' =
              [collected_integrations_bitmap EXCEPT ![e] = @ \cup {index}]
  BY DEF is_collection_pending, TypeInv, TypeOK, IntegrationTypeOK
<1>2. UNCHANGED <<integrations_count, registration_index, integrations_count_snapshot>>
  BY DEF integrationVars
<1>3. /\ integrations_count_snapshot \in [Epochs -> Nat]
      /\ integrations_collected_count \in [Epochs -> Nat]
      /\ collected_integrations_bitmap \in [Epochs -> SUBSET Nat]
  BY DEF TypeInv, TypeOK, CollectionTypeOK
<1> HIDE DEF CollectIntegrationRewards
<1>4. ASSUME NEW d \in Epochs
      PROVE  /\ collected_integrations_bitmap'[d] \subseteq 0..(integrations_count_snapshot[d] - 1)
             /\ integrations_collected_count'[d] = Cardinality(collected_integrations_bitmap'[d])
  <2>1. /\ collected_integrations_bitmap[d] \subseteq 0..(integrations_count_snapshot[d] - 1)
        /\ integrations_collected_count[d] = Cardinality(collected_integrations_bitmap[d])
    BY DEF GateInv
  <2>2. CASE d = e
    <3>1. /\ collected_integrations_bitmap'[e] = collected_integrations_bitmap[e] \cup {index}
          /\ integrations_collected_count'[e] = integrations_collected_count[e] + 1
      BY <1>1, <1>3
    <3>2. IsFiniteSet(collected_integrations_bitmap[e])
      BY <1>3, <2>1, <2>2, BitmapCardinality
    <3>3. Cardinality(collected_integrations_bitmap[e] \cup {index})
            = Cardinality(collected_integrations_bitmap[e]) + 1
      BY <1>1, <3>2, FS_AddElement
    <3>4. index \in 0..(integrations_count_snapshot[e] - 1)
      BY <1>1, <1>3
    <3> QED
      BY <2>1, <2>2, <3>1, <3>3, <3>4
  <2>3. CASE d # e
    BY <1>1, <1>3, <2>1, <2>3
  <2> QED
    BY <2>2, <2>3
<1> QED
  BY <1>2, <1>4 DEF GateInv

\* Every step keeps the bitmaps, the counters and the snapshots consistent.
LEMMA NextGate ==
  ASSUME TypeInv, GateInv, [Next]_vars
  PROVE  GateInv'
<1>1. CASE InitializesEpoch
  <2>1. next_completed_dz_epoch \in Epochs
    BY <1>1, InitializedEpoch DEF InitializesEpoch
  <2>2. PICK raised \in SUBSET Epochs : raised = {next_completed_dz_epoch}
    BY <2>1
  <2>3. /\ UNCHANGED <<integrations_count, registration_index, integrations_collected_count,
                       collected_integrations_bitmap>>
        /\ integrations_count_snapshot' =
              [integrations_count_snapshot EXCEPT ![next_completed_dz_epoch] = integrations_count]
    BY <1>1 DEF InitializesEpoch, InitializeDistribution, integrationVars
  <2>4. integrations_count_snapshot \in [Epochs -> Nat]
    BY DEF TypeInv, TypeOK, CollectionTypeOK
  <2>5. \A e \in Epochs : integrations_count_snapshot'[e] =
            IF e \in raised THEN integrations_count ELSE integrations_count_snapshot[e]
    BY <2>2, <2>3, <2>4
  <2> QED
    BY <2>3, <2>5, SnapshotGate
<1>2. CASE Migrates
  <2>1. PICK raised \in SUBSET Epochs : MigrateProgramAccounts(raised)
    BY <1>2 DEF Migrates
  <2>2. /\ UNCHANGED <<integrations_count, registration_index, integrations_collected_count,
                       collected_integrations_bitmap>>
        /\ \A e \in Epochs : integrations_count_snapshot'[e] =
              IF e \in raised THEN integrations_count ELSE integrations_count_snapshot[e]
    BY <2>1 DEF MigrateProgramAccounts, integrationVars
  <2> QED
    BY <2>2, SnapshotGate
<1>3. CASE RegistersIntegration
  BY <1>3, RegistersIntegrationGate DEF RegistersIntegration
<1>4. CASE Collects
  BY <1>4, BoundsAssumption, CollectGate DEF Collects, Collect
<1>5. ASSUME ~InitializesEpoch, ~Migrates, ~RegistersIntegration, ~Collects
      PROVE  GateInv'
  <2>1. UNCHANGED <<integrations_count, registration_index, integrations_count_snapshot,
                    integrations_collected_count, collected_integrations_bitmap>>
    BY <1>5, Writers DEF FieldWriters
  <2> QED
    BY <2>1 DEF GateInv
<1> QED
  BY <1>1, <1>2, <1>3, <1>4, <1>5

\* The strengthened gate is an invariant of the program.
THEOREM GateInvariance == Spec => []GateInv
<1>1. Init => GateInv
  BY InitGate
<1>2. TypeInv /\ GateInv /\ [Next]_vars => GateInv'
  BY NextGate
<1> QED
  BY <1>1, <1>2, TypeInvariance, PTL DEF Spec

\* For any number of epochs and integrations, migration included: when a distribution counts
\* as collected, every integration of its snapshot has been collected.
THEOREM GateIsHonest == Spec => []GateHonest
<1>1. TypeInv /\ GateInv => GateHonest
  <2> SUFFICES ASSUME TypeInv, GateInv, NEW e \in Epochs, are_all_integrations_collected(e),
                      NEW p \in DOMAIN registration_index,
                      registration_index[p] < integrations_count_snapshot[e]
               PROVE  registration_index[p] \in collected_integrations_bitmap[e]
    BY DEF GateHonest
  <2>1. integrations_count_snapshot[e] \in Nat /\ registration_index[p] \in Nat
    BY DEF TypeInv, TypeOK, CollectionTypeOK, IntegrationTypeOK
  <2>2. /\ collected_integrations_bitmap[e] \subseteq 0..(integrations_count_snapshot[e] - 1)
        /\ Cardinality(collected_integrations_bitmap[e]) >= integrations_count_snapshot[e]
    BY DEF GateInv, are_all_integrations_collected
  <2>3. collected_integrations_bitmap[e] = 0..(integrations_count_snapshot[e] - 1)
    BY <2>1, <2>2, BitmapCardinality
  <2> QED
    BY <2>1, <2>3
<1> QED
  BY <1>1, GateInvariance, TypeInvariance, PTL

\* For any number of epochs and integrations, migration included: a distribution that waits
\* for integrations, and whose snapshot fits the bitmap, waits for one that can be collected.
THEOREM GateOpens == Spec => []GateCanOpen
<1>1. TypeInv /\ GateInv => GateCanOpen
  <2> SUFFICES ASSUME TypeInv, GateInv, NEW e \in Epochs, ~are_all_integrations_collected(e),
                      integrations_count_snapshot[e] <= INTEGRATION_BITS
               PROVE  \E p \in DOMAIN registration_index :
                         is_collection_pending(e, registration_index[p])
    BY DEF GateCanOpen
  <2>1. /\ integrations_count_snapshot[e] \in Nat /\ integrations_count \in Nat
        /\ INTEGRATION_BITS \in Nat
    BY LimitsAssumption DEF TypeInv, TypeOK, CollectionTypeOK, IntegrationTypeOK
  <2>2. /\ integrations_count_snapshot[e] <= integrations_count
        /\ integrations_collected_count[e] = Cardinality(collected_integrations_bitmap[e])
        /\ collected_integrations_bitmap[e] \subseteq 0..(integrations_count_snapshot[e] - 1)
    BY DEF GateInv
  <2>3. Cardinality(0..(integrations_count_snapshot[e] - 1)) = integrations_count_snapshot[e]
    BY <2>1, <2>2, BitmapCardinality
  <2>4. collected_integrations_bitmap[e] # 0..(integrations_count_snapshot[e] - 1)
    BY <2>1, <2>2, <2>3 DEF are_all_integrations_collected
  <2>5. PICK i \in 0..(integrations_count_snapshot[e] - 1) :
          i \notin collected_integrations_bitmap[e]
    BY <2>2, <2>4
  <2>6. i \in 0..(integrations_count - 1) /\ i < integrations_count_snapshot[e]
        /\ i < INTEGRATION_BITS
    BY <2>1, <2>2
  <2>7. PICK p \in DOMAIN registration_index : registration_index[p] = i
    BY <2>6 DEF GateInv
  <2> QED
    BY <2>5, <2>6, <2>7 DEF is_collection_pending
<1> QED
  BY <1>1, GateInvariance, TypeInvariance, PTL

(***************************************************************************)
(* 2Z.                                                                     *)
(***************************************************************************)

\* TokenConservation is not inductive: the sweep assigns what it converted, so the sum it
\* replaces must be zero, and the sum must be finite.
TokenBooks ==
  /\ IsFiniteSet(Units(collected_2z_converted_from_sol))
  /\ \A e \in Epochs : ~has_swept_2z_tokens[e] => collected_2z_converted_from_sol[e] = 0
  /\ TokenConservation

\* The fields that the books on 2Z are made of have their types.
LEMMA TokenTypes ==
  ASSUME TypeInv
  PROVE  /\ distribution_2z \in [Epochs -> Nat]
         /\ distributed_2z_amount \in [Epochs -> Nat] /\ burned_2z_amount \in [Epochs -> Nat]
         /\ collected_prepaid_2z_payments \in [Epochs -> Nat]
         /\ collected_2z_converted_from_sol \in [Epochs -> Nat]
         /\ collected_2z_from_integrations \in [Epochs -> Nat]
         /\ has_swept_2z_tokens \in [Epochs -> BOOLEAN]
         /\ swap_destination_2z \in Nat /\ lifetime_swapped_2z_amount \in Nat
         /\ donated_2z \in Nat /\ journal_ata_2z \in Nat
  BY DEF TypeInv, TypeOK, PaidTypeOK, PrepaidTypeOK, SweepTypeOK, CollectionTypeOK, SwapTypeOK

\* The books of one distribution.
EpochTokens(e) ==
  distribution_2z[e] + distributed_2z_amount[e] + burned_2z_amount[e]
    = total_collected_2z_tokens(e)

\* Initially there is no 2Z.
LEMMA InitTokens ==
  ASSUME Init
  PROVE  TokenBooks
<1>1. /\ IsFiniteSet(Units(collected_2z_converted_from_sol))
      /\ Total(collected_2z_converted_from_sol) = 0
  BY TotalZero DEF Init, NoAmount
<1>2. \A e \in Epochs : EpochTokens(e)
  BY DEF Init, NoAmount, EpochTokens, total_collected_2z_tokens
<1>3. \A e \in Epochs : collected_2z_converted_from_sol[e] = 0
  BY DEF Init, NoAmount
<1>4. lifetime_swapped_2z_amount = 0 /\ swap_destination_2z = 0 /\ donated_2z = 0
  BY DEF Init
<1> QED
  BY <1>1, <1>2, <1>3, <1>4 DEF TokenBooks, TokenConservation, EpochTokens

\* The prepaid 2Z that a new distribution receives is what it counts as collected.
LEMMA InitializeDistributionTokens ==
  ASSUME TypeInv, TokenBooks, InitializeDistribution
  PROVE  TokenBooks'
<1>1. PICK e \in Epochs : e = next_completed_dz_epoch
  BY InitializedEpoch
<1>2. /\ UNCHANGED <<distributed_2z_amount, burned_2z_amount, collected_2z_converted_from_sol,
                     collected_2z_from_integrations, has_swept_2z_tokens,
                     swap_destination_2z, donated_2z, lifetime_swapped_2z_amount>>
      /\ collected_prepaid_2z_payments' =
           [collected_prepaid_2z_payments EXCEPT ![e] = @ + journal_ata_2z]
      /\ distribution_2z' = [distribution_2z EXCEPT ![e] = @ + journal_ata_2z]
  BY <1>1 DEF InitializeDistribution, move_prepaid_2z, paidVars, sweepVars, swapVars,
              journalSwapVars
<1>3. \A d \in Epochs : EpochTokens(d)'
  BY <1>2, TokenTypes
     DEF TokenBooks, TokenConservation, EpochTokens, total_collected_2z_tokens
<1> QED
  BY <1>2, <1>3 DEF TokenBooks, TokenConservation, EpochTokens

\* What the swap program delivers is at the swap destination.
LEMMA SwapSolTokens ==
  ASSUME TypeInv, TokenBooks, SwapSol
  PROVE  TokenBooks'
<1>1. PICK transfer \in Nat :
        /\ swap_destination_2z' = swap_destination_2z + transfer
        /\ lifetime_swapped_2z_amount' = lifetime_swapped_2z_amount + transfer
  BY BoundsAssumption DEF SwapSol, WithdrawSol
<1>2. UNCHANGED <<distributed_2z_amount, burned_2z_amount, collected_2z_converted_from_sol,
                  collected_2z_from_integrations, has_swept_2z_tokens, distribution_2z,
                  collected_prepaid_2z_payments, donated_2z>>
  BY DEF SwapSol, WithdrawSol, paidVars, sweepVars, collectionVars, prepaidVars
<1>3. \A d \in Epochs : EpochTokens(d)'
  BY <1>2 DEF TokenBooks, TokenConservation, EpochTokens, total_collected_2z_tokens
<1>4. Total(collected_2z_converted_from_sol) \in Nat
  BY FS_CardinalityType DEF TokenBooks, Total
<1>5. lifetime_swapped_2z_amount' + donated_2z' =
        swap_destination_2z' + Total(collected_2z_converted_from_sol')
  BY <1>1, <1>2, <1>4, TokenTypes DEF TokenBooks, TokenConservation
<1> QED
  BY <1>2, <1>3, <1>5 DEF TokenBooks, TokenConservation, EpochTokens

\* What is sent to the swap destination without a swap is there.
LEMMA DonateTokens ==
  ASSUME TypeInv, TokenBooks, NEW amount \in Nat, DonateTwoZ(amount)
  PROVE  TokenBooks'
<1>1. /\ UNCHANGED <<distributed_2z_amount, burned_2z_amount, collected_2z_converted_from_sol,
                     collected_2z_from_integrations, has_swept_2z_tokens, distribution_2z,
                     collected_prepaid_2z_payments, lifetime_swapped_2z_amount>>
      /\ donated_2z' = donated_2z + amount
      /\ swap_destination_2z' = swap_destination_2z + amount
  BY DEF DonateTwoZ, paidVars, sweepVars, collectionVars, prepaidVars, journalSwapVars
<1>2. \A d \in Epochs : EpochTokens(d)'
  BY <1>1 DEF TokenBooks, TokenConservation, EpochTokens, total_collected_2z_tokens
<1>3. Total(collected_2z_converted_from_sol) \in Nat
  BY FS_CardinalityType DEF TokenBooks, Total
<1>4. lifetime_swapped_2z_amount' + donated_2z' =
        swap_destination_2z' + Total(collected_2z_converted_from_sol')
  BY <1>1, <1>3, TokenTypes DEF TokenBooks, TokenConservation
<1> QED
  BY <1>1, <1>2, <1>4 DEF TokenBooks, TokenConservation, EpochTokens

\* The sweep moves 2Z from the swap destination to the distribution.
LEMMA SweepTokens ==
  ASSUME TypeInv, TokenBooks, NEW e \in Epochs, NEW token_2z_amount \in Nat,
         SweepDistributionTokens(e, token_2z_amount)
  PROVE  TokenBooks'
<1>1. /\ UNCHANGED <<distributed_2z_amount, burned_2z_amount, collected_2z_from_integrations,
                     lifetime_swapped_2z_amount, donated_2z, collected_prepaid_2z_payments>>
      /\ has_swept_2z_tokens' = [has_swept_2z_tokens EXCEPT ![e] = TRUE]
      /\ ~has_swept_2z_tokens[e]
  BY DEF SweepDistributionTokens, paidVars, collectionVars, prepaidVars, can_sweep,
         try_require_has_not_swept_2z_tokens
<1>2. PICK amount \in Nat :
        /\ amount <= swap_destination_2z
        /\ collected_2z_converted_from_sol' =
             [collected_2z_converted_from_sol EXCEPT ![e] = @ + amount]
        /\ distribution_2z' = [distribution_2z EXCEPT ![e] = @ + amount]
        /\ swap_destination_2z' = swap_destination_2z - amount
  <2>1. collected_2z_converted_from_sol[e] = 0
    BY <1>1 DEF TokenBooks
  <2>2. CASE total_sol_debt(e) = 0
    <3>1. UNCHANGED <<collected_2z_converted_from_sol, distribution_2z,
                      swap_destination_2z>>
      BY <2>2 DEF SweepDistributionTokens
    <3>2. /\ collected_2z_converted_from_sol[e] + 0 = collected_2z_converted_from_sol[e]
          /\ distribution_2z[e] + 0 = distribution_2z[e]
          /\ swap_destination_2z - 0 = swap_destination_2z
          /\ 0 <= swap_destination_2z
      BY TokenTypes
    <3> QED
      BY <3>1, <3>2, TokenTypes
  <2>3. CASE total_sol_debt(e) # 0
    <3>1. /\ token_2z_amount <= swap_destination_2z
          /\ collected_2z_converted_from_sol' =
               [collected_2z_converted_from_sol EXCEPT ![e] = token_2z_amount]
          /\ distribution_2z' = [distribution_2z EXCEPT ![e] = @ + token_2z_amount]
          /\ swap_destination_2z' = swap_destination_2z - token_2z_amount
      BY <2>3 DEF SweepDistributionTokens, move_swept_2z, is_transfer_funded
    <3>2. collected_2z_converted_from_sol[e] + token_2z_amount = token_2z_amount
      BY <2>1
    <3> QED
      BY <3>1, <3>2
  <2> QED
    BY <2>2, <2>3
<1> DEFINE f == collected_2z_converted_from_sol
           g == collected_2z_converted_from_sol'
<1>3. IsFiniteSet(Units(g)) /\ Total(g) = Total(f) + amount /\ Total(f) \in Nat
  <2>1. f \in [Epochs -> Nat] /\ IsFiniteSet(Units(f)) /\ g = [f EXCEPT ![e] = f[e] + amount]
    BY <1>2, TokenTypes DEF TokenBooks
  <2> HIDE DEF f, g
  <2> QED
    BY <2>1, TotalIncrease
<1>4. \A d \in Epochs : EpochTokens(d)'
  BY <1>1, <1>2, TokenTypes
     DEF TokenBooks, TokenConservation, EpochTokens, total_collected_2z_tokens
<1>5. lifetime_swapped_2z_amount' + donated_2z' = swap_destination_2z' + Total(g)
  BY <1>1, <1>2, <1>3, TokenTypes DEF TokenBooks, TokenConservation
<1>6. \A d \in Epochs : ~has_swept_2z_tokens'[d] => collected_2z_converted_from_sol'[d] = 0
  BY <1>1, <1>2, TokenTypes DEF TokenBooks
<1> QED
  BY <1>3, <1>4, <1>5, <1>6 DEF TokenBooks, TokenConservation, EpochTokens

\* What an integration transfers is counted as collected.
LEMMA CollectTokens ==
  ASSUME TypeInv, TokenBooks, NEW e \in Epochs, NEW p \in Integrations,
         NEW amount \in Nat, CollectIntegrationRewards(e, p, amount)
  PROVE  TokenBooks'
<1>1. /\ UNCHANGED <<distributed_2z_amount, burned_2z_amount, collected_2z_converted_from_sol,
                     has_swept_2z_tokens, swap_destination_2z, donated_2z,
                     lifetime_swapped_2z_amount, collected_prepaid_2z_payments>>
      /\ distribution_2z' = [distribution_2z EXCEPT ![e] = @ + amount]
      /\ collected_2z_from_integrations' =
           [collected_2z_from_integrations EXCEPT ![e] = @ + amount]
  BY DEF CollectIntegrationRewards, paidVars, sweepVars, prepaidVars, swapVars, journalSwapVars
<1>2. \A d \in Epochs : EpochTokens(d)'
  BY <1>1, TokenTypes
     DEF TokenBooks, TokenConservation, EpochTokens, total_collected_2z_tokens
<1> QED
  BY <1>1, <1>2 DEF TokenBooks, TokenConservation, EpochTokens

\* A reward leaves the token account as transfers and as a burn, with no dust left over.
LEMMA DistributeTokens ==
  ASSUME TypeInv, TokenBooks, NEW e \in Epochs, NEW i \in Nat, NEW leaf \in RewardLeaf,
         DistributeRewards(e, i, leaf)
  PROVE  TokenBooks'
<1>1. PICK transferred \in Nat, burned \in Nat :
        /\ transferred = transferred_share_amount(e, leaf)
        /\ burned = burned_share_amount(e, leaf)
        /\ transferred + burned = share_amount(e, leaf)
  BY RewardSplit DEF DistributeRewards
<1>2. /\ UNCHANGED <<collected_2z_converted_from_sol, has_swept_2z_tokens,
                     swap_destination_2z, donated_2z, lifetime_swapped_2z_amount,
                     collected_prepaid_2z_payments, collected_2z_from_integrations>>
      /\ distributed_2z_amount' = [distributed_2z_amount EXCEPT ![e] = @ + transferred]
      /\ burned_2z_amount' = [burned_2z_amount EXCEPT ![e] = @ + burned]
      /\ distribution_2z' = [distribution_2z EXCEPT ![e] = @ - transferred - burned]
  BY <1>1 DEF DistributeRewards, sweepVars, prepaidVars, swapVars, journalSwapVars,
              collectionVars
<1>3. \A d \in Epochs : EpochTokens(d)'
  BY <1>2, TokenTypes
     DEF TokenBooks, TokenConservation, EpochTokens, total_collected_2z_tokens
<1> QED
  BY <1>2, <1>3 DEF TokenBooks, TokenConservation, EpochTokens

\* Every step keeps the books on 2Z in balance.
LEMMA NextTokens ==
  ASSUME TypeInv, TokenBooks, [Next]_vars
  PROVE  TokenBooks'
<1>1. CASE InitializesEpoch
  BY <1>1, InitializeDistributionTokens DEF InitializesEpoch
<1>2. CASE SwapSol
  BY <1>2, SwapSolTokens
<1>3. CASE Sweeps
  BY <1>3, BoundsAssumption, SweepTokens DEF Sweeps, Sweep
<1>4. CASE Collects
  BY <1>4, BoundsAssumption, CollectTokens DEF Collects, Collect
<1>5. CASE Distributes
  BY <1>5, InputTypes, DistributeTokens DEF Distributes, DistributeReward
<1>6. CASE Donates
  BY <1>6, BoundsAssumption, DonateTokens DEF Donates
<1>7. ASSUME ~InitializesEpoch, ~SwapSol, ~Sweeps, ~Collects, ~Distributes, ~Donates
      PROVE  TokenBooks'
  <2>1. UNCHANGED <<distribution_2z, distributed_2z_amount, burned_2z_amount,
                    collected_2z_converted_from_sol, has_swept_2z_tokens,
                    swap_destination_2z, donated_2z, lifetime_swapped_2z_amount,
                    collected_prepaid_2z_payments, collected_2z_from_integrations>>
    BY <1>7, Writers DEF FieldWriters
  <2> QED
    BY <2>1 DEF TokenBooks, TokenConservation, total_collected_2z_tokens
<1> QED
  BY <1>1, <1>2, <1>3, <1>4, <1>5, <1>6, <1>7

\* The books on 2Z balance in every reachable state.
THEOREM TokenBooksInvariance == Spec => []TokenBooks
<1>1. Init => TokenBooks
  BY InitTokens
<1>2. TypeInv /\ TokenBooks /\ [Next]_vars => TokenBooks'
  BY NextTokens
<1> QED
  BY <1>1, <1>2, TypeInvariance, PTL DEF Spec

\* For any number of epochs, contributors and recipients: every unit of 2Z a distribution
\* collected is in its token account, was transferred or was burned, whatever the rounding of
\* the shares; and every unit that reached the swap destination is there or was swept,
\* whatever amounts the swap program reports.
THEOREM TokensAreConserved == Spec => []TokenConservation
<1>1. TokenBooks => TokenConservation
  BY DEF TokenBooks
<1> QED
  BY <1>1, TokenBooksInvariance, PTL

(***************************************************************************)
(* The journal's record of the swap destination.                           *)
(***************************************************************************)
\* x is y but for a number of turns around the range of a u64.
IsTurned(x, y) == \E turns \in Int : x = y + turns * U64

\* SwapDestinationTracked is not inductive: while sweeps are ahead of the swaps the record
\* is some turns away from what it should be.
SwapRecord == IsTurned(swap_2z_destination_balance, swap_destination_2z - donated_2z)

\* A wrapped number is the number itself but for some turns.
LEMMA WrappedTurns ==
  ASSUME NEW x \in Int
  PROVE  \E turns \in Int : x % U64 = x + turns * U64
<1> DEFINE q == x \div U64
<1>1. x = U64 * q + (x % U64) /\ q \in Int /\ x % U64 \in Int
  BY LimitsAssumption
<1> HIDE DEF q
<1>2. x % U64 = x + (0 - q) * U64 /\ 0 - q \in Int
  BY <1>1, LimitsAssumption
<1> QED
  BY <1>2

\* Wrapping arithmetic adds no more than turns.
LEMMA WrappedSum ==
  ASSUME NEW x \in Int, NEW y \in Int, NEW z \in Int, IsTurned(x, z)
  PROVE  IsTurned((x + y) % U64, z + y)
<1>1. PICK turns \in Int : x = z + turns * U64
  BY DEF IsTurned
<1>2. PICK more \in Int : (x + y) % U64 = x + y + more * U64
  BY WrappedTurns
<1>3. /\ turns * U64 \in Int /\ more * U64 \in Int
      /\ (turns + more) * U64 = turns * U64 + more * U64
  BY LimitsAssumption
<1>4. (x + y) % U64 = (z + y) + (turns + more) * U64 /\ turns + more \in Int
  BY <1>1, <1>2, <1>3
<1> QED
  BY <1>4 DEF IsTurned

\* Two numbers of the range of a u64 that are turns apart are the same.
LEMMA LessThanOneTurn ==
  ASSUME NEW x \in 0..(U64 - 1), NEW y \in 0..(U64 - 1), IsTurned(x, y)
  PROVE  x = y
<1>1. U64 \in Nat /\ U64 > 0
  BY LimitsAssumption
<1>2. PICK turns \in Int : x = y + turns * U64
  BY DEF IsTurned
<1>3. CASE turns >= 1
  <2>1. turns * U64 \in Int /\ turns * U64 >= U64
    BY <1>1, <1>3
  <2> QED
    BY <1>1, <1>2, <2>1
<1>4. CASE turns <= 0 - 1
  <2>1. turns * U64 \in Int /\ turns * U64 <= 0 - U64
    BY <1>1, <1>4
  <2> QED
    BY <1>1, <1>2, <2>1
<1>5. CASE turns = 0
  BY <1>1, <1>2, <1>5
<1> QED
  BY <1>3, <1>4, <1>5

\* A step that changes the account by an amount and wraps the same change of the record.
LEMMA WrappedRecord ==
  ASSUME TypeInv, SwapRecord, NEW change \in Int, UNCHANGED donated_2z,
         swap_destination_2z' = swap_destination_2z + change,
         swap_2z_destination_balance' = (swap_2z_destination_balance + change) % U64
  PROVE  SwapRecord'
<1>1. /\ swap_2z_destination_balance \in Int /\ swap_destination_2z \in Int
      /\ donated_2z \in Int /\ swap_destination_2z - donated_2z \in Int
  BY LimitsAssumption DEF TypeInv, TypeOK, SwapTypeOK
<1>2. IsTurned((swap_2z_destination_balance + change) % U64,
               (swap_destination_2z - donated_2z) + change)
  BY <1>1, WrappedSum DEF SwapRecord
<1>3. (swap_destination_2z - donated_2z) + change = swap_destination_2z' - donated_2z'
  BY <1>1
<1> QED
  BY <1>2, <1>3 DEF SwapRecord, IsTurned

\* A swap adds what it delivers to the account and to the record.
LEMMA SwapSolRecord ==
  ASSUME TypeInv, SwapRecord, SwapSol
  PROVE  SwapRecord'
<1>1. PICK transfer \in Nat :
        /\ swap_2z_destination_balance' = (swap_2z_destination_balance + transfer) % U64
        /\ swap_destination_2z' = swap_destination_2z + transfer
        /\ UNCHANGED donated_2z
  BY BoundsAssumption DEF SwapSol, WithdrawSol, wrapping_add
<1> QED
  BY <1>1, WrappedRecord

\* A sweep takes what it moves from the account and from the record.
LEMMA SweepRecord ==
  ASSUME TypeInv, SwapRecord, NEW e \in Epochs, NEW token_2z_amount \in Nat,
         SweepDistributionTokens(e, token_2z_amount)
  PROVE  SwapRecord'
<1>1. UNCHANGED donated_2z
  BY DEF SweepDistributionTokens
<1>2. CASE total_sol_debt(e) = 0
  BY <1>1, <1>2 DEF SweepDistributionTokens, SwapRecord, IsTurned
<1>3. CASE total_sol_debt(e) # 0
  <2> DEFINE change == 0 - token_2z_amount
  <2>1. /\ swap_2z_destination_balance' = (swap_2z_destination_balance - token_2z_amount) % U64
        /\ swap_destination_2z' = swap_destination_2z - token_2z_amount
    BY <1>3 DEF SweepDistributionTokens, move_swept_2z, swap_balance_after, wrapping_sub
  <2>2. /\ swap_2z_destination_balance - token_2z_amount = swap_2z_destination_balance + change
        /\ swap_destination_2z - token_2z_amount = swap_destination_2z + change
        /\ change \in Int
    BY LimitsAssumption DEF TypeInv, TypeOK, SwapTypeOK
  <2> HIDE DEF change
  <2> QED
    BY <1>1, <2>1, <2>2, WrappedRecord
<1> QED
  BY <1>2, <1>3

\* Every step keeps the record right but for some turns.
LEMMA NextRecord ==
  ASSUME TypeInv, SwapRecord, [Next]_vars
  PROVE  SwapRecord'
<1>1. CASE SwapSol
  BY <1>1, SwapSolRecord
<1>2. CASE Sweeps
  BY <1>2, BoundsAssumption, SweepRecord DEF Sweeps, Sweep
<1>3. CASE Donates
  <2>1. PICK amount \in Nat : DonateTwoZ(amount)
    BY <1>3, BoundsAssumption DEF Donates
  <2>2. /\ UNCHANGED swap_2z_destination_balance
        /\ donated_2z' = donated_2z + amount
        /\ swap_destination_2z' = swap_destination_2z + amount
    BY <2>1 DEF DonateTwoZ, journalSwapVars
  <2>3. swap_destination_2z' - donated_2z' = swap_destination_2z - donated_2z
    BY <2>2 DEF TypeInv, TypeOK, SwapTypeOK
  <2> QED
    BY <2>2, <2>3 DEF SwapRecord, IsTurned
<1>4. ASSUME ~SwapSol, ~Sweeps, ~Donates
      PROVE  SwapRecord'
  <2>1. UNCHANGED <<swap_2z_destination_balance, swap_destination_2z, donated_2z>>
    BY <1>4, Writers DEF FieldWriters
  <2> QED
    BY <2>1 DEF SwapRecord, IsTurned
<1> QED
  BY <1>1, <1>2, <1>3, <1>4

\* The record is right but for some turns in every reachable state.
THEOREM SwapRecordInvariance == Spec => []SwapRecord
<1>1. Init => SwapRecord
  <2>1. ASSUME Init PROVE swap_2z_destination_balance = swap_destination_2z - donated_2z + 0 * U64
    BY <2>1, LimitsAssumption DEF Init
  <2> QED
    BY <2>1 DEF SwapRecord, IsTurned
<1>2. TypeInv /\ SwapRecord /\ [Next]_vars => SwapRecord'
  BY NextRecord
<1> QED
  BY <1>1, <1>2, TypeInvariance, PTL DEF Spec

\* For any width of a u64, any swap program and any transfers to the swap destination, the
\* record that the sweep subtracts from without a check is what swaps delivered and sweeps
\* have not taken, except while the sweeps have taken more: no wrap is ever carried on.
THEOREM SwapDestinationIsTracked == Spec => []SwapDestinationTracked
<1>1. ASSUME TypeInv, SwapRecord
      PROVE  SwapDestinationTracked
  <2> DEFINE expected == swap_destination_2z - donated_2z
  <2>1. SUFFICES ASSUME expected \in 0..(U64 - 1)
                 PROVE  swap_2z_destination_balance = expected
    BY DEF SwapDestinationTracked
  <2>2. swap_2z_destination_balance \in 0..(U64 - 1)
    BY <1>1 DEF TypeInv, TypeOK, SwapTypeOK
  <2>3. IsTurned(swap_2z_destination_balance, expected)
    BY <1>1 DEF SwapRecord
  <2> HIDE DEF expected
  <2> QED
    BY <2>1, <2>2, <2>3, LessThanOneTurn
<1> QED
  BY <1>1, TypeInvariance, SwapRecordInvariance, PTL

(***************************************************************************)
(* The community burn rate.                                                *)
(***************************************************************************)
\* checked_compute never lowers the rate and never passes the limit.
LEMMA ComputedRate ==
  ASSUME NEW p \in CommunityBurnRateParameters, p.cached_slope_denominator # 0,
         p.cached_next_burn_rate <= p.limit
  PROVE  /\ computed(p).limit = p.limit
         /\ p.cached_next_burn_rate <= computed(p).cached_next_burn_rate
         /\ computed(p).cached_next_burn_rate <= p.limit
<1> DEFINE c == p.cached_next_burn_rate
           D == p.cached_slope_denominator
           N == p.cached_slope_numerator
           to_limit == saturating_sub(p.dz_epochs_to_limit, 1)
           to_increasing == saturating_sub(p.dz_epochs_to_increasing, 1)
           rate == next_cached_rate(p, to_increasing, to_limit)
<1>1. c \in Nat /\ N \in Nat /\ D \in Nat \ {0} /\ p.limit \in Nat
  BY MaxShareAssumption DEF CommunityBurnRateParameters, BurnRate
<1>2. c <= increased_rate(p) /\ increased_rate(p) <= p.limit
  <2>1. c * D \in Nat
    BY <1>1
  <2>2. c <= (c * D + N) \div D
    <3> HIDE DEF c, D, N
    <3>1. c * D + N \in Nat /\ c * D <= c * D + N
      BY <1>1, <2>1
    <3> QED
      BY <1>1, <3>1, QuotientBound
  <2>3. (c * D + N) \div D \in Nat
    BY <1>1, <2>1, Quotient
  <2>4. increased_rate(p) =
          IF (c * D + N) \div D <= p.limit THEN (c * D + N) \div D ELSE p.limit
    BY DEF increased_rate
  <2> HIDE DEF D, N
  <2> QED
    BY <1>1, <2>2, <2>3, <2>4
<1>3. c <= rate /\ rate <= p.limit
  BY <1>1, <1>2 DEF next_cached_rate
<1>4. /\ computed(p).limit = p.limit
      /\ computed(p).cached_next_burn_rate = rate
  <2>1. computed(p) = [p EXCEPT !.dz_epochs_to_limit = to_limit,
                                !.dz_epochs_to_increasing = to_increasing,
                                !.cached_next_burn_rate = rate]
    BY DEF computed
  <2> HIDE DEF rate, to_limit, to_increasing
  <2> QED
    BY <2>1 DEF CommunityBurnRateParameters
<1> QED
  BY <1>3, <1>4

\* checked_update keeps the rate and sets a limit that is not below it.
LEMMA UpdatedRate ==
  ASSUME NEW p \in CommunityBurnRateParameters, NEW limit, NEW to_increasing, NEW to_limit,
         can_update(p, limit, to_increasing, to_limit)
  PROVE  /\ updated(p, limit, to_increasing, to_limit).limit = limit
         /\ updated(p, limit, to_increasing, to_limit).cached_next_burn_rate
              = p.cached_next_burn_rate
         /\ p.cached_next_burn_rate <= limit
  BY DEF updated, can_update, CommunityBurnRateParameters

\* The rates of the epochs are in order when the new one is the cached rate.
LEMMA InitializeDistributionRate ==
  ASSUME TypeInv, BurnRateNeverFalls, InitializeDistribution
  PROVE  BurnRateNeverFalls'
<1> DEFINE p == config.community_burn_rate_parameters
<1>1. PICK new \in Epochs : new = next_completed_dz_epoch
  BY InitializedEpoch
<1>2. config \in Config /\ p \in CommunityBurnRateParameters /\ p.cached_slope_denominator # 0
  BY DEF TypeInv, TypeOK, ConfigTypeOK, Config
<1>3. /\ config' = [config EXCEPT !.community_burn_rate_parameters = computed(p)]
      /\ community_burn_rate' = [community_burn_rate EXCEPT ![new] = p.cached_next_burn_rate]
      /\ next_completed_dz_epoch' = new + 1
  BY <1>1 DEF InitializeDistribution
<1>4. config'.community_burn_rate_parameters = computed(p)
  BY <1>2, <1>3 DEF Config
<1>5. /\ p.cached_next_burn_rate <= p.limit
      /\ \A e \in Epochs : e < new => community_burn_rate[e] <= p.cached_next_burn_rate
      /\ \A d, e \in Epochs : d <= e /\ e < new => community_burn_rate[d] <= community_burn_rate[e]
  BY <1>1 DEF BurnRateNeverFalls, exists
<1>6. /\ computed(p).limit = p.limit
      /\ p.cached_next_burn_rate <= computed(p).cached_next_burn_rate
      /\ computed(p).cached_next_burn_rate <= p.limit
  BY <1>2, <1>5, ComputedRate
<1>7. /\ p.cached_next_burn_rate \in Nat /\ computed(p).cached_next_burn_rate \in Nat
      /\ community_burn_rate \in [Epochs -> 0..MAX_SHARE] /\ new \in Nat /\ Epochs \subseteq Int
  <2>1. computed(p) \in CommunityBurnRateParameters
    BY <1>2, ComputedType
  <2>2. p.cached_next_burn_rate \in Nat /\ computed(p).cached_next_burn_rate \in Nat
    <3>1. \A q \in CommunityBurnRateParameters : q.cached_next_burn_rate \in Nat
      BY MaxShareAssumption DEF CommunityBurnRateParameters, BurnRate
    <3> QED
      BY <1>2, <2>1, <3>1
  <2>3. community_burn_rate \in [Epochs -> 0..MAX_SHARE]
    BY MaxShareAssumption DEF BurnRate, TypeInv, TypeOK, TermTypeOK
  <2>4. new \in Nat /\ Epochs \subseteq Int
    BY DEF Epochs
  <2> QED
    BY <2>2, <2>3, <2>4
<1> HIDE DEF p
<1>8. \A e \in Epochs : e < new + 1 =>
        community_burn_rate'[e] <= computed(p).cached_next_burn_rate
  <2> TAKE e \in Epochs
  <2>1. HAVE e < new + 1
  <2>2. CASE e = new
    BY <1>3, <1>6, <1>7, <2>2
  <2>3. CASE e # new
    <3>1. e < new /\ community_burn_rate'[e] = community_burn_rate[e]
      BY <1>3, <1>7, <2>1, <2>3
    <3>2. community_burn_rate[e] \in Nat /\ community_burn_rate[e] <= p.cached_next_burn_rate
      BY <1>5, <1>7, <3>1, MaxShareAssumption
    <3> QED
      BY <1>6, <1>7, <3>1, <3>2
  <2> QED
    BY <2>2, <2>3
<1>9. \A d, e \in Epochs : d <= e /\ e < new + 1 =>
        community_burn_rate'[d] <= community_burn_rate'[e]
  <2> TAKE d, e \in Epochs
  <2>1. HAVE d <= e /\ e < new + 1
  <2>2. CASE e = new
    <3>1. community_burn_rate'[e] = p.cached_next_burn_rate
      BY <1>3, <1>7, <2>2
    <3>2. CASE d = new
      BY <1>7, <2>2, <3>1, <3>2
    <3>3. CASE d # new
      BY <1>3, <1>5, <1>7, <2>1, <2>2, <3>1, <3>3
    <3> QED
      BY <3>2, <3>3
  <2>3. CASE e # new
    <3>1. e < new /\ d # new
      BY <1>7, <2>1, <2>3
    <3> QED
      BY <1>3, <1>5, <1>7, <2>1, <2>3, <3>1
  <2> QED
    BY <2>2, <2>3
<1> QED
  BY <1>3, <1>4, <1>6, <1>8, <1>9 DEF BurnRateNeverFalls, exists

\* Whatever the admin configures, the rate of the next epoch is not lowered.
LEMMA ConfigureProgramRate ==
  ASSUME TypeInv, BurnRateNeverFalls, ConfigureProgram
  PROVE  BurnRateNeverFalls'
<1> DEFINE p == config.community_burn_rate_parameters
           q == config'.community_burn_rate_parameters
<1>1. UNCHANGED <<next_completed_dz_epoch, community_burn_rate>>
  BY DEF ConfigureProgram, ConfigurePaused, ConfigureParameter, ConfigureCommunityBurnRate,
         InitializeCommunityBurnRate, termVars
<1>2. config \in Config /\ p \in CommunityBurnRateParameters
  BY DEF TypeInv, TypeOK, ConfigTypeOK, Config
<1>3. ASSUME q.cached_next_burn_rate = p.cached_next_burn_rate, q.cached_next_burn_rate <= q.limit
      PROVE  BurnRateNeverFalls'
  <2> HIDE DEF p
  <2>1. \A e \in Epochs : exists(e)' <=> exists(e)
    BY <1>1 DEF exists
  <2> QED
    BY <1>1, <1>3, <2>1 DEF BurnRateNeverFalls, p
<1>4. CASE \E should_pause \in ConfigSettings.is_paused : ConfigurePaused(should_pause)
  BY <1>3, <1>4 DEF ConfigurePaused, BurnRateNeverFalls
<1>5. CASE \E field \in ConfigurableFields : \E value \in ConfigSettings[field] :
              ConfigureParameter(field, value)
  <2>1. PICK field \in ConfigurableFields : \E value : config' = [config EXCEPT ![field] = value]
    BY <1>5 DEF ConfigureParameter
  <2>2. field # "community_burn_rate_parameters"
    BY DEF ConfigurableFields
  <2>3. q = p
    BY <1>2, <2>1, <2>2 DEF Config
  <2> QED
    BY <1>3, <2>3 DEF BurnRateNeverFalls
<1>6. CASE \E s \in ConfigSettings.community_burn_rate : ConfigureCommunityBurnRate(s)
  <2>1. PICK s : /\ can_update(p, s.limit, s.to_increasing, s.to_limit)
                 /\ config' = [config EXCEPT !.community_burn_rate_parameters =
                                 updated(p, s.limit, s.to_increasing, s.to_limit)]
    BY <1>6 DEF ConfigureCommunityBurnRate
  <2>2. q = updated(p, s.limit, s.to_increasing, s.to_limit)
    BY <1>2, <2>1 DEF Config
  <2> QED
    BY <1>2, <1>3, <2>1, <2>2, UpdatedRate
<1>7. CASE \E initial_rate \in ConfigSettings.initial_burn_rate :
             \E s \in ConfigSettings.community_burn_rate :
               InitializeCommunityBurnRate(initial_rate, s)
  <2>1. PICK initial_rate \in ConfigSettings.initial_burn_rate,
             s \in ConfigSettings.community_burn_rate :
               InitializeCommunityBurnRate(initial_rate, s)
    BY <1>7
  <2>2. with_initial_rate(initial_rate) \in CommunityBurnRateParameters
    <3>1. initial_rate \in BurnRate
      BY InputsAssumption DEF Settings
    <3> QED
      BY <3>1, InitialRateType
  <2>3. q = updated(with_initial_rate(initial_rate), s.limit, s.to_increasing, s.to_limit)
    BY <1>2, <2>1 DEF InitializeCommunityBurnRate, Config
  <2>4. q.cached_next_burn_rate <= q.limit
    <3>1. can_update(with_initial_rate(initial_rate), s.limit, s.to_increasing, s.to_limit)
      BY <2>1 DEF InitializeCommunityBurnRate
    <3> HIDE DEF q
    <3> QED
      BY <2>2, <2>3, <3>1, UpdatedRate
  <2>5. \A e \in Epochs : ~exists(e)'
    BY <1>1, <2>1 DEF InitializeCommunityBurnRate, exists, Epochs
  <2> QED
    BY <2>4, <2>5 DEF BurnRateNeverFalls
<1> QED
  BY <1>4, <1>5, <1>6, <1>7 DEF ConfigureProgram

\* For any number of epochs and any schedules the admin sets, in any order: the community
\* burn rate never falls from an epoch to a later one, and never passes its limit.
THEOREM BurnRateIsMonotone == Spec => []BurnRateNeverFalls
<1>1. Init => BurnRateNeverFalls
  <2> SUFFICES ASSUME Init PROVE BurnRateNeverFalls
    OBVIOUS
  <2>1. \A e \in Epochs : ~exists(e)
    BY DEF Init, exists, Epochs
  <2>2. config.community_burn_rate_parameters.cached_next_burn_rate
          <= config.community_burn_rate_parameters.limit
    BY InputsAssumption DEF Init
  <2> QED
    BY <2>1, <2>2 DEF BurnRateNeverFalls
<1>2. TypeInv /\ BurnRateNeverFalls /\ [Next]_vars => BurnRateNeverFalls'
  <2> SUFFICES ASSUME TypeInv, BurnRateNeverFalls, [Next]_vars
               PROVE  BurnRateNeverFalls'
    OBVIOUS
  <2>1. CASE InitializesEpoch
    BY <2>1, InitializeDistributionRate DEF InitializesEpoch
  <2>2. CASE ConfigureProgram
    BY <2>2, ConfigureProgramRate
  <2>3. ASSUME ~InitializesEpoch, ~ConfigureProgram PROVE BurnRateNeverFalls'
    <3>1. UNCHANGED <<config, next_completed_dz_epoch, community_burn_rate>>
      BY <2>3, Writers DEF FieldWriters
    <3> QED
      BY <3>1 DEF BurnRateNeverFalls, exists
  <2> QED
    BY <2>1, <2>2, <2>3
<1> QED
  BY <1>1, <1>2, TypeInvariance, PTL DEF Spec

(***************************************************************************)
(* What a step may never do.                                               *)
(***************************************************************************)
\* A payment never takes more from a deposit than the deposit's excess, and the withdrawal
\* takes all but the rent exemption and the written-off debt: for any number of validators,
\* a deposit loses lamports to the journal or down to what it must keep.
THEOREM DepositsAreDebitedRightly == Spec => DepositDebits
<1> DEFINE Debited ==
      \A n \in Nodes : deposit_lamports'[n] < deposit_lamports[n] =>
        \/ journal_lamports' - journal_lamports = deposit_lamports[n] - deposit_lamports'[n]
        \/ deposit_lamports'[n] = DepositRent + written_off_sol_debt[n]
<1>1. ASSUME TypeInv, [Next]_vars PROVE Debited
  <2> SUFFICES ASSUME NEW n \in Nodes, deposit_lamports'[n] < deposit_lamports[n]
               PROVE  \/ journal_lamports' - journal_lamports
                           = deposit_lamports[n] - deposit_lamports'[n]
                      \/ deposit_lamports'[n] = DepositRent + written_off_sol_debt[n]
    OBVIOUS
  <2>1. /\ deposit_lamports \in [Nodes -> Nat] /\ written_off_sol_debt \in [Nodes -> Nat]
        /\ journal_lamports \in Nat /\ DepositRent \in Nat
    BY <1>1, LimitsAssumption DEF TypeInv, TypeOK, DepositTypeOK, SolTypeOK
  <2>2. CASE FundsDeposit
    <3>1. PICK m \in Nodes, amount \in Nat :
            deposit_lamports' = [deposit_lamports EXCEPT ![m] = @ + amount]
      BY <2>2, BoundsAssumption DEF FundsDeposit, FundSolanaValidatorDeposit
    <3> QED
      BY <2>1, <3>1
  <2>3. CASE OpensDeposit
    <3>1. PICK m \in Nodes :
            deposit_lamports' = [deposit_lamports EXCEPT ![m] = @ + DepositRent]
      BY <2>3 DEF OpensDeposit, InitializeSolanaValidatorDeposit
    <3> QED
      BY <2>1, <3>1
  <2>4. CASE WithdrawsDeposit
    <3>1. PICK m \in Nodes :
            deposit_lamports' = [deposit_lamports EXCEPT ![m] = @ - withdrawn_lamports(m)]
      BY <2>4 DEF WithdrawsDeposit, WithdrawSolanaValidatorDeposit
    <3>2. m = n
      BY <2>1, <3>1
    <3>3. deposit_lamports'[n] = deposit_lamports[n] - withdrawn_lamports(n)
      BY <2>1, <3>1, <3>2
    <3> QED
      BY <2>1, <3>3 DEF withdrawn_lamports, excess_lamports, saturating_sub
  <2>5. CASE PaysDebt
    <3>1. PICK e \in Epochs, i \in DebtLeafIndices, leaf \in DebtLeaves :
            PaySolanaValidatorDebt(e, i, leaf.node, leaf.amount)
      BY <2>5 DEF PaysDebt, PayDebt
    <3>2. PICK m \in Nodes, amount \in Nat : m = leaf.node /\ amount = leaf.amount
      BY InputTypes
    <3>3. /\ deposit_lamports' = [deposit_lamports EXCEPT ![m] = @ - amount]
          /\ journal_lamports' = journal_lamports + amount
      BY <3>1, <3>2 DEF PaySolanaValidatorDebt
    <3> QED
      BY <2>1, <3>3
  <2>6. ASSUME ~FundsDeposit, ~OpensDeposit, ~WithdrawsDeposit, ~PaysDebt PROVE FALSE
    <3>1. UNCHANGED deposit_lamports
      BY <1>1, <2>6, Writers DEF FieldWriters
    <3> QED
      BY <2>1, <3>1
  <2> QED
    BY <2>2, <2>3, <2>4, <2>5, <2>6
<1> QED
  BY <1>1, TypeInvariance, PTL DEF Spec, DepositDebits

\* For any number of epochs: the debt terms, the rewards terms and the swept net debt that
\* callers settle are those that were finalized.
THEOREM FinalizedTermsAreFrozen == Spec => FinalizedTermsFrozen
<1> DEFINE Frozen ==
      \A e \in Epochs :
       /\ is_debt_calculation_finalized[e] =>
            /\ is_debt_calculation_finalized'[e]
            /\ total_solana_validators'[e] = total_solana_validators[e]
            /\ total_solana_validator_debt'[e] = total_solana_validator_debt[e]
            /\ solana_validator_debt_merkle_root'[e] = solana_validator_debt_merkle_root[e]
       /\ is_rewards_calculation_finalized[e] =>
            /\ is_rewards_calculation_finalized'[e]
            /\ total_contributors'[e] = total_contributors[e]
            /\ rewards_merkle_root'[e] = rewards_merkle_root[e]
            /\ economic_burn_rate'[e] = economic_burn_rate[e]
       /\ has_swept_2z_tokens[e] =>
            /\ has_swept_2z_tokens'[e]
            /\ total_sol_debt(e)' = total_sol_debt(e)
<1>1. ASSUME TypeInv, SolBooks, [Next]_vars PROVE Frozen
  <2> SUFFICES ASSUME NEW e \in Epochs
               PROVE  /\ is_debt_calculation_finalized[e] =>
                           /\ is_debt_calculation_finalized'[e]
                           /\ total_solana_validators'[e] = total_solana_validators[e]
                           /\ total_solana_validator_debt'[e] = total_solana_validator_debt[e]
                           /\ solana_validator_debt_merkle_root'[e]
                                = solana_validator_debt_merkle_root[e]
                      /\ is_rewards_calculation_finalized[e] =>
                           /\ is_rewards_calculation_finalized'[e]
                           /\ total_contributors'[e] = total_contributors[e]
                           /\ rewards_merkle_root'[e] = rewards_merkle_root[e]
                           /\ economic_burn_rate'[e] = economic_burn_rate[e]
                      /\ has_swept_2z_tokens[e] =>
                           /\ has_swept_2z_tokens'[e]
                           /\ total_sol_debt(e)' = total_sol_debt(e)
    OBVIOUS
  <2>1. is_debt_calculation_finalized[e] => is_debt_calculation_finalized'[e]
    BY <1>1, Writers DEF FieldWriters, FinalizesDebt, FinalizeDistributionDebt, TypeInv, TypeOK,
                         CalculatedDebtTypeOK
  <2>2. is_debt_calculation_finalized[e] =>
          /\ total_solana_validators'[e] = total_solana_validators[e]
          /\ total_solana_validator_debt'[e] = total_solana_validator_debt[e]
          /\ solana_validator_debt_merkle_root'[e] = solana_validator_debt_merkle_root[e]
    <3>1. CASE ConfiguresDebt
      <4>1. PICK d \in Epochs, calculation \in DebtCalculations :
              ConfigureDistributionDebt(d, calculation)
        BY <3>1 DEF ConfiguresDebt
      <4> QED
        BY <1>1, <4>1 DEF ConfigureDistributionDebt, try_require_unfinalized_debt_calculation,
                          TypeInv, TypeOK, CalculatedDebtTypeOK
    <3>2. CASE ~ConfiguresDebt
      BY <1>1, <3>2, Writers DEF FieldWriters
    <3> QED
      BY <3>1, <3>2
  <2>3. is_rewards_calculation_finalized[e] => is_rewards_calculation_finalized'[e]
    BY <1>1, Writers DEF FieldWriters, FinalizesRewards, FinalizeDistributionRewards, TypeInv,
                         TypeOK, RewardsTypeOK
  <2>4. is_rewards_calculation_finalized[e] =>
          /\ total_contributors'[e] = total_contributors[e]
          /\ rewards_merkle_root'[e] = rewards_merkle_root[e]
    BY <1>1, Writers DEF FieldWriters, ConfiguresRewards, ConfigureDistributionRewards, TypeInv,
                         TypeOK, RewardsTypeOK, try_require_unfinalized_rewards_calculation
  <2>5. is_rewards_calculation_finalized[e] => economic_burn_rate'[e] = economic_burn_rate[e]
    BY <1>1, Writers DEF FieldWriters, SetsBurnRate, SetDistributionEconomicBurnRate, TypeInv,
                         TypeOK, RewardsTypeOK, try_require_unfinalized_rewards_calculation
  <2>6. has_swept_2z_tokens[e] => has_swept_2z_tokens'[e]
    BY <1>1, Writers DEF FieldWriters, Sweeps, Sweep, SweepDistributionTokens, TypeInv, TypeOK,
                         SweepTypeOK
  <2>7. has_swept_2z_tokens[e] => uncollectible_sol_debt'[e] = uncollectible_sol_debt[e]
    <3>1. CASE WritesOffDebt
      <4>1. PICK d \in Epochs, i \in DebtLeafIndices, leaf \in DebtLeaves, w \in Epochs :
              WriteOffSolanaValidatorDebt(d, i, leaf.node, leaf.amount, w)
        BY <3>1 DEF WritesOffDebt, WriteOffDebt
      <4>2. /\ ~has_swept_2z_tokens[w]
            /\ uncollectible_sol_debt' =
                 [uncollectible_sol_debt EXCEPT ![w] = @ + leaf.amount]
        BY <4>1 DEF WriteOffSolanaValidatorDebt, can_charge_write_off,
                    try_require_has_not_swept_2z_tokens
      <4> QED
        BY <1>1, <4>2 DEF TypeInv, TypeOK, SettledDebtTypeOK
    <3>2. CASE ~WritesOffDebt
      BY <1>1, <3>2, Writers DEF FieldWriters
    <3> QED
      BY <3>1, <3>2
  <2>8. has_swept_2z_tokens[e] => is_debt_calculation_finalized[e]
    BY <1>1 DEF SolBooks, PhaseOrder
  <2>9. has_swept_2z_tokens[e] => total_sol_debt(e)' = total_sol_debt(e)
    BY <2>2, <2>7, <2>8 DEF total_sol_debt
  <2> QED
    BY <2>1, <2>2, <2>3, <2>4, <2>5, <2>6, <2>9
<1> QED
  BY <1>1, TypeInvariance, BooksInvariance, PTL DEF Spec, FinalizedTermsFrozen

\* The steps a paused program allows settle nothing: they configure, register, migrate, or
\* bring funds in.
LEMMA PausedSteps ==
  ASSUME is_paused, [Next]_vars
  PROVE  /\ ~SwapSol /\ ~Sweeps /\ ~Collects /\ ~Distributes /\ ~InitializesEpoch
         /\ ~WithdrawsDeposit /\ ~PaysDebt /\ ~WritesOffDebt /\ ~EnablesWriteOff
         /\ ~ConfiguresDebt /\ ~FinalizesDebt /\ ~ConfiguresRewards /\ ~FinalizesRewards
         /\ ~SetsBurnRate /\ ~ConfiguresRecipients
<1> USE DEF try_require_unpaused
<1>1. ~SwapSol /\ ~Sweeps /\ ~Collects
  BY DEF SwapSol, WithdrawSol, Sweeps, Sweep, SweepDistributionTokens, Collects, Collect,
         CollectIntegrationRewards
<1>2. ~Distributes /\ ~InitializesEpoch
  BY DEF Distributes, DistributeReward, DistributeRewards, InitializesEpoch,
         InitializeDistribution
<1>3. ~WithdrawsDeposit /\ ~PaysDebt
  BY DEF WithdrawsDeposit, WithdrawSolanaValidatorDeposit, PaysDebt, PayDebt,
         PaySolanaValidatorDebt
<1>4. ~WritesOffDebt /\ ~EnablesWriteOff
  BY DEF WritesOffDebt, WriteOffDebt, WriteOffSolanaValidatorDebt, EnablesWriteOff,
         EnableSolanaValidatorDebtWriteOff
<1>5. ~ConfiguresDebt /\ ~FinalizesDebt
  BY DEF ConfiguresDebt, ConfigureDistributionDebt, FinalizesDebt, FinalizeDistributionDebt
<1>6. ~ConfiguresRewards /\ ~FinalizesRewards
  BY DEF ConfiguresRewards, ConfigureDistributionRewards, FinalizesRewards,
         FinalizeDistributionRewards
<1>7. ~SetsBurnRate /\ ~ConfiguresRecipients
  BY DEF SetsBurnRate, SetDistributionEconomicBurnRate, ConfiguresRecipients,
         ConfigureRecipients
<1> QED
  BY <1>1, <1>2, <1>3, <1>4, <1>5, <1>6, <1>7

\* For all values of the constants: while the program is paused nothing is calculated, paid,
\* swept or written off, and no deposit loses lamports.
THEOREM PauseIsEffective == Spec => PauseFreezesFunds
<1> DEFINE Frozen ==
      is_paused =>
       /\ UNCHANGED <<solVars, journalSwapVars, debtVars, rewardsVars, paidVars, sweepVars,
                      distribution_2z, written_off_sol_debt, recipient_shares, layoutVars>>
       /\ swap_destination_2z' >= swap_destination_2z
       /\ \A n \in Nodes : deposit_lamports'[n] >= deposit_lamports[n]
<1>1. ASSUME TypeInv, [Next]_vars, is_paused
      PROVE  /\ UNCHANGED <<solVars, journalSwapVars, debtVars, rewardsVars, paidVars, sweepVars,
                            distribution_2z, written_off_sol_debt, recipient_shares, layoutVars>>
             /\ swap_destination_2z' >= swap_destination_2z
             /\ \A n \in Nodes : deposit_lamports'[n] >= deposit_lamports[n]
  <2>1. FieldWriters
    BY <1>1, Writers
  <2>2. /\ UNCHANGED <<solVars, journalSwapVars, debtVars, rewardsVars, paidVars, sweepVars>>
        /\ UNCHANGED <<distribution_2z, written_off_sol_debt, recipient_shares, layoutVars>>
    BY <1>1, <2>1, PausedSteps
       DEF FieldWriters, solVars, journalSwapVars, debtVars, calculatedDebtVars,
           settledDebtVars, rewardsVars, paidVars, sweepVars, layoutVars
  <2>4. swap_destination_2z' >= swap_destination_2z
    <3>1. swap_destination_2z \in Nat
      BY <1>1 DEF TypeInv, TypeOK, SwapTypeOK
    <3>2. CASE Donates
      <4>1. PICK amount \in TokenAmounts : DonateTwoZ(amount)
        BY <3>2 DEF Donates
      <4>2. amount \in Nat /\ swap_destination_2z' = swap_destination_2z + amount
        BY <4>1, BoundsAssumption DEF DonateTwoZ
      <4> QED
        BY <3>1, <4>2
    <3>3. CASE ~Donates
      BY <1>1, <2>1, <3>1, <3>3, PausedSteps DEF FieldWriters
    <3> QED
      BY <3>2, <3>3
  <2>3. ASSUME NEW n \in Nodes PROVE deposit_lamports'[n] >= deposit_lamports[n]
    <3>1. deposit_lamports \in [Nodes -> Nat] /\ DepositRent \in Nat
      BY <1>1, LimitsAssumption DEF TypeInv, TypeOK, DepositTypeOK
    <3>2. PICK added \in [Nodes -> Nat] :
            \A m \in Nodes : deposit_lamports'[m] = deposit_lamports[m] + added[m]
      <4>1. CASE UNCHANGED deposit_lamports
        <5>1. [m \in Nodes |-> 0] \in [Nodes -> Nat]
          OBVIOUS
        <5>2. \A m \in Nodes : deposit_lamports'[m] = deposit_lamports[m] + [k \in Nodes |-> 0][m]
          BY <3>1, <4>1
        <5> QED
          BY <5>1, <5>2
      <4>2. ASSUME NEW k \in Nodes, NEW amount \in Nat,
                   deposit_lamports' = [deposit_lamports EXCEPT ![k] = @ + amount]
            PROVE  \E more \in [Nodes -> Nat] :
                     \A m \in Nodes : deposit_lamports'[m] = deposit_lamports[m] + more[m]
        <5> DEFINE more == [m \in Nodes |-> IF m = k THEN amount ELSE 0]
        <5>1. \A m \in Nodes : deposit_lamports'[m] = deposit_lamports[m] + more[m]
          BY <3>1, <4>2
        <5>2. more \in [Nodes -> Nat]
          OBVIOUS
        <5> HIDE DEF more
        <5> QED
          BY <5>1, <5>2
      <4>3. CASE FundsDeposit
        BY <4>2, <4>3, BoundsAssumption DEF FundsDeposit, FundSolanaValidatorDeposit
      <4>4. CASE OpensDeposit
        BY <3>1, <4>2, <4>4 DEF OpensDeposit, InitializeSolanaValidatorDeposit
      <4> QED
        BY <1>1, <2>1, <4>1, <4>3, <4>4, PausedSteps DEF FieldWriters
    <3> QED
      BY <3>1, <3>2
  <2> QED
    BY <2>2, <2>3, <2>4
<1>2. ASSUME TypeInv, [Next]_vars PROVE Frozen
  BY <1>1, <1>2
<1> QED
  BY <1>2, TypeInvariance, PTL DEF Spec, PauseFreezesFunds

(***************************************************************************)
(* What rests on the snapshot of the integrations.                         *)
(***************************************************************************)

\* A step that changes the snapshot of no distribution.
KeepsSnapshots ==
  \A e \in Epochs : exists(e) =>
    integrations_count_snapshot'[e] = integrations_count_snapshot[e]

\* No migration changes the snapshot of a distribution.
SnapshotsKept == [][KeepsSnapshots]_vars

\* A step that does not block this distribution again.
EpochStaysCollected(e) ==
  exists(e) /\ are_all_integrations_collected(e) => are_all_integrations_collected(e)'

\* A step that blocks no distribution again.
StaysCollected == \A e \in Epochs : EpochStaysCollected(e)

\* The epochs that the account migration does not reach.
LowEpochs == {e \in Epochs : e < MIN_DZ_EPOCH}

\* No step changes the snapshot of an epoch below the floor of the migration.
LEMMA SnapshotsBelowTheFloor ==
  ASSUME TypeInv, [Next]_vars, NEW e \in LowEpochs, exists(e)
  PROVE  integrations_count_snapshot'[e] = integrations_count_snapshot[e]
<1>1. integrations_count_snapshot \in [Epochs -> Nat] /\ e \in Epochs /\ e < MIN_DZ_EPOCH
  BY DEF TypeInv, TypeOK, CollectionTypeOK, LowEpochs
<1>2. CASE InitializesEpoch
  <2>1. e # next_completed_dz_epoch
    BY <1>1, <1>2, InitializedEpoch DEF InitializesEpoch
  <2> QED
    BY <1>1, <1>2, <2>1 DEF InitializesEpoch, InitializeDistribution
<1>3. CASE Migrates
  <2>1. PICK distributions \in SUBSET Epochs : MigrateProgramAccounts(distributions)
    BY <1>3 DEF Migrates
  <2>2. \A d \in distributions : d >= MIN_DZ_EPOCH
    BY <2>1 DEF MigrateProgramAccounts, can_migrate
  <2>3. e \notin distributions
    BY <1>1, <2>2, BoundsAssumption, LimitsAssumption DEF Epochs
  <2> QED
    BY <1>1, <2>1, <2>3 DEF MigrateProgramAccounts
<1>4. CASE ~InitializesEpoch /\ ~Migrates
  BY <1>4, Writers DEF FieldWriters
<1> QED
  BY <1>2, <1>3, <1>4

\* A distribution whose snapshot a step keeps is not blocked again by it.
LEMMA KeptSnapshot ==
  ASSUME TypeInv, [Next]_vars, NEW e \in Epochs, are_all_integrations_collected(e),
         integrations_count_snapshot'[e] = integrations_count_snapshot[e]
  PROVE  are_all_integrations_collected(e)'
<1>1. /\ integrations_count_snapshot \in [Epochs -> Nat]
      /\ integrations_collected_count \in [Epochs -> Nat]
  BY DEF TypeInv, TypeOK, CollectionTypeOK
<1>2. CASE Collects
  <2>1. PICK d \in Epochs :
          integrations_collected_count' = [integrations_collected_count EXCEPT ![d] = @ + 1]
    BY <1>2 DEF Collects, Collect, CollectIntegrationRewards
  <2>2. integrations_collected_count'[e] >= integrations_collected_count[e]
        /\ integrations_collected_count'[e] \in Nat
    BY <1>1, <2>1
  <2> QED
    BY <1>1, <2>2 DEF are_all_integrations_collected
<1>3. CASE ~Collects
  BY <1>3, Writers DEF FieldWriters, are_all_integrations_collected
<1> QED
  BY <1>2, <1>3

\* An epoch below the floor is not blocked again.
LEMMA LowStaysCollected ==
  ASSUME TypeInv, [Next]_vars, NEW e \in LowEpochs
  PROVE  EpochStaysCollected(e)
<1>1. e \in Epochs
  BY DEF LowEpochs
<1> QED
  BY <1>1, SnapshotsBelowTheFloor, KeptSnapshot DEF EpochStaysCollected

\* For any number of integrations, registered in any order before and after a distribution is
\* initialized: as long as no migration changes its snapshot, a distribution that no
\* integration blocks is never blocked again.
THEOREM NewIntegrationsDoNotBlock == Spec /\ SnapshotsKept => NoRetroactiveBlock
<1>1. ASSUME TypeInv, [Next]_vars, KeepsSnapshots PROVE StaysCollected
  BY <1>1, KeptSnapshot DEF StaysCollected, EpochStaysCollected, KeepsSnapshots
<1>2. NoRetroactiveBlock <=> [][StaysCollected]_vars
  BY PTL DEF NoRetroactiveBlock, StaysCollected, EpochStaysCollected
<1> QED
  BY <1>1, <1>2, TypeInvariance, PTL DEF Spec, SnapshotsKept

\* What NoRetroactiveBlock says of one epoch, in a step that may stutter.
LEMMA CollectedStays ==
  ASSUME [StaysCollected]_vars, NEW e \in Epochs
  PROVE  EpochStaysCollected(e)
<1>1. CASE StaysCollected
  BY <1>1 DEF StaysCollected
<1>2. CASE UNCHANGED vars
  BY <1>2 DEF vars, collectionVars, are_all_integrations_collected, EpochStaysCollected
<1> QED
  BY <1>1, <1>2

\* No epoch disappears, and no step unsweeps one.
LEMMA EpochProgress ==
  ASSUME TypeInv, [Next]_vars, NEW e \in Epochs
  PROVE  /\ exists(e) => exists(e)'
         /\ has_swept_2z_tokens[e] => has_swept_2z_tokens'[e]
<1>1. exists(e) => exists(e)'
  <2>1. next_completed_dz_epoch \in Nat /\ e \in Nat
    BY BoundsAssumption DEF TypeInv, TypeOK, ConfigTypeOK, Epochs
  <2>2. next_completed_dz_epoch' = next_completed_dz_epoch
        \/ next_completed_dz_epoch' = next_completed_dz_epoch + 1
    BY Writers DEF FieldWriters, InitializesEpoch, InitializeDistribution
  <2> QED
    BY <2>1, <2>2 DEF exists
<1>2. has_swept_2z_tokens[e] => has_swept_2z_tokens'[e]
  BY Writers DEF FieldWriters, Sweeps, Sweep, SweepDistributionTokens, TypeInv, TypeOK,
                 SweepTypeOK
<1> QED
  BY <1>1, <1>2

\* What a distribution has collected changes only when it is initialized, swept at a debt,
\* or collects from an integration that blocks it.
LEMMA CollectedChanges ==
  ASSUME TypeInv, [Next]_vars, NEW e \in Epochs,
         exists(e), has_swept_2z_tokens[e] \/ total_sol_debt(e) = 0,
         are_all_integrations_collected(e)
  PROVE  total_collected_2z_tokens(e)' = total_collected_2z_tokens(e)
<1>1. collected_prepaid_2z_payments'[e] = collected_prepaid_2z_payments[e]
  <2>1. CASE InitializesEpoch
    <3>1. e # next_completed_dz_epoch
      BY <2>1, InitializedEpoch DEF InitializesEpoch
    <3>2. collected_prepaid_2z_payments \in [Epochs -> Nat]
      BY DEF TypeInv, TypeOK, PrepaidTypeOK
    <3> QED
      BY <2>1, <3>1, <3>2 DEF InitializesEpoch, InitializeDistribution, move_prepaid_2z
  <2>2. CASE ~InitializesEpoch
    BY <2>2, Writers DEF FieldWriters
  <2> QED
    BY <2>1, <2>2
<1>2. collected_2z_converted_from_sol'[e] = collected_2z_converted_from_sol[e]
  <2>1. CASE Sweeps
    <3>1. PICK d \in Epochs, amount \in TokenAmounts : SweepDistributionTokens(d, amount)
      BY <2>1 DEF Sweeps, Sweep
    <3>2. d # e \/ UNCHANGED collected_2z_converted_from_sol
      BY <3>1 DEF SweepDistributionTokens, can_sweep, try_require_has_not_swept_2z_tokens
    <3>3. collected_2z_converted_from_sol \in [Epochs -> Nat]
      BY DEF TypeInv, TypeOK, SweepTypeOK
    <3> QED
      BY <3>1, <3>2, <3>3 DEF SweepDistributionTokens, move_swept_2z
  <2>2. CASE ~Sweeps
    BY <2>2, Writers DEF FieldWriters
  <2> QED
    BY <2>1, <2>2
<1>3. collected_2z_from_integrations'[e] = collected_2z_from_integrations[e]
  <2>1. CASE Collects
    <3>1. PICK d \in Epochs, p \in Integrations, amount \in TokenAmounts :
            CollectIntegrationRewards(d, p, amount)
      BY <2>1 DEF Collects, Collect
    <3>2. d # e
      BY <3>1 DEF CollectIntegrationRewards, is_collection_pending
    <3>3. collected_2z_from_integrations \in [Epochs -> Nat]
      BY DEF TypeInv, TypeOK, CollectionTypeOK
    <3> QED
      BY <3>1, <3>2, <3>3 DEF CollectIntegrationRewards
  <2>2. CASE ~Collects
    BY <2>2, Writers DEF FieldWriters
  <2> QED
    BY <2>1, <2>2
<1> QED
  BY <1>1, <1>2, <1>3 DEF total_collected_2z_tokens

\* A distribution pays rewards only after its sweep and with no integration outstanding.
EpochDistributing(e) ==
  distributed_rewards_count[e] > 0 =>
    exists(e) /\ has_swept_2z_tokens[e] /\ are_all_integrations_collected(e)

DistributingInv == \A e \in Epochs : EpochDistributing(e)
LowDistributingInv == \A e \in LowEpochs : EpochDistributing(e)

\* Only DistributeRewards starts a distribution, and it makes the checks itself.
LEMMA NextDistributing ==
  ASSUME TypeInv, [Next]_vars, NEW e \in Epochs, EpochDistributing(e), EpochStaysCollected(e)
  PROVE  EpochDistributing(e)'
<1> SUFFICES ASSUME distributed_rewards_count'[e] > 0
             PROVE  exists(e)' /\ has_swept_2z_tokens'[e] /\ are_all_integrations_collected(e)'
  BY DEF EpochDistributing
<1>1. exists(e) /\ has_swept_2z_tokens[e] /\ are_all_integrations_collected(e)
  <2>1. CASE Distributes
    <3>1. PICK d \in Epochs, i \in RewardLeafIndices, leaf \in RewardLeaves :
            DistributeRewards(d, i, leaf)
      BY <2>1 DEF Distributes, DistributeReward
    <3>2. CASE d = e
      BY <3>1, <3>2 DEF DistributeRewards, can_distribute
    <3>3. CASE d # e
      <4>1. distributed_rewards_count'[e] = distributed_rewards_count[e]
        BY <3>1, <3>3 DEF DistributeRewards, TypeInv, TypeOK, PaidTypeOK
      <4> QED
        BY <4>1 DEF EpochDistributing
    <3> QED
      BY <3>2, <3>3
  <2>2. CASE ~Distributes
    BY <2>2, Writers DEF FieldWriters, EpochDistributing
  <2> QED
    BY <2>1, <2>2
<1>2. are_all_integrations_collected(e)'
  BY <1>1 DEF EpochStaysCollected
<1> QED
  BY <1>1, <1>2, EpochProgress

\* As long as no migration blocks it again, a distribution that has paid a reward has been
\* swept and has collected from all its integrations.
THEOREM DistributingInvariance == Spec /\ NoRetroactiveBlock => []DistributingInv
<1>1. Init => DistributingInv
  BY DEF Init, DistributingInv, EpochDistributing, NoAmount
<1>2. TypeInv /\ DistributingInv /\ [Next]_vars /\ [StaysCollected]_vars => DistributingInv'
  BY NextDistributing, CollectedStays DEF DistributingInv
<1>3. NoRetroactiveBlock <=> [][StaysCollected]_vars
  BY PTL DEF NoRetroactiveBlock, StaysCollected, EpochStaysCollected
<1> QED
  BY <1>1, <1>2, <1>3, TypeInvariance, PTL DEF Spec

\* Below the floor of the migration this holds with no proviso.
THEOREM LowDistributingInvariance == Spec => []LowDistributingInv
<1>1. Init => LowDistributingInv
  BY DEF Init, LowDistributingInv, LowEpochs, EpochDistributing, NoAmount
<1>2. TypeInv /\ LowDistributingInv /\ [Next]_vars => LowDistributingInv'
  BY NextDistributing, LowStaysCollected DEF LowDistributingInv, LowEpochs
<1> QED
  BY <1>1, <1>2, TypeInvariance, PTL DEF Spec

\* For any number of contributors and integrations: as long as no migration blocks it again,
\* a distribution that has paid one reward computes all the others from the same total.
THEOREM SharesAreOfOneTotal ==
  Spec /\ NoRetroactiveBlock => CollectedFrozenWhenDistributing
<1> DEFINE Frozen ==
      \A e \in Epochs : distributed_rewards_count[e] > 0 =>
        total_collected_2z_tokens(e)' = total_collected_2z_tokens(e)
<1>1. ASSUME TypeInv, DistributingInv, [Next]_vars PROVE Frozen
  BY <1>1, CollectedChanges DEF DistributingInv, EpochDistributing
<1> QED
  BY <1>1, TypeInvariance, DistributingInvariance, PTL
     DEF Spec, CollectedFrozenWhenDistributing

\* What FinalizeDistributionRewards checked of a null root stays true: it is not enough
\* that nothing was collected or owed, the integrations must all have been collected.
EpochNullRoot(e) ==
  is_rewards_calculation_finalized[e] /\ rewards_merkle_root[e] = <<>> =>
    /\ exists(e)
    /\ are_all_integrations_collected(e)
    /\ total_collected_2z_tokens(e) = 0
    /\ total_sol_debt(e) = 0

NullRootInv == \A e \in Epochs : EpochNullRoot(e)
LowNullRootInv == \A e \in LowEpochs : EpochNullRoot(e)

\* A debt that is final and has been charged in full is not charged more.
LEMMA SettledDebtStaysZero ==
  ASSUME TypeInv, SolBooks, [Next]_vars, NEW e \in Epochs,
         is_debt_calculation_finalized[e], total_sol_debt(e) = 0
  PROVE  total_sol_debt(e)' = 0
<1>1. /\ total_solana_validator_debt \in [Epochs -> Nat]
      /\ uncollectible_sol_debt \in [Epochs -> Nat]
  BY DEF TypeInv, TypeOK, CalculatedDebtTypeOK, SettledDebtTypeOK
<1>2. CASE ConfiguresDebt
  <2>1. PICK d \in Epochs, calculation \in DebtCalculations :
          ConfigureDistributionDebt(d, calculation)
    BY <1>2 DEF ConfiguresDebt
  <2>2. d # e
    BY <2>1 DEF ConfigureDistributionDebt, try_require_unfinalized_debt_calculation
  <2>3. total_solana_validator_debt'[e] = total_solana_validator_debt[e]
        /\ UNCHANGED uncollectible_sol_debt
    BY <1>1, <2>1, <2>2 DEF ConfigureDistributionDebt, settledDebtVars
  <2> QED
    BY <2>3 DEF total_sol_debt
<1>3. CASE WritesOffDebt
  <2>1. PICK d \in Epochs, i \in DebtLeafIndices, leaf \in DebtLeaves, w \in Epochs :
          WriteOffSolanaValidatorDebt(d, i, leaf.node, leaf.amount, w)
    BY <1>3 DEF WritesOffDebt, WriteOffDebt
  <2>2. PICK amount \in Nat : amount = leaf.amount
    BY InputTypes DEF DebtLeaf
  <2>3. /\ total_solana_validator_debt[w] >= uncollectible_sol_debt[w] + amount
        /\ uncollectible_sol_debt' = [uncollectible_sol_debt EXCEPT ![w] = @ + amount]
        /\ UNCHANGED total_solana_validator_debt
    BY <2>1, <2>2 DEF WriteOffSolanaValidatorDebt, can_charge_write_off, calculatedDebtVars
  <2> QED
    BY <1>1, <2>3 DEF total_sol_debt
<1>4. CASE ~ConfiguresDebt /\ ~WritesOffDebt
  BY <1>4, Writers DEF FieldWriters, total_sol_debt
<1> QED
  BY <1>2, <1>3, <1>4

\* Every step keeps what was checked of a null root.
LEMMA NextNullRoot ==
  ASSUME LedgerInv, [Next]_vars, NEW e \in Epochs, EpochNullRoot(e), EpochStaysCollected(e)
  PROVE  EpochNullRoot(e)'
<1> SUFFICES ASSUME is_rewards_calculation_finalized'[e], rewards_merkle_root'[e] = <<>>
             PROVE  /\ exists(e)' /\ are_all_integrations_collected(e)'
                    /\ total_collected_2z_tokens(e)' = 0 /\ total_sol_debt(e)' = 0
  BY DEF EpochNullRoot
<1>1. TypeInv /\ SolBooks
  BY DEF LedgerInv
<1>2. CASE is_rewards_calculation_finalized[e]
  <2>1. rewards_merkle_root'[e] = rewards_merkle_root[e]
    BY <1>1, <1>2, Writers
       DEF FieldWriters, ConfiguresRewards, ConfigureDistributionRewards, TypeInv, TypeOK,
           RewardsTypeOK, try_require_unfinalized_rewards_calculation
  <2>2. /\ exists(e) /\ are_all_integrations_collected(e)
        /\ total_collected_2z_tokens(e) = 0 /\ total_sol_debt(e) = 0
    BY <1>2, <2>1 DEF EpochNullRoot
  <2>3. total_sol_debt(e)' = 0
    BY <1>1, <1>2, <2>2, SettledDebtStaysZero DEF SolBooks, PhaseOrder
  <2>4. total_collected_2z_tokens(e)' = 0
    BY <1>1, <2>2, CollectedChanges
  <2>5. are_all_integrations_collected(e)'
    BY <2>2 DEF EpochStaysCollected
  <2> QED
    BY <1>1, <2>2, <2>3, <2>4, <2>5, EpochProgress
<1>3. CASE ~is_rewards_calculation_finalized[e]
  <2>1. PICK d \in Epochs : FinalizeDistributionRewards(d)
    BY <1>3, Writers DEF FieldWriters, FinalizesRewards
  <2>2. d = e
    BY <1>1, <1>3, <2>1
       DEF FinalizeDistributionRewards, TypeInv, TypeOK, RewardsTypeOK
  <2>3. UNCHANGED <<next_completed_dz_epoch, integrations_count_snapshot,
                    integrations_collected_count, collected_prepaid_2z_payments,
                    collected_2z_converted_from_sol, collected_2z_from_integrations,
                    total_solana_validator_debt, uncollectible_sol_debt, rewards_merkle_root>>
    BY <2>1 DEF FinalizeDistributionRewards, configVars, collectionVars, prepaidVars,
                sweepVars, debtVars, calculatedDebtVars, settledDebtVars
  <2>4. /\ exists(e) /\ are_all_integrations_collected(e)
        /\ total_collected_2z_tokens(e) = 0 /\ total_sol_debt(e) = 0
    BY <2>1, <2>2, <2>3 DEF FinalizeDistributionRewards, is_null_root_allowed
  <2> QED
    BY <2>3, <2>4
       DEF exists, are_all_integrations_collected, total_collected_2z_tokens, total_sol_debt
<1> QED
  BY <1>2, <1>3

\* For any order of finalization, collection, sweep and write-off: as long as no migration
\* blocks it again, a distribution finalized with a null root never receives 2Z that nobody
\* could be paid from.
THEOREM NullRootsStayEmpty == Spec /\ NoRetroactiveBlock => []NullRootStaysEmpty
<1>1. Init => NullRootInv
  BY DEF Init, NullRootInv, EpochNullRoot, NoFlag
<1>2. LedgerInv /\ NullRootInv /\ [Next]_vars /\ [StaysCollected]_vars => NullRootInv'
  BY NextNullRoot, CollectedStays DEF NullRootInv
<1>3. NoRetroactiveBlock <=> [][StaysCollected]_vars
  BY PTL DEF NoRetroactiveBlock, StaysCollected, EpochStaysCollected
<1>4. NullRootInv => NullRootStaysEmpty
  BY DEF NullRootInv, EpochNullRoot, NullRootStaysEmpty, NullRootEmpty
<1> QED
  BY <1>1, <1>2, <1>3, <1>4, TypeInvariance, BooksInvariance, FinalizedExistInvariance, PTL
     DEF Spec, LedgerInv

\* Below the floor of the migration what was checked of a null root stays true with no
\* proviso.
THEOREM LowNullRootInvariance == Spec => []LowNullRootInv
<1>1. Init => LowNullRootInv
  BY DEF Init, LowNullRootInv, LowEpochs, EpochNullRoot, NoFlag
<1>2. LedgerInv /\ LowNullRootInv /\ [Next]_vars => LowNullRootInv'
  <2> SUFFICES ASSUME LedgerInv, LowNullRootInv, [Next]_vars, NEW e \in LowEpochs
               PROVE  EpochNullRoot(e)'
    BY DEF LowNullRootInv
  <2>1. e \in Epochs /\ EpochNullRoot(e) /\ TypeInv
    BY DEF LowEpochs, LowNullRootInv, LedgerInv
  <2>2. EpochStaysCollected(e)
    BY <2>1, LowStaysCollected
  <2> QED
    BY <2>1, <2>2, NextNullRoot
<1> QED
  BY <1>1, <1>2, TypeInvariance, BooksInvariance, FinalizedExistInvariance, PTL
     DEF Spec, LedgerInv

(***************************************************************************)
(* The relayers' escrow.  EnableSolanaValidatorDebtWriteOff may take the   *)
(* rent of its bitmap out of the escrow of an epoch whose rewards are      *)
(* final, so that the result is proved for write-offs that are enabled     *)
(* before.                                                                 *)
(***************************************************************************)

\* A step that enables no write-offs in an epoch whose rewards are final.
EnablesBeforeRewards ==
  \A e \in Epochs : is_rewards_calculation_finalized[e] =>
    is_solana_validator_debt_write_off_enabled'[e]
      = is_solana_validator_debt_write_off_enabled[e]

\* Write-offs are enabled before the rewards of the epoch are finalized, or never.
WriteOffsEnabledInTime == [][EnablesBeforeRewards]_vars

\* The lamports an epoch needs for its data and for the relayers still to be paid.
EscrowCovered(e) ==
  distribution_lamports[e] >= minimum_balance(remaining_data_len[e])
    + distribute_rewards_relay_lamports[e]
        * saturating_sub(total_contributors[e], distributed_rewards_count[e])

\* The types of what the escrow is computed from.
LEMMA EscrowTypes ==
  ASSUME TypeInv
  PROVE  /\ distribution_lamports \in [Epochs -> Nat]
         /\ remaining_data_len \in [Epochs -> Nat]
         /\ distribute_rewards_relay_lamports \in [Epochs -> Nat]
         /\ total_contributors \in [Epochs -> Nat]
         /\ distributed_rewards_count \in [Epochs -> Nat]
         /\ is_rewards_calculation_finalized \in [Epochs -> BOOLEAN]
         /\ is_solana_validator_debt_write_off_enabled \in [Epochs -> BOOLEAN]
  BY DEF TypeInv, TypeOK, LayoutTypeOK, TermTypeOK, RewardsTypeOK, PaidTypeOK,
         SettledDebtTypeOK

\* Finalization puts up the pay of every relayer on top of the rent of the grown account.
LEMMA FinalizationCovers ==
  ASSUME TypeInv, NEW e \in Epochs, FinalizeDistributionRewards(e)
  PROVE  EscrowCovered(e)'
<1>1. PICK n \in Nat, lamports \in Nat, len \in Nat, relay \in Nat, count \in Nat :
        /\ n = total_contributors[e] /\ lamports = distribution_lamports[e]
        /\ len = remaining_data_len[e] + bitmap_bytes(n)
        /\ relay = distribute_rewards_relay_lamports[e]
        /\ count = distributed_rewards_count[e]
  <2>1. /\ total_contributors[e] \in Nat /\ distribution_lamports[e] \in Nat
        /\ remaining_data_len[e] \in Nat /\ distribute_rewards_relay_lamports[e] \in Nat
        /\ distributed_rewards_count[e] \in Nat
    BY EscrowTypes
  <2>2. remaining_data_len[e] + bitmap_bytes(total_contributors[e]) \in Nat
    BY <2>1, BitmapBytesType
  <2> QED
    BY <2>1, <2>2
<1>2. /\ total_contributors'[e] = n /\ distribute_rewards_relay_lamports'[e] = relay
      /\ distributed_rewards_count'[e] = count
      /\ remaining_data_len'[e] = len
  BY <1>1, EscrowTypes DEF FinalizeDistributionRewards, resize, termVars, paidVars
<1>3. distribution_lamports'[e] =
        lamports + saturating_sub(minimum_balance(len), lamports) + relay * n
  BY <1>1, EscrowTypes
     DEF FinalizeDistributionRewards, resize, relay_escrow, additional_lamports_for_resize
<1>4. minimum_balance(len) \in Nat
  BY MinimumBalanceType
<1>5. PICK least \in Nat : least = minimum_balance(len)
  BY <1>4
<1>6. lamports + saturating_sub(least, lamports) >= least
  BY DEF saturating_sub
<1>7. saturating_sub(n, count) \in Nat /\ saturating_sub(n, count) <= n
      /\ saturating_sub(least, lamports) \in Nat
  BY DEF saturating_sub
<1>8. relay * saturating_sub(n, count) <= relay * n
      /\ relay * saturating_sub(n, count) \in Nat /\ relay * n \in Nat
  BY <1>7, ProductMonotone
<1> QED
  BY <1>2, <1>3, <1>5, <1>6, <1>7, <1>8 DEF EscrowCovered, minimum_balance

\* A relayer is paid for one reward, and one reward less is left.
LEMMA RelayCovers ==
  ASSUME TypeInv, NEW e \in Epochs, NEW i, NEW leaf, DistributeRewards(e, i, leaf),
         EscrowCovered(e)
  PROVE  EscrowCovered(e)'
<1>1. PICK n \in Nat, lamports \in Nat, len \in Nat, relay \in Nat, count \in Nat :
        /\ n = total_contributors[e] /\ lamports = distribution_lamports[e]
        /\ len = remaining_data_len[e]
        /\ relay = distribute_rewards_relay_lamports[e]
        /\ count = distributed_rewards_count[e]
  BY EscrowTypes
<1>2. /\ total_contributors'[e] = n /\ distribute_rewards_relay_lamports'[e] = relay
      /\ distributed_rewards_count'[e] = count + 1
      /\ remaining_data_len'[e] = len
      /\ distribution_lamports'[e] = lamports - relay
  BY <1>1, EscrowTypes DEF DistributeRewards, termVars, rewardsVars
<1>3. saturating_sub(n, count) # 0
  BY <1>1 DEF DistributeRewards, can_distribute, are_all_rewards_distributed
<1>4. PICK left \in Nat : saturating_sub(n, count) = left + 1 /\ saturating_sub(n, count + 1) = left
  <2>1. saturating_sub(n, count) = n - count /\ n - count \in Nat \ {0}
    BY <1>3 DEF saturating_sub
  <2>2. saturating_sub(n, count + 1) = n - count - 1 /\ n - count - 1 \in Nat
    BY <2>1 DEF saturating_sub
  <2> QED
    BY <2>1, <2>2
<1>5. relay * (left + 1) = relay * left + relay /\ relay * left \in Nat
  OBVIOUS
<1>6. PICK least \in Nat : least = minimum_balance(len)
  BY MinimumBalanceType
<1>7. lamports >= least + relay * (left + 1)
  BY <1>1, <1>4, <1>6 DEF EscrowCovered
<1>8. lamports - relay >= least + relay * left
  BY <1>5, <1>7
<1> QED
  BY <1>2, <1>4, <1>6, <1>8 DEF EscrowCovered, minimum_balance

\* A step that finalizes nothing, pays nobody and enables no write-offs in an epoch that
\* exists leaves its escrow alone.
LEMMA EscrowUntouched ==
  ASSUME TypeInv, [Next]_vars, NEW e \in Epochs, exists(e),
         is_debt_calculation_finalized[e], is_rewards_calculation_finalized[e],
         EnablesBeforeRewards, ~Distributes
  PROVE  /\ distribution_lamports'[e] = distribution_lamports[e]
         /\ remaining_data_len'[e] = remaining_data_len[e]
         /\ distribute_rewards_relay_lamports'[e] = distribute_rewards_relay_lamports[e]
         /\ total_contributors'[e] = total_contributors[e]
         /\ distributed_rewards_count'[e] = distributed_rewards_count[e]
<1>1. total_contributors'[e] = total_contributors[e]
  BY Writers, EscrowTypes
     DEF FieldWriters, ConfiguresRewards, ConfigureDistributionRewards,
         try_require_unfinalized_rewards_calculation
<1>2. distributed_rewards_count'[e] = distributed_rewards_count[e]
  BY Writers DEF FieldWriters
<1>3. CASE InitializesEpoch
  <2>1. next_completed_dz_epoch # e
    BY <1>3, InitializedEpoch DEF InitializesEpoch
  <2>2. /\ distribution_lamports'[e] = distribution_lamports[e]
        /\ UNCHANGED remaining_data_len
        /\ distribute_rewards_relay_lamports'[e] = distribute_rewards_relay_lamports[e]
    BY <1>3, <2>1, EscrowTypes DEF InitializesEpoch, InitializeDistribution
  <2> QED
    BY <1>1, <1>2, <2>2
<1>4. CASE FinalizesDebt
  <2>1. PICK d \in Epochs : FinalizeDistributionDebt(d)
    BY <1>4 DEF FinalizesDebt
  <2>2. d # e
    BY <2>1 DEF FinalizeDistributionDebt, try_require_unfinalized_debt_calculation
  <2>3. /\ distribution_lamports'[e] = distribution_lamports[e]
        /\ remaining_data_len'[e] = remaining_data_len[e]
        /\ UNCHANGED distribute_rewards_relay_lamports
    BY <2>1, <2>2, EscrowTypes
       DEF FinalizeDistributionDebt, append_processed_debt_bitmap, resize, termVars
  <2> QED
    BY <1>1, <1>2, <2>3
<1>5. CASE EnablesWriteOff
  <2>1. PICK d \in Epochs : EnableSolanaValidatorDebtWriteOff(d)
    BY <1>5 DEF EnablesWriteOff
  <2>2. d # e
    BY <2>1, EscrowTypes DEF EnableSolanaValidatorDebtWriteOff, EnablesBeforeRewards
  <2>3. /\ distribution_lamports'[e] = distribution_lamports[e]
        /\ remaining_data_len'[e] = remaining_data_len[e]
        /\ UNCHANGED distribute_rewards_relay_lamports
    BY <2>1, <2>2, EscrowTypes DEF EnableSolanaValidatorDebtWriteOff, resize, termVars
  <2> QED
    BY <1>1, <1>2, <2>3
<1>6. CASE FinalizesRewards
  <2>1. PICK d \in Epochs : FinalizeDistributionRewards(d)
    BY <1>6 DEF FinalizesRewards
  <2>2. d # e
    BY <2>1 DEF FinalizeDistributionRewards, try_require_unfinalized_rewards_calculation
  <2>3. /\ distribution_lamports'[e] = distribution_lamports[e]
        /\ remaining_data_len'[e] = remaining_data_len[e]
        /\ UNCHANGED distribute_rewards_relay_lamports
    BY <2>1, <2>2, EscrowTypes DEF FinalizeDistributionRewards, resize, termVars
  <2> QED
    BY <1>1, <1>2, <2>3
<1>7. CASE ~InitializesEpoch /\ ~FinalizesDebt /\ ~EnablesWriteOff /\ ~FinalizesRewards
  BY <1>1, <1>2, <1>7, Writers DEF FieldWriters
<1> QED
  BY <1>3, <1>4, <1>5, <1>6, <1>7

\* Every step keeps the escrow covered.
LEMMA NextEscrow ==
  ASSUME LedgerInv, EscrowCoversRelays, [Next]_vars, [EnablesBeforeRewards]_vars
  PROVE  EscrowCoversRelays'
<1> SUFFICES ASSUME NEW e \in Epochs, is_rewards_calculation_finalized'[e]
             PROVE  EscrowCovered(e)'
  BY DEF EscrowCoversRelays, EscrowCovered
<1>1. TypeInv
  BY DEF LedgerInv
<1>2. CASE ~is_rewards_calculation_finalized[e]
  <2>1. PICK d \in Epochs : FinalizeDistributionRewards(d)
    BY <1>2, Writers DEF FieldWriters, FinalizesRewards
  <2>2. d = e
    BY <1>1, <1>2, <2>1, EscrowTypes DEF FinalizeDistributionRewards
  <2> QED
    BY <1>1, <2>1, <2>2, FinalizationCovers
<1>3. CASE is_rewards_calculation_finalized[e]
  <2>1. EscrowCovered(e) /\ is_debt_calculation_finalized[e] /\ exists(e)
    BY <1>3 DEF EscrowCoversRelays, EscrowCovered, LedgerInv, SolBooks, PhaseOrder,
                FinalizedExist
  <2>2. CASE Distributes
    <3>1. PICK d \in Epochs, i \in RewardLeafIndices, leaf \in RewardLeaves :
            DistributeRewards(d, i, leaf)
      BY <2>2 DEF Distributes, DistributeReward
    <3>2. CASE d = e
      BY <1>1, <2>1, <3>1, <3>2, RelayCovers
    <3>3. CASE d # e
      <4>1. /\ distribution_lamports'[e] = distribution_lamports[e]
            /\ distributed_rewards_count'[e] = distributed_rewards_count[e]
            /\ UNCHANGED <<remaining_data_len, distribute_rewards_relay_lamports,
                           total_contributors>>
        BY <1>1, <3>1, <3>3, EscrowTypes DEF DistributeRewards, termVars, rewardsVars
      <4> QED
        BY <2>1, <4>1 DEF EscrowCovered, minimum_balance
    <3> QED
      BY <3>2, <3>3
  <2>3. CASE UNCHANGED vars
    BY <2>1, <2>3 DEF vars, layoutVars, termVars, rewardsVars, paidVars, EscrowCovered,
                      minimum_balance
  <2>4. CASE ~Distributes /\ EnablesBeforeRewards
    BY <1>1, <1>3, <2>1, <2>4, EscrowUntouched DEF EscrowCovered, minimum_balance
  <2> QED
    BY <2>2, <2>3, <2>4
<1> QED
  BY <1>2, <1>3

\* For any number of contributors and any pay of the relayers: if the write-offs of an epoch
\* are enabled before its rewards are finalized, the distribution can pay the relayer of
\* every reward that is left without losing its rent exemption.
THEOREM RelayersCanBePaid == Spec /\ WriteOffsEnabledInTime => []EscrowCoversRelays
<1>1. Init => EscrowCoversRelays
  BY DEF Init, EscrowCoversRelays, NoFlag
<1>2. LedgerInv /\ EscrowCoversRelays /\ [Next]_vars /\ [EnablesBeforeRewards]_vars
        => EscrowCoversRelays'
  BY NextEscrow
<1> QED
  BY <1>1, <1>2, TypeInvariance, BooksInvariance, FinalizedExistInvariance, PTL
     DEF Spec, LedgerInv, WriteOffsEnabledInTime

(***************************************************************************)
(* The composition with the mock integration.                              *)
(***************************************************************************)

\* The buckets of an epoch, one for each integration.
EpochBuckets(e) == [p \in Integrations |-> bucket_2z[<<p, e>>]]

\* What an epoch's integrations earned is in their buckets or was collected.
EpochRevenue(e) ==
  /\ IsFiniteSet(Units(EpochBuckets(e)))
  /\ deposited_2z[e] = Total(EpochBuckets(e)) + collected_2z_from_integrations[e]

\* RevenueStaysInEpoch is inductive with the types of the amounts it adds up.
RevenueInv ==
  /\ bucket_2z \in [Accounts -> Nat]
  /\ deposited_2z \in [IntegrationEpochs -> Nat]
  /\ collected_2z_from_integrations \in [Epochs -> Nat]
  /\ \A e \in Epochs : EpochRevenue(e)

\* Initially the buckets are empty.
LEMMA InitRevenue ==
  ASSUME IntegrationInit
  PROVE  RevenueInv
<1>1. /\ bucket_2z = [a \in Accounts |-> 0]
      /\ deposited_2z = [e \in IntegrationEpochs |-> 0]
      /\ collected_2z_from_integrations = [e \in Epochs |-> 0]
  BY DEF IntegrationInit, Init, NoAmount
<1>2. ASSUME NEW e \in Epochs PROVE EpochRevenue(e)
  <2>1. e \in IntegrationEpochs
    BY IntegrationEpochsAssumption
  <2>2. \A p \in DOMAIN EpochBuckets(e) : EpochBuckets(e)[p] = 0
    BY <1>1, <2>1 DEF EpochBuckets, Accounts
  <2>3. IsFiniteSet(Units(EpochBuckets(e))) /\ Total(EpochBuckets(e)) = 0
    BY <2>2, TotalZero
  <2> QED
    BY <1>1, <2>1, <2>3 DEF EpochRevenue
<1> QED
  BY <1>1, <1>2 DEF RevenueInv

\* The program itself collects from integrations only.
LEMMA OwnStepsCollectNothing ==
  ASSUME OwnStep \/ SwapSol \/ \E e \in Epochs : Sweep(e)
  PROVE  UNCHANGED collected_2z_from_integrations
<1> USE DEF collectionVars
<1>1. CASE SwapSol \/ \E e \in Epochs : Sweep(e)
  BY <1>1 DEF SwapSol, WithdrawSol, Sweep, SweepDistributionTokens
<1>2. CASE OwnStep
  <2>1. CASE Tick \/ ConfigureProgram \/ InitializesEpoch \/ PrepaysTokens \/ Donates
             \/ Migrates
    BY <2>1 DEF Tick, ConfigureProgram, InitializesEpoch, InitializeDistribution,
                PrepaysTokens, PrepayTwoZ, Donates, DonateTwoZ, Migrates,
                MigrateProgramAccounts
  <2>2. CASE FundsDeposit \/ OpensDeposit \/ WithdrawsDeposit \/ RegistersIntegration
             \/ ConfiguresRecipients
    BY <2>2 DEF FundsDeposit, FundSolanaValidatorDeposit, OpensDeposit,
                InitializeSolanaValidatorDeposit, WithdrawsDeposit,
                WithdrawSolanaValidatorDeposit, RegistersIntegration,
                InitializeRewardsIntegration, ConfiguresRecipients, ConfigureRecipients
  <2>3. CASE ConfiguresDebt \/ FinalizesDebt \/ PaysDebt \/ EnablesWriteOff
    BY <2>3 DEF ConfiguresDebt, ConfigureDistributionDebt, FinalizesDebt,
                FinalizeDistributionDebt, PaysDebt, PayDebt, PaySolanaValidatorDebt,
                EnablesWriteOff, EnableSolanaValidatorDebtWriteOff
  <2>4. CASE WritesOffDebt
    <3>1. PICK e \in Epochs, i \in DebtLeafIndices, leaf \in DebtLeaves, w \in Epochs :
            WriteOffSolanaValidatorDebt(e, i, leaf.node, leaf.amount, w)
      BY <2>4 DEF WritesOffDebt, WriteOffDebt
    <3> QED
      BY <3>1 DEF WriteOffSolanaValidatorDebt
  <2>5. CASE ConfiguresRewards \/ SetsBurnRate \/ FinalizesRewards \/ Distributes
    BY <2>5 DEF ConfiguresRewards, ConfigureDistributionRewards, SetsBurnRate,
                SetDistributionEconomicBurnRate, FinalizesRewards,
                FinalizeDistributionRewards, Distributes, DistributeReward, DistributeRewards
  <2> QED
    BY <1>2, <2>1, <2>2, <2>3, <2>4, <2>5
       DEF OwnStep, InitializesEpoch, PrepaysTokens, Donates, Migrates, FundsDeposit, OpensDeposit,
           WithdrawsDeposit, RegistersIntegration, ConfiguresRecipients, ConfiguresDebt,
           FinalizesDebt, PaysDebt, EnablesWriteOff, WritesOffDebt, ConfiguresRewards,
           SetsBurnRate, FinalizesRewards, Distributes
<1> QED
  BY <1>1, <1>2

\* One bucket of an epoch changes: the total of the buckets follows it.
LEMMA OneBucket ==
  ASSUME RevenueInv, NEW e \in Epochs, NEW p \in Integrations, NEW v \in Nat,
         bucket_2z' = [bucket_2z EXCEPT ![<<p, e>>] = v]
  PROVE  /\ IsFiniteSet(Units(EpochBuckets(e)'))
         /\ Total(EpochBuckets(e)') = Total(EpochBuckets(e)) - bucket_2z[<<p, e>>] + v
         /\ Total(EpochBuckets(e)) \in Nat
         /\ \A d \in Epochs \ {e} : EpochBuckets(d)' = EpochBuckets(d)
<1>1. /\ bucket_2z \in [Accounts -> Nat] /\ e \in IntegrationEpochs
      /\ Epochs \subseteq IntegrationEpochs
  BY IntegrationEpochsAssumption DEF RevenueInv
<1>2. \A d \in Epochs \ {e} : EpochBuckets(d)' = EpochBuckets(d)
  BY <1>1 DEF EpochBuckets, Accounts
<1>3. PICK f, g :
        /\ f = EpochBuckets(e) /\ g = EpochBuckets(e)'
        /\ DOMAIN f = Integrations /\ DOMAIN g = Integrations
        /\ \A q \in Integrations : f[q] = bucket_2z[<<q, e>>] /\ g[q] = bucket_2z'[<<q, e>>]
  <2>1. /\ DOMAIN EpochBuckets(e) = Integrations /\ DOMAIN EpochBuckets(e)' = Integrations
        /\ \A q \in Integrations : EpochBuckets(e)[q] = bucket_2z[<<q, e>>]
        /\ \A q \in Integrations : EpochBuckets(e)'[q] = bucket_2z'[<<q, e>>]
    BY DEF EpochBuckets
  <2> QED
    BY <2>1
<1>4. /\ \A q \in Integrations : f[q] \in Nat
      /\ g[p] = v
      /\ \A q \in Integrations \ {p} : g[q] = f[q]
  <2>1. \A q \in Integrations : <<q, e>> \in Accounts
    BY <1>1 DEF Accounts
  <2>2. bucket_2z'[<<p, e>>] = v
    BY <1>1, <2>1
  <2>3. \A q \in Integrations \ {p} : bucket_2z'[<<q, e>>] = bucket_2z[<<q, e>>]
    BY <1>1, <2>1
  <2>4. \A q \in Integrations : bucket_2z[<<q, e>>] \in Nat
    BY <1>1, <2>1
  <2> QED
    BY <1>3, <2>2, <2>3, <2>4
<1>5. IsFiniteSet(Units(f))
  BY <1>3 DEF RevenueInv, EpochRevenue
<1>6. /\ IsFiniteSet(Units(g)) /\ Total(g) = Total(f) - f[p] + g[p] /\ Total(f) \in Nat
  BY <1>3, <1>4, <1>5, TotalUpdate
<1> QED
  BY <1>2, <1>3, <1>4, <1>6

\* Revenue that arrives goes to the bucket of its epoch.
LEMMA DepositRevenueStays ==
  ASSUME RevenueInv, NEW p \in Integrations, NEW e \in IntegrationEpochs,
         NEW amount \in Nat, DepositRevenue(p, e, amount)
  PROVE  RevenueInv'
<1>1. /\ UNCHANGED collected_2z_from_integrations
      /\ bucket_2z' = [bucket_2z EXCEPT ![<<p, e>>] = @ + amount]
      /\ deposited_2z' = [deposited_2z EXCEPT ![e] = @ + amount]
  BY DEF DepositRevenue, vars, collectionVars
<1>2. /\ bucket_2z \in [Accounts -> Nat] /\ deposited_2z \in [IntegrationEpochs -> Nat]
      /\ collected_2z_from_integrations \in [Epochs -> Nat]
      /\ <<p, e>> \in Accounts /\ Epochs \subseteq IntegrationEpochs
  BY IntegrationEpochsAssumption DEF RevenueInv, Accounts
<1>3. /\ bucket_2z' \in [Accounts -> Nat] /\ deposited_2z' \in [IntegrationEpochs -> Nat]
      /\ collected_2z_from_integrations' \in [Epochs -> Nat]
  BY <1>1, <1>2
<1>4. ASSUME NEW d \in Epochs PROVE EpochRevenue(d)'
  <2>1. EpochRevenue(d)
    BY DEF RevenueInv
  <2>2. CASE d = e
    <3>1. PICK v \in Nat : v = bucket_2z[<<p, e>>] + amount
      BY <1>2
    <3>2. bucket_2z' = [bucket_2z EXCEPT ![<<p, e>>] = v]
      BY <1>1, <3>1
    <3>3. /\ IsFiniteSet(Units(EpochBuckets(e)'))
          /\ Total(EpochBuckets(e)') = Total(EpochBuckets(e)) - bucket_2z[<<p, e>>] + v
          /\ Total(EpochBuckets(e)) \in Nat
      BY <2>2, <3>2, OneBucket
    <3>4. deposited_2z'[e] = deposited_2z[e] + amount
      BY <1>1, <1>2
    <3>5. deposited_2z'[e] = Total(EpochBuckets(e)') + collected_2z_from_integrations'[e]
      BY <1>1, <1>2, <2>1, <2>2, <3>1, <3>3, <3>4 DEF EpochRevenue
    <3> QED
      BY <2>2, <3>3, <3>5 DEF EpochRevenue
  <2>3. CASE d # e
    <3>1. EpochBuckets(d)' = EpochBuckets(d)
      BY <1>1, <1>2, <2>3 DEF EpochBuckets, Accounts
    <3> QED
      BY <1>1, <1>2, <2>1, <2>3, <3>1 DEF EpochRevenue
  <2> QED
    BY <2>2, <2>3
<1> QED
  BY <1>3, <1>4 DEF RevenueInv

\* A collection moves the bucket of the distribution's epoch, or nothing.
LEMMA CollectBucketStays ==
  ASSUME RevenueInv, NEW e \in Epochs, NEW p \in Integrations, CollectBucket(e, p)
  PROVE  RevenueInv'
<1>1. /\ UNCHANGED deposited_2z
      /\ \/ /\ CollectIntegrationRewards(e, p, bucket_2z[<<p, e>>])
            /\ bucket_2z' = [bucket_2z EXCEPT ![<<p, e>>] = 0]
         \/ CollectIntegrationRewards(e, p, 0) /\ UNCHANGED bucket_2z
  BY DEF CollectBucket, Withdraw, is_distribution_of_epoch
<1>2. /\ bucket_2z \in [Accounts -> Nat] /\ deposited_2z \in [IntegrationEpochs -> Nat]
      /\ collected_2z_from_integrations \in [Epochs -> Nat]
      /\ <<p, e>> \in Accounts /\ Epochs \subseteq IntegrationEpochs
  BY IntegrationEpochsAssumption DEF RevenueInv, Accounts
<1>3. PICK v \in Nat : v = bucket_2z[<<p, e>>]
  BY <1>2
<1>4. CASE /\ CollectIntegrationRewards(e, p, bucket_2z[<<p, e>>])
           /\ bucket_2z' = [bucket_2z EXCEPT ![<<p, e>>] = 0]
  <2>1. collected_2z_from_integrations' = [collected_2z_from_integrations EXCEPT ![e] = @ + v]
    BY <1>3, <1>4 DEF CollectIntegrationRewards
  <2>2. /\ IsFiniteSet(Units(EpochBuckets(e)'))
        /\ Total(EpochBuckets(e)') = Total(EpochBuckets(e)) - v + 0
        /\ Total(EpochBuckets(e)) \in Nat
        /\ \A d \in Epochs \ {e} : EpochBuckets(d)' = EpochBuckets(d)
    BY <1>3, <1>4, OneBucket
  <2>3. EpochRevenue(e)'
    BY <1>1, <1>2, <1>3, <2>1, <2>2 DEF EpochRevenue, RevenueInv
  <2>4. \A d \in Epochs \ {e} : EpochRevenue(d)'
    BY <1>1, <1>2, <2>1, <2>2 DEF EpochRevenue, RevenueInv
  <2>5. bucket_2z' \in [Accounts -> Nat] /\ collected_2z_from_integrations' \in [Epochs -> Nat]
    BY <1>2, <1>4, <2>1
  <2> QED
    BY <1>1, <1>2, <2>3, <2>4, <2>5 DEF RevenueInv
<1>5. CASE CollectIntegrationRewards(e, p, 0) /\ UNCHANGED bucket_2z
  <2>1. collected_2z_from_integrations' = [collected_2z_from_integrations EXCEPT ![e] = @ + 0]
    BY <1>5 DEF CollectIntegrationRewards
  <2>2. UNCHANGED collected_2z_from_integrations
    BY <1>2, <2>1
  <2> QED
    BY <1>1, <1>5, <2>2 DEF RevenueInv, EpochRevenue, EpochBuckets
<1> QED
  BY <1>1, <1>4, <1>5

\* The revenue of every epoch is accounted for, with the types of its amounts.
THEOREM RevenueInvariance == IntegrationSpec => []RevenueInv
<1>1. IntegrationInit => RevenueInv
  BY InitRevenue
<1>2. ASSUME RevenueInv, [IntegrationNext]_allVars PROVE RevenueInv'
  <2>1. CASE UNCHANGED <<collected_2z_from_integrations, bucket_2z, deposited_2z>>
    BY <1>2, <2>1 DEF RevenueInv, EpochRevenue, EpochBuckets
  <2>2. CASE (OwnStep \/ SwapSol \/ \E e \in Epochs : Sweep(e)) /\ UNCHANGED mockVars
    BY <2>1, <2>2, OwnStepsCollectNothing DEF mockVars
  <2>3. CASE \E p \in Integrations, e \in IntegrationEpochs :
               InitializeIntegrationDistribution(p, e)
    BY <2>1, <2>3 DEF InitializeIntegrationDistribution, vars, collectionVars
  <2>4. CASE \E p \in Integrations, e \in IntegrationEpochs, amount \in TokenAmounts :
               DepositRevenue(p, e, amount)
    BY <1>2, <2>4, BoundsAssumption, DepositRevenueStays
  <2>5. CASE \E e \in Epochs, p \in Integrations : CollectBucket(e, p)
    BY <1>2, <2>5, CollectBucketStays
  <2>6. CASE UNCHANGED allVars
    BY <2>1, <2>6 DEF allVars, mockVars, vars, collectionVars
  <2> QED
    BY <1>2, <2>2, <2>3, <2>4, <2>5, <2>6 DEF IntegrationNext
<1> QED
  BY <1>1, <1>2, PTL DEF IntegrationSpec

\* For any number of integrations and of epochs, prepared early or late, and for any amounts:
\* what an integration earned for an epoch is in that epoch's bucket or distribution.
THEOREM RevenueIsNotMixed == IntegrationSpec => []RevenueStaysInEpoch
<1>1. RevenueInv => RevenueStaysInEpoch
  BY DEF RevenueInv, RevenueStaysInEpoch, EpochRevenue, EpochBuckets
<1> QED
  BY <1>1, RevenueInvariance, PTL

\* The mock integration keeps to what CollectIntegrationRewards was modelled to rely on: the
\* program composed with it takes steps of Spec only, so that the theorems about Spec hold
\* for the composition, when the program takes any amount of 2Z.
THEOREM IntegrationImplementsProgram ==
  ASSUME TokenAmounts = Nat
  PROVE  IntegrationSpec => Spec
<1>1. IntegrationInit => RevenueInv /\ Init
  BY InitRevenue DEF IntegrationInit
<1>2. ASSUME RevenueInv, [IntegrationNext]_allVars PROVE [Next]_vars
  <2>1. CASE (OwnStep \/ SwapSol \/ \E e \in Epochs : Sweep(e)) /\ UNCHANGED mockVars
    BY <2>1 DEF Next
  <2>2. CASE \E p \in Integrations, e \in IntegrationEpochs :
               InitializeIntegrationDistribution(p, e)
    BY <2>2 DEF InitializeIntegrationDistribution
  <2>3. CASE \E p \in Integrations, e \in IntegrationEpochs, amount \in TokenAmounts :
               DepositRevenue(p, e, amount)
    BY <2>3 DEF DepositRevenue
  <2>4. CASE \E e \in Epochs, p \in Integrations : CollectBucket(e, p)
    <3>1. PICK e \in Epochs, p \in Integrations : CollectBucket(e, p)
      BY <2>4
    <3>2. bucket_2z[<<p, e>>] \in TokenAmounts /\ 0 \in TokenAmounts
      BY <1>2, IntegrationEpochsAssumption DEF RevenueInv, Accounts
    <3>3. \/ CollectIntegrationRewards(e, p, bucket_2z[<<p, e>>])
          \/ CollectIntegrationRewards(e, p, 0)
      BY <3>1 DEF CollectBucket, Withdraw, is_distribution_of_epoch
    <3>4. Collect(e, p)
      BY <3>2, <3>3 DEF Collect
    <3> QED
      BY <3>4 DEF Next
  <2>5. CASE UNCHANGED allVars
    BY <2>5 DEF allVars
  <2> QED
    BY <1>2, <2>1, <2>2, <2>3, <2>4, <2>5 DEF IntegrationNext
<1> QED
  BY <1>1, <1>2, RevenueInvariance, PTL DEF IntegrationSpec, Spec

(***************************************************************************)
(* The composition with the mock swap program.                             *)
(***************************************************************************)

\* The registry holds amounts of 2Z that were bought for, and the head is one of its slots.
RegistryInv ==
  /\ head \in Slots
  /\ DOMAIN fills = Slots
  /\ \A s \in Slots : fills[s].amount_2z_out \in TokenAmounts

\* The steps of the composition are steps of the program.
LEMMA SwapSteps ==
  ASSUME FILLS_CAPACITY \in Nat \ {0}, 0 \in TokenAmounts, RegistryInv,
         [FillsNext]_<<vars, registryVars>>
  PROVE  RegistryInv' /\ [Next]_vars
<1>1. CASE (OwnStep \/ \E e \in Epochs, p \in Integrations : Collect(e, p))
             /\ UNCHANGED registryVars
  BY <1>1 DEF registryVars, RegistryInv, Next
<1>2. CASE InitializeFillsRegistry
  BY <1>2 DEF InitializeFillsRegistry, RegistryInv
<1>3. CASE \E amount_2z_in \in TokenAmounts, amount_sol_out \in SwapAmounts :
             BuySol(amount_2z_in, amount_sol_out)
  <2>1. PICK amount_2z_in \in TokenAmounts, amount_sol_out \in SwapAmounts :
          BuySol(amount_2z_in, amount_sol_out)
    BY <1>3
  <2>2. SwapSol
    BY <2>1 DEF BuySol, SwapSol
  <2>3. RegistryInv'
    BY <2>1 DEF BuySol, RegistryInv
  <2> QED
    BY <2>2, <2>3 DEF Next
<1>4. CASE \E e \in Epochs : SweepWithFills(e)
  <2>1. PICK e \in Epochs : SweepWithFills(e)
    BY <1>4
  <2>2. CASE total_sol_debt(e) = 0 /\ SweepDistributionTokens(e, 0) /\ UNCHANGED registryVars
    <3>1. Sweep(e)
      BY <2>2 DEF Sweep
    <3> QED
      BY <2>2, <3>1 DEF registryVars, RegistryInv, Next
  <2>3. CASE /\ DequeueFills(total_sol_debt(e))
             /\ SweepDistributionTokens(e, fills[head].amount_2z_out)
    <3>1. fills[head].amount_2z_out \in TokenAmounts
      BY DEF RegistryInv
    <3>2. Sweep(e)
      BY <2>3, <3>1 DEF Sweep
    <3>3. head' \in Slots /\ UNCHANGED fills
      <4>1. head \in Nat /\ head' = (head + 1) % FILLS_CAPACITY
        BY <2>3 DEF DequeueFills, RegistryInv, Slots
      <4>2. head' \in 0..(FILLS_CAPACITY - 1)
        BY <4>1
      <4> QED
        BY <2>3, <4>2 DEF DequeueFills, Slots
    <3> QED
      BY <3>2, <3>3 DEF RegistryInv, Next
  <2> QED
    BY <2>1, <2>2, <2>3 DEF SweepWithFills
<1>5. CASE UNCHANGED <<vars, registryVars>>
  BY <1>5 DEF registryVars, RegistryInv
<1> QED
  BY <1>1, <1>2, <1>3, <1>4, <1>5 DEF FillsNext

\* The program composed with the mock swap program takes steps of Spec only.  Nothing is
\* asked of the fills: the mock may overwrite them, or report one that is not the fill of
\* the SOL that is swept and is worth more 2Z than the journal records.  Neither the mock
\* nor try_sweep_distribution_tokens compares the reported 2Z with the record; only the
\* token program compares the transfer with the balance of the account.
THEOREM SwapImplementsProgram ==
  ASSUME FILLS_CAPACITY \in Nat \ {0}, 0 \in TokenAmounts
  PROVE  FillsSpec => Spec
<1>1. FillsInit => RegistryInv /\ Init
  BY DEF FillsInit, RegistryInv, NoFill, Slots
<1>2. RegistryInv /\ [FillsNext]_<<vars, registryVars>> => RegistryInv' /\ [Next]_vars
  BY SwapSteps
<1> QED
  BY <1>1, <1>2, PTL DEF FillsSpec, Spec

\* The books are right under every report of the mock swap program, the faulty ones that
\* FillsBackSwapDestination shows included: every 2Z that was swapped or donated is in the
\* swap destination or was credited to a swept distribution, and the journal's record is
\* that of the swaps, also after its unchecked subtraction has wrapped.
THEOREM FaultyFillsKeepTheBooks ==
  ASSUME FILLS_CAPACITY \in Nat \ {0}, 0 \in TokenAmounts
  PROVE  FillsSpec => [](TokenConservation /\ SwapDestinationTracked)
<1>1. FillsSpec => Spec
  BY SwapImplementsProgram
<1> QED
  BY <1>1, TokensAreConserved, SwapDestinationIsTracked, PTL
==============================================================================
