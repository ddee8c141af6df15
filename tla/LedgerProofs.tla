---------------------------- MODULE LedgerProofs ----------------------------
(***************************************************************************)
(* The program implements the settlement ledger, for all values of the     *)
(* constants: the initial state is the ledger's and every instruction is a *)
(* step of the ledger or leaves it alone.                                  *)
(***************************************************************************)
EXTENDS SolConservationProofs

\* The debt of an epoch is final only once the epoch exists: the epoch that
\* InitializeDistribution creates is one the ledger has not opened yet.
FinalizedExist == \A e \in Epochs : is_debt_calculation_finalized[e] => exists(e)

LedgerInv == TypeInv /\ SolBooks /\ FinalizedExist

\* What the ledger's phases depend on.
phaseVars == <<has_swept_2z_tokens, is_rewards_calculation_finalized,
               is_debt_calculation_finalized, next_completed_dz_epoch>>

\* The balances of the ledger.
balanceVars == <<total_sol_balance, swapped_sol_amount, swap_destination_2z,
                 next_dz_epoch_to_sweep_tokens, distribution_2z>>

\* The debts of the ledger.
owedVars == <<total_solana_validator_debt, uncollectible_sol_debt>>

LedgerStep == [Ledger!LedgerNext]_(Ledger!ledgerVars)

\* A step that leaves the flags and the epoch counter alone leaves the phases alone.
LEMMA StablePhases ==
  ASSUME UNCHANGED phaseVars
  PROVE  settlement_phases' = settlement_phases
  BY DEF phaseVars, settlement_phases, settlement_phase, exists

\* A step that leaves the debts alone leaves what is owed alone.
LEMMA StableDebts ==
  ASSUME UNCHANGED owedVars
  PROVE  net_sol_debt' = net_sol_debt
  BY DEF owedVars, net_sol_debt, total_sol_debt

\* A step that touches none of this is a stuttering step of the ledger.
LEMMA LedgerStutter ==
  ASSUME UNCHANGED phaseVars, UNCHANGED balanceVars, UNCHANGED owedVars
  PROVE  LedgerStep
  BY StablePhases, StableDebts DEF LedgerStep, Ledger!ledgerVars, balanceVars

\* The phase of an epoch, read off its flags one at a time.
LEMMA PhaseOf ==
  ASSUME LedgerInv, NEW e \in Epochs
  PROVE  /\ has_swept_2z_tokens[e] => settlement_phases[e] = "swept"
         /\ ~has_swept_2z_tokens[e] /\ is_rewards_calculation_finalized[e]
              => settlement_phases[e] = "approved"
         /\ ~is_rewards_calculation_finalized[e] /\ is_debt_calculation_finalized[e]
              => settlement_phases[e] = "owed"
         /\ ~is_debt_calculation_finalized[e] /\ exists(e) => settlement_phases[e] = "open"
         /\ ~exists(e) => settlement_phases[e] = "pending"
  BY DEF LedgerInv, SolBooks, PhaseOrder, FinalizedExist, settlement_phases, settlement_phase

\* What an epoch owes is a natural number.
LEMMA OwedType ==
  ASSUME TypeInv, SolBooks, NEW e \in Epochs
  PROVE  net_sol_debt[e] = total_sol_debt(e) /\ total_sol_debt(e) \in Nat
  BY DEF TypeInv, TypeOK, CalculatedDebtTypeOK, SettledDebtTypeOK, total_sol_debt,
         SolBooks, WriteOffConservation, is_total_sol_debt_some, net_sol_debt

\* The phases change at one epoch when the flags of that epoch change.
LEMMA PhaseChange ==
  ASSUME NEW e \in Epochs, NEW new_phase,
         \A d \in Epochs : d # e => settlement_phase(d)' = settlement_phase(d),
         settlement_phase(e)' = new_phase
  PROVE  settlement_phases' = [settlement_phases EXCEPT ![e] = new_phase]
<1>1. settlement_phases' = [d \in Epochs |-> settlement_phase(d)']
  BY DEF settlement_phases
<1> QED
  BY <1>1 DEF settlement_phases

(***************************************************************************)
(* The instructions.                                                       *)
(***************************************************************************)

\* InitializeDistribution opens an epoch with the prepaid 2Z.
LEMMA InitializeDistributionLedger ==
  ASSUME LedgerInv, InitializeDistribution
  PROVE  LedgerStep
<1> USE DEF InitializeDistribution
<1>0. next_completed_dz_epoch \in Epochs
  BY BoundsAssumption DEF LedgerInv, TypeInv, TypeOK, ConfigTypeOK, Epochs
<1>1. PICK e \in Epochs : e = next_completed_dz_epoch
  BY <1>0
<1>2. /\ UNCHANGED <<has_swept_2z_tokens, is_rewards_calculation_finalized,
                     is_debt_calculation_finalized, owedVars, total_sol_balance,
                     swapped_sol_amount, swap_destination_2z,
                     next_dz_epoch_to_sweep_tokens>>
      /\ next_completed_dz_epoch' = e + 1
      /\ distribution_2z' = [distribution_2z EXCEPT ![e] = @ + journal_ata_2z]
  BY <1>1 DEF sweepVars, rewardsVars, debtVars, calculatedDebtVars, settledDebtVars, owedVars,
              solVars, swapVars, move_prepaid_2z
<1>3. e \in Int /\ ~exists(e)
  BY <1>1, BoundsAssumption DEF Epochs, exists
<1>4. settlement_phases' = [settlement_phases EXCEPT ![e] = "open"]
  <2>1. ~has_swept_2z_tokens[e] /\ ~is_rewards_calculation_finalized[e]
        /\ ~is_debt_calculation_finalized[e]
    BY <1>3 DEF LedgerInv, SolBooks, PhaseOrder, FinalizedExist
  <2>2. settlement_phase(e)' = "open"
    BY <1>2, <1>3, <2>1 DEF settlement_phase, exists
  <2>3. ASSUME NEW d \in Epochs, d # e PROVE settlement_phase(d)' = settlement_phase(d)
    <3>1. d < e + 1 <=> d < e
      BY <1>3, <2>3, BoundsAssumption DEF Epochs
    <3> QED
      BY <1>1, <1>2, <3>1 DEF settlement_phase, exists
  <2> QED
    BY <2>2, <2>3, PhaseChange
<1>5. distribution_2z \in [Epochs -> Nat] /\ journal_ata_2z \in Nat
  BY DEF LedgerInv, TypeInv, TypeOK, PrepaidTypeOK
<1>6. distribution_2z'[e] >= distribution_2z[e]
      /\ distribution_2z' = [distribution_2z EXCEPT ![e] = distribution_2z'[e]]
  BY <1>2, <1>5
<1>7. Ledger!Open(e)
  BY <1>2, <1>3, <1>4, <1>6, PhaseOf, StableDebts DEF Ledger!Open, Ledger!OnlyAt
<1> QED
  BY <1>7 DEF LedgerStep, Ledger!LedgerNext

\* ConfigureDistributionDebt assesses the debt of an open epoch.
LEMMA ConfigureDistributionDebtLedger ==
  ASSUME LedgerInv, NEW e \in Epochs, NEW calculation \in DebtCalculation,
         ConfigureDistributionDebt(e, calculation)
  PROVE  LedgerStep
<1> USE DEF ConfigureDistributionDebt
<1>1. UNCHANGED phaseVars /\ UNCHANGED balanceVars /\ UNCHANGED uncollectible_sol_debt
  BY DEF phaseVars, balanceVars, configVars, rewardsVars, sweepVars, solVars, swapVars,
         settledDebtVars
<1>2. settlement_phases[e] = "open"
  BY PhaseOf DEF try_require_unfinalized_debt_calculation
<1>3. /\ total_solana_validator_debt \in [Epochs -> Nat] /\ calculation.debt \in Nat
      /\ uncollectible_sol_debt \in [Epochs -> Nat]
      /\ total_solana_validator_debt' =
           [total_solana_validator_debt EXCEPT ![e] = calculation.debt]
      /\ uncollectible_sol_debt[e] = 0
  BY DEF LedgerInv, TypeInv, TypeOK, CalculatedDebtTypeOK, SettledDebtTypeOK, DebtCalculation,
         SolBooks, PhaseOrder, try_require_unfinalized_debt_calculation
<1>4. net_sol_debt' = [d \in Epochs |-> total_solana_validator_debt'[d] - uncollectible_sol_debt[d]]
  BY <1>1 DEF net_sol_debt, total_sol_debt
<1>5. net_sol_debt'[e] \in Nat /\ net_sol_debt' = [net_sol_debt EXCEPT ![e] = net_sol_debt'[e]]
  <2>1. net_sol_debt = [d \in Epochs |-> total_solana_validator_debt[d] - uncollectible_sol_debt[d]]
    BY DEF net_sol_debt, total_sol_debt
  <2> QED
    BY <1>3, <1>4, <2>1
<1>6. Ledger!Assess(e)
  BY <1>1, <1>2, <1>5, StablePhases DEF Ledger!Assess, Ledger!OnlyAt, balanceVars
<1> QED
  BY <1>6 DEF LedgerStep, Ledger!LedgerNext

\* FinalizeDistributionDebt closes the debt of an epoch.
LEMMA FinalizeDistributionDebtLedger ==
  ASSUME LedgerInv, NEW e \in Epochs, FinalizeDistributionDebt(e)
  PROVE  LedgerStep
<1> USE DEF FinalizeDistributionDebt
<1>1. /\ UNCHANGED <<has_swept_2z_tokens, is_rewards_calculation_finalized,
                     next_completed_dz_epoch>>
      /\ UNCHANGED balanceVars /\ UNCHANGED owedVars
  BY DEF sweepVars, rewardsVars, configVars, balanceVars, owedVars, solVars, swapVars,
         settledDebtVars
<1>2. /\ is_debt_calculation_finalized \in [Epochs -> BOOLEAN]
      /\ is_debt_calculation_finalized' = [is_debt_calculation_finalized EXCEPT ![e] = TRUE]
  BY DEF LedgerInv, TypeInv, TypeOK, CalculatedDebtTypeOK
<1>3. settlement_phases[e] = "open" /\ ~is_debt_calculation_finalized[e]
  BY PhaseOf DEF try_require_unfinalized_debt_calculation
<1>4. settlement_phases' = [settlement_phases EXCEPT ![e] = "owed"]
  <2>1. ~has_swept_2z_tokens[e] /\ ~is_rewards_calculation_finalized[e]
    BY <1>3 DEF LedgerInv, SolBooks, PhaseOrder
  <2>2. settlement_phase(e)' = "owed"
    BY <1>1, <1>2, <2>1 DEF settlement_phase
  <2>3. \A d \in Epochs : d # e => settlement_phase(d)' = settlement_phase(d)
    BY <1>1, <1>2 DEF settlement_phase, exists
  <2> QED
    BY <2>2, <2>3, PhaseChange
<1>5. Ledger!CloseDebt(e)
  BY <1>1, <1>3, <1>4, StableDebts DEF Ledger!CloseDebt, balanceVars
<1> QED
  BY <1>5 DEF LedgerStep, Ledger!LedgerNext

\* FinalizeDistributionRewards approves an epoch whose debt is closed.
LEMMA FinalizeDistributionRewardsLedger ==
  ASSUME LedgerInv, NEW e \in Epochs, FinalizeDistributionRewards(e)
  PROVE  LedgerStep
<1> USE DEF FinalizeDistributionRewards
<1>1. /\ UNCHANGED <<has_swept_2z_tokens, is_debt_calculation_finalized,
                     next_completed_dz_epoch>>
      /\ UNCHANGED balanceVars /\ UNCHANGED owedVars
  BY DEF sweepVars, debtVars, calculatedDebtVars, settledDebtVars, configVars, balanceVars,
         owedVars, solVars, swapVars
<1>2. /\ is_rewards_calculation_finalized \in [Epochs -> BOOLEAN]
      /\ is_rewards_calculation_finalized' = [is_rewards_calculation_finalized EXCEPT ![e] = TRUE]
  BY DEF LedgerInv, TypeInv, TypeOK, RewardsTypeOK
<1>3. settlement_phases[e] = "owed" /\ ~is_rewards_calculation_finalized[e]
  BY PhaseOf DEF try_require_unfinalized_rewards_calculation,
                 try_require_finalized_debt_calculation
<1>4. settlement_phases' = [settlement_phases EXCEPT ![e] = "approved"]
  <2>1. ~has_swept_2z_tokens[e]
    BY <1>3 DEF LedgerInv, SolBooks, PhaseOrder
  <2>2. settlement_phase(e)' = "approved"
    BY <1>1, <1>2, <2>1 DEF settlement_phase
  <2>3. \A d \in Epochs : d # e => settlement_phase(d)' = settlement_phase(d)
    BY <1>1, <1>2 DEF settlement_phase, exists
  <2> QED
    BY <2>2, <2>3, PhaseChange
<1>5. Ledger!Approve(e)
  BY <1>1, <1>3, <1>4, StableDebts DEF Ledger!Approve, balanceVars
<1> QED
  BY <1>5 DEF LedgerStep, Ledger!LedgerNext

\* PaySolanaValidatorDebt receives SOL for an epoch whose debt is closed.
LEMMA PaySolanaValidatorDebtLedger ==
  ASSUME LedgerInv, NEW e \in Epochs, NEW i \in Nat, NEW n \in Nodes, NEW amount \in Nat,
         PaySolanaValidatorDebt(e, i, n, amount)
  PROVE  LedgerStep
<1> USE DEF PaySolanaValidatorDebt
<1>1. /\ UNCHANGED phaseVars /\ UNCHANGED owedVars
      /\ UNCHANGED <<swapped_sol_amount, swap_destination_2z,
                     next_dz_epoch_to_sweep_tokens, distribution_2z>>
  BY DEF phaseVars, owedVars, sweepVars, rewardsVars, calculatedDebtVars, configVars, swapVars
<1>2. total_sol_balance' >= total_sol_balance
  BY DEF LedgerInv, TypeInv, TypeOK, SolTypeOK
<1>3. settlement_phases[e] \in {"owed", "approved", "swept"}
  <2>1. is_debt_calculation_finalized[e]
    BY DEF try_require_finalized_debt_calculation
  <2> QED
    BY <2>1, PhaseOf
<1>4. Ledger!Receive(e)
  BY <1>1, <1>2, <1>3, StablePhases, StableDebts DEF Ledger!Receive
<1> QED
  BY <1>4 DEF LedgerStep, Ledger!LedgerNext

\* WriteOffSolanaValidatorDebt forgives debt of the epoch that the loss is charged to.
LEMMA WriteOffSolanaValidatorDebtLedger ==
  ASSUME LedgerInv, NEW e \in Epochs, NEW i \in Nat, NEW n \in Nodes, NEW amount \in Nat,
         NEW w \in Epochs, WriteOffSolanaValidatorDebt(e, i, n, amount, w)
  PROVE  LedgerStep
<1> USE DEF WriteOffSolanaValidatorDebt
<1>1. UNCHANGED phaseVars /\ UNCHANGED balanceVars /\ UNCHANGED total_solana_validator_debt
  BY DEF phaseVars, balanceVars, sweepVars, rewardsVars, calculatedDebtVars, configVars,
         swapVars, solVars
<1>2. /\ ~has_swept_2z_tokens[w] /\ is_debt_calculation_finalized[w]
      /\ total_solana_validator_debt[w] >= uncollectible_sol_debt[w] + amount
  BY DEF can_charge_write_off, try_require_has_not_swept_2z_tokens,
         try_require_finalized_debt_calculation
<1>3. settlement_phases[w] \in {"owed", "approved"}
  BY <1>2, PhaseOf
<1>4. /\ total_solana_validator_debt \in [Epochs -> Nat]
      /\ uncollectible_sol_debt \in [Epochs -> Nat]
      /\ uncollectible_sol_debt' = [uncollectible_sol_debt EXCEPT ![w] = @ + amount]
  BY DEF LedgerInv, TypeInv, TypeOK, CalculatedDebtTypeOK, SettledDebtTypeOK
<1>5. /\ net_sol_debt = [d \in Epochs |-> total_solana_validator_debt[d] - uncollectible_sol_debt[d]]
      /\ net_sol_debt' = [d \in Epochs |-> total_solana_validator_debt[d] - uncollectible_sol_debt'[d]]
  BY <1>1 DEF net_sol_debt, total_sol_debt
<1>6. /\ net_sol_debt'[w] \in 0..net_sol_debt[w]
      /\ net_sol_debt' = [net_sol_debt EXCEPT ![w] = net_sol_debt'[w]]
  BY <1>2, <1>4, <1>5
<1>7. Ledger!Forgive(w)
  BY <1>1, <1>3, <1>6, StablePhases DEF Ledger!Forgive, Ledger!OnlyAt, balanceVars
<1> QED
  BY <1>7 DEF LedgerStep, Ledger!LedgerNext

\* WithdrawSol exchanges SOL for 2Z.
LEMMA WithdrawSolLedger ==
  ASSUME LedgerInv, NEW amount \in Nat, NEW transfer_amount \in Nat,
         WithdrawSol(amount, transfer_amount)
  PROVE  LedgerStep
<1> USE DEF WithdrawSol
<1>1. /\ UNCHANGED phaseVars /\ UNCHANGED owedVars
      /\ UNCHANGED <<next_dz_epoch_to_sweep_tokens, distribution_2z>>
  BY DEF phaseVars, owedVars, sweepVars, rewardsVars, debtVars, calculatedDebtVars,
         settledDebtVars, configVars
<1>2. /\ total_sol_balance' \in 0..total_sol_balance
      /\ swapped_sol_amount' = swapped_sol_amount + (total_sol_balance - total_sol_balance')
      /\ swap_destination_2z' >= swap_destination_2z
  BY DEF LedgerInv, TypeInv, TypeOK, SolTypeOK, SwapTypeOK, can_withdraw_sol
<1>3. Ledger!Exchange
  BY <1>1, <1>2, StablePhases, StableDebts DEF Ledger!Exchange
<1> QED
  BY <1>3 DEF LedgerStep, Ledger!LedgerNext

\* A transfer to the swap destination is a gift to the pool.
LEMMA DonateTwoZLedger ==
  ASSUME LedgerInv, NEW amount \in Nat, DonateTwoZ(amount)
  PROVE  LedgerStep
<1> USE DEF DonateTwoZ
<1>1. /\ UNCHANGED phaseVars /\ UNCHANGED owedVars
      /\ UNCHANGED <<total_sol_balance, swapped_sol_amount, next_dz_epoch_to_sweep_tokens,
                     distribution_2z>>
  BY DEF phaseVars, owedVars, sweepVars, rewardsVars, debtVars, calculatedDebtVars,
         settledDebtVars, configVars, solVars
<1>2. swap_destination_2z' >= swap_destination_2z
  BY DEF LedgerInv, TypeInv, TypeOK, SwapTypeOK
<1>3. Ledger!Give
  BY <1>1, <1>2, StablePhases, StableDebts DEF Ledger!Give
<1> QED
  BY <1>3 DEF LedgerStep, Ledger!LedgerNext

\* SweepDistributionTokens sweeps the next epoch at its net debt.
LEMMA SweepDistributionTokensLedger ==
  ASSUME LedgerInv, NEW e \in Epochs, NEW token_2z_amount \in Nat,
         SweepDistributionTokens(e, token_2z_amount)
  PROVE  LedgerStep
<1> USE DEF SweepDistributionTokens
<1>1. /\ UNCHANGED <<is_rewards_calculation_finalized, is_debt_calculation_finalized,
                     next_completed_dz_epoch, total_sol_balance>>
      /\ UNCHANGED owedVars
  BY DEF owedVars, rewardsVars, debtVars, calculatedDebtVars, settledDebtVars, configVars
<1>2. /\ ~has_swept_2z_tokens[e] /\ is_rewards_calculation_finalized[e]
      /\ e = next_dz_epoch_to_sweep_tokens
      /\ has_swept_2z_tokens \in [Epochs -> BOOLEAN]
      /\ has_swept_2z_tokens' = [has_swept_2z_tokens EXCEPT ![e] = TRUE]
  BY DEF can_sweep, try_require_has_not_swept_2z_tokens, LedgerInv, TypeInv, TypeOK, SweepTypeOK
<1>3. settlement_phases' = [settlement_phases EXCEPT ![e] = "swept"]
  <2>1. settlement_phase(e)' = "swept"
    BY <1>2 DEF settlement_phase
  <2>2. \A d \in Epochs : d # e => settlement_phase(d)' = settlement_phase(d)
    BY <1>1, <1>2 DEF settlement_phase, exists
  <2> QED
    BY <2>1, <2>2, PhaseChange
<1>4. settlement_phases[e] = "approved"
  BY <1>2, PhaseOf
<1>5. net_sol_debt[e] = total_sol_debt(e) /\ total_sol_debt(e) \in Nat
  BY OwedType DEF LedgerInv
<1>6. /\ swapped_sol_amount \in Nat /\ swap_destination_2z \in Nat
      /\ distribution_2z \in [Epochs -> Nat]
  BY DEF LedgerInv, TypeInv, TypeOK, SolTypeOK, SwapTypeOK
<1>7. /\ total_sol_debt(e) <= swapped_sol_amount
      /\ swapped_sol_amount' = swapped_sol_amount - total_sol_debt(e)
      /\ swap_destination_2z' \in 0..swap_destination_2z
      /\ total_sol_debt(e) = 0 => swap_destination_2z' = swap_destination_2z
      /\ distribution_2z' = [distribution_2z EXCEPT ![e] =
           @ + (swap_destination_2z - swap_destination_2z')]
  <2>1. CASE total_sol_debt(e) = 0
    BY <1>6, <2>1
  <2>2. CASE total_sol_debt(e) # 0
    BY <1>5, <1>6, <2>2 DEF covers_sol_debt, is_transfer_funded, move_swept_2z
  <2> QED
    BY <2>1, <2>2
<1>8. Ledger!SweepNext(e)
  BY <1>1, <1>2, <1>3, <1>4, <1>5, <1>7, StableDebts DEF Ledger!SweepNext
<1> QED
  BY <1>8 DEF LedgerStep, Ledger!LedgerNext

\* CollectIntegrationRewards deposits 2Z into an epoch that exists.
LEMMA CollectIntegrationRewardsLedger ==
  ASSUME LedgerInv, NEW e \in Epochs, NEW p \in Integrations, NEW collected_amount \in Nat,
         CollectIntegrationRewards(e, p, collected_amount)
  PROVE  LedgerStep
<1> USE DEF CollectIntegrationRewards
<1>1. /\ UNCHANGED phaseVars /\ UNCHANGED owedVars
      /\ UNCHANGED <<total_sol_balance, swapped_sol_amount, swap_destination_2z,
                     next_dz_epoch_to_sweep_tokens>>
  BY DEF phaseVars, owedVars, sweepVars, rewardsVars, debtVars, calculatedDebtVars,
         settledDebtVars, configVars, solVars, swapVars
<1>2. settlement_phases[e] # "pending"
  BY PhaseOf
<1>3. distribution_2z \in [Epochs -> Nat]
  BY DEF LedgerInv, TypeInv, TypeOK
<1>4. /\ distribution_2z'[e] >= distribution_2z[e]
      /\ distribution_2z' = [distribution_2z EXCEPT ![e] = distribution_2z'[e]]
  BY <1>3
<1>5. Ledger!Deposit(e)
  BY <1>1, <1>2, <1>4, StablePhases, StableDebts DEF Ledger!Deposit, Ledger!OnlyAt
<1> QED
  BY <1>5 DEF LedgerStep, Ledger!LedgerNext

\* DistributeRewards pays out of a swept epoch no more than it holds.
LEMMA DistributeRewardsLedger ==
  ASSUME LedgerInv, NEW e \in Epochs, NEW i \in Nat, NEW leaf \in RewardLeaf,
         DistributeRewards(e, i, leaf)
  PROVE  LedgerStep
<1> USE DEF DistributeRewards
<1>1. /\ UNCHANGED phaseVars /\ UNCHANGED owedVars
      /\ UNCHANGED <<total_sol_balance, swapped_sol_amount, swap_destination_2z,
                     next_dz_epoch_to_sweep_tokens>>
  BY DEF phaseVars, owedVars, sweepVars, rewardsVars, debtVars, calculatedDebtVars,
         settledDebtVars, configVars, solVars, swapVars
<1>2. settlement_phases[e] = "swept"
  BY PhaseOf DEF can_distribute
<1> DEFINE transferred == transferred_share_amount(e, leaf)
           burned == burned_share_amount(e, leaf)
<1>3. /\ transferred \in Nat /\ burned \in Nat
      /\ distribution_2z[e] >= transferred + burned
  BY RewardSplit DEF LedgerInv
<1>4. distribution_2z \in [Epochs -> Nat]
      /\ distribution_2z' = [distribution_2z EXCEPT ![e] = @ - transferred - burned]
  BY DEF LedgerInv, TypeInv, TypeOK
<1>5. /\ distribution_2z'[e] \in 0..distribution_2z[e]
      /\ distribution_2z' = [distribution_2z EXCEPT ![e] = distribution_2z'[e]]
  <2> HIDE DEF transferred, burned
  <2> QED
    BY <1>3, <1>4
<1>6. Ledger!Payout(e)
  BY <1>1, <1>2, <1>5, StablePhases, StableDebts DEF Ledger!Payout, Ledger!OnlyAt
<1> QED
  BY <1>6 DEF LedgerStep, Ledger!LedgerNext

(***************************************************************************)
(* The specification.                                                      *)
(***************************************************************************)

\* The steps the ledger does not see.
SilentStep ==
  \/ Tick
  \/ ConfigureProgram
  \/ \E amount \in TokenAmounts : PrepayTwoZ(amount)
  \/ \E distributions \in SUBSET Epochs : MigrateProgramAccounts(distributions)
  \/ \E n \in Nodes, amount \in FundAmounts : FundSolanaValidatorDeposit(n, amount)
  \/ \E n \in Nodes : InitializeSolanaValidatorDeposit(n)
  \/ \E n \in Nodes : WithdrawSolanaValidatorDeposit(n)
  \/ \E p \in Integrations : InitializeRewardsIntegration(p)
  \/ \E c \in Contributors, shares \in RecipientSettings : ConfigureRecipients(c, shares)
  \/ \E e \in Epochs : EnableSolanaValidatorDebtWriteOff(e)
  \/ \E e \in Epochs, calculation \in RewardsCalculations :
        ConfigureDistributionRewards(e, calculation)
  \/ \E e \in Epochs, rate \in EconomicBurnRates : SetDistributionEconomicBurnRate(e, rate)

\* Silent steps change no flag, no balance and no debt of the ledger.
LEMMA SilentSteps ==
  ASSUME SilentStep
  PROVE  UNCHANGED phaseVars /\ UNCHANGED balanceVars /\ UNCHANGED owedVars
<1> USE DEF phaseVars, balanceVars, owedVars, solVars, swapVars, debtVars,
            calculatedDebtVars, settledDebtVars, rewardsVars, sweepVars
<1>1. CASE Tick
  BY <1>1 DEF Tick, configVars
<1>2. CASE ConfigureProgram
  <2>1. UNCHANGED next_completed_dz_epoch
    BY <1>2 DEF ConfigureProgram, ConfigurePaused, ConfigureParameter,
                ConfigureCommunityBurnRate, InitializeCommunityBurnRate
  <2> QED
    BY <1>2, <2>1 DEF ConfigureProgram
<1>3. CASE \E amount \in TokenAmounts : PrepayTwoZ(amount)
  BY <1>3 DEF PrepayTwoZ, configVars
<1>4. CASE \E distributions \in SUBSET Epochs : MigrateProgramAccounts(distributions)
  BY <1>4 DEF MigrateProgramAccounts, configVars
<1>5. CASE \E n \in Nodes, amount \in FundAmounts : FundSolanaValidatorDeposit(n, amount)
  BY <1>5 DEF FundSolanaValidatorDeposit, configVars
<1>6. CASE \E n \in Nodes : InitializeSolanaValidatorDeposit(n)
  BY <1>6 DEF InitializeSolanaValidatorDeposit, configVars
<1>7. CASE \E n \in Nodes : WithdrawSolanaValidatorDeposit(n)
  BY <1>7 DEF WithdrawSolanaValidatorDeposit, configVars
<1>8. CASE \E p \in Integrations : InitializeRewardsIntegration(p)
  BY <1>8 DEF InitializeRewardsIntegration, configVars
<1>9. CASE \E c \in Contributors, shares \in RecipientSettings : ConfigureRecipients(c, shares)
  BY <1>9 DEF ConfigureRecipients, configVars
<1>10. CASE \E e \in Epochs : EnableSolanaValidatorDebtWriteOff(e)
  BY <1>10 DEF EnableSolanaValidatorDebtWriteOff, configVars
<1>11. CASE \E e \in Epochs, calculation \in RewardsCalculations :
              ConfigureDistributionRewards(e, calculation)
  BY <1>11 DEF ConfigureDistributionRewards, configVars
<1>12. CASE \E e \in Epochs, rate \in EconomicBurnRates : SetDistributionEconomicBurnRate(e, rate)
  BY <1>12 DEF SetDistributionEconomicBurnRate, configVars
<1> QED
  BY <1>1, <1>2, <1>3, <1>4, <1>5, <1>6, <1>7, <1>8, <1>9, <1>10, <1>11, <1>12
     DEF SilentStep

\* The other steps, by what they do to the phases: only two of them finalize a debt or
\* complete an epoch.
LEMMA NextFinalizedExist ==
  ASSUME LedgerInv, Next
  PROVE  FinalizedExist'
<1> USE DEF phaseVars, configVars, debtVars, calculatedDebtVars
<1>1. /\ next_completed_dz_epoch \in Int /\ Epochs \subseteq Int
      /\ is_debt_calculation_finalized \in [Epochs -> BOOLEAN]
  BY BoundsAssumption
     DEF LedgerInv, TypeInv, TypeOK, ConfigTypeOK, CalculatedDebtTypeOK, Epochs
<1>2. CASE UNCHANGED <<is_debt_calculation_finalized, next_completed_dz_epoch>>
  BY <1>2 DEF LedgerInv, FinalizedExist, exists
<1>3. CASE SilentStep
  BY <1>2, <1>3, SilentSteps
<1>4. CASE InitializeDistribution
  <2>1. UNCHANGED is_debt_calculation_finalized
    BY <1>4 DEF InitializeDistribution
  <2>2. next_completed_dz_epoch' = next_completed_dz_epoch + 1
    BY <1>4 DEF InitializeDistribution
  <2> QED
    BY <1>1, <2>1, <2>2 DEF LedgerInv, FinalizedExist, exists
<1>5. CASE \E e \in Epochs : FinalizeDistributionDebt(e)
  <2>1. PICK e \in Epochs : FinalizeDistributionDebt(e)
    BY <1>5
  <2>2. /\ exists(e) /\ UNCHANGED next_completed_dz_epoch
        /\ is_debt_calculation_finalized' = [is_debt_calculation_finalized EXCEPT ![e] = TRUE]
    BY <2>1 DEF FinalizeDistributionDebt
  <2> QED
    BY <1>1, <2>2 DEF LedgerInv, FinalizedExist, exists
<1>6. CASE SwapSol
  BY <1>2, <1>6 DEF SwapSol, WithdrawSol
<1>7. CASE \E e \in Epochs, calculation \in DebtCalculations :
              ConfigureDistributionDebt(e, calculation)
  BY <1>2, <1>7 DEF ConfigureDistributionDebt
<1>8. CASE \E e \in Epochs : PayDebt(e)
  BY <1>2, <1>8 DEF PayDebt, PaySolanaValidatorDebt
<1>9. CASE \E e \in Epochs : WriteOffDebt(e)
  BY <1>2, <1>9 DEF WriteOffDebt, WriteOffSolanaValidatorDebt
<1>10. CASE \E e \in Epochs : FinalizeDistributionRewards(e)
  BY <1>2, <1>10 DEF FinalizeDistributionRewards
<1>11. CASE \E e \in Epochs : DistributeReward(e)
  BY <1>2, <1>11 DEF DistributeReward, DistributeRewards
<1>12. CASE \E e \in Epochs : Sweep(e)
  BY <1>2, <1>12 DEF Sweep, SweepDistributionTokens
<1>13. CASE \E e \in Epochs, p \in Integrations : Collect(e, p)
  BY <1>2, <1>13 DEF Collect, CollectIntegrationRewards
<1>14. CASE \E amount \in TokenAmounts : DonateTwoZ(amount)
  BY <1>2, <1>14 DEF DonateTwoZ
<1> QED
  BY <1>3, <1>4, <1>5, <1>6, <1>7, <1>8, <1>9, <1>10, <1>11, <1>12, <1>13, <1>14
     DEF Next, OwnStep, SilentStep

\* Every step of the program is a step of the ledger.
LEMMA NextLedger ==
  ASSUME LedgerInv, Next
  PROVE  LedgerStep
<1>1. /\ SwapAmounts \subseteq Nat /\ TokenAmounts \subseteq Nat
      /\ DebtCalculations \subseteq DebtCalculation
  BY BoundsAssumption, InputsAssumption
<1>2. CASE SilentStep
  BY <1>2, SilentSteps, LedgerStutter
<1>3. CASE InitializeDistribution
  BY <1>3, InitializeDistributionLedger
<1>4. CASE SwapSol
  BY <1>1, <1>4, WithdrawSolLedger DEF SwapSol
<1>5. CASE \E e \in Epochs, calculation \in DebtCalculations :
              ConfigureDistributionDebt(e, calculation)
  BY <1>1, <1>5, ConfigureDistributionDebtLedger
<1>6. CASE \E e \in Epochs : FinalizeDistributionDebt(e)
  BY <1>6, FinalizeDistributionDebtLedger
<1>7. CASE \E e \in Epochs : PayDebt(e)
  BY <1>7, InputTypes, PaySolanaValidatorDebtLedger DEF PayDebt
<1>8. CASE \E e \in Epochs : WriteOffDebt(e)
  BY <1>8, InputTypes, WriteOffSolanaValidatorDebtLedger DEF WriteOffDebt
<1>9. CASE \E e \in Epochs : FinalizeDistributionRewards(e)
  BY <1>9, FinalizeDistributionRewardsLedger
<1>10. CASE \E e \in Epochs : DistributeReward(e)
  BY <1>10, InputTypes, DistributeRewardsLedger DEF DistributeReward
<1>11. CASE \E e \in Epochs : Sweep(e)
  BY <1>1, <1>11, SweepDistributionTokensLedger DEF Sweep
<1>12. CASE \E e \in Epochs, p \in Integrations : Collect(e, p)
  BY <1>1, <1>12, CollectIntegrationRewardsLedger DEF Collect
<1>13. CASE \E amount \in TokenAmounts : DonateTwoZ(amount)
  BY <1>1, <1>13, DonateTwoZLedger
<1> QED
  BY <1>2, <1>3, <1>4, <1>5, <1>6, <1>7, <1>8, <1>9, <1>10, <1>11, <1>12, <1>13
     DEF Next, OwnStep, SilentStep

\* Initially no epoch of the ledger is open and all its balances are zero.
LEMMA InitLedger ==
  ASSUME Init
  PROVE  Ledger!LedgerInit /\ FinalizedExist
<1> USE DEF Init, NoFlag, NoAmount
<1>1. settlement_phases = [e \in Epochs |-> "pending"]
  <2>1. ASSUME NEW e \in Epochs PROVE ~exists(e) /\ settlement_phase(e) = "pending"
    BY BoundsAssumption DEF settlement_phase, exists, Epochs
  <2> QED
    BY <2>1 DEF settlement_phases
<1>2. net_sol_debt = [e \in Epochs |-> 0]
  BY DEF net_sol_debt, total_sol_debt
<1>3. FinalizedExist
  BY DEF FinalizedExist
<1> QED
  BY <1>1, <1>2, <1>3 DEF Ledger!LedgerInit

\* Debts are final only in epochs that exist, in every reachable state.
THEOREM FinalizedExistInvariance == Spec => []FinalizedExist
<1>1. Init => FinalizedExist
  BY InitLedger
<1>2. TypeInv /\ SolBooks /\ FinalizedExist /\ [Next]_vars => FinalizedExist'
  <2>1. UNCHANGED vars => UNCHANGED <<is_debt_calculation_finalized, next_completed_dz_epoch>>
    BY DEF vars, configVars, debtVars, calculatedDebtVars
  <2>2. UNCHANGED <<is_debt_calculation_finalized, next_completed_dz_epoch>> /\ FinalizedExist
          => FinalizedExist'
    BY DEF FinalizedExist, exists
  <2> QED
    BY <2>1, <2>2, NextFinalizedExist DEF LedgerInv
<1> QED
  BY <1>1, <1>2, TypeInvariance, BooksInvariance, PTL DEF Spec

\* For any number of epochs, validators, contributors and integrations and any inputs, the
\* program implements the settlement ledger: epochs are settled phase by phase and swept in
\* order at their net debt, and SOL and 2Z move only as the ledger allows.
THEOREM ProgramImplementsLedger == Spec => ImplementsLedger
<1>1. Init => Ledger!LedgerInit
  BY InitLedger
<1>2. TypeInv /\ SolBooks /\ FinalizedExist /\ [Next]_vars
        => [Ledger!LedgerNext]_(Ledger!ledgerVars)
  <2>1. UNCHANGED vars => UNCHANGED phaseVars /\ UNCHANGED balanceVars /\ UNCHANGED owedVars
    BY DEF vars, configVars, solVars, swapVars, debtVars, calculatedDebtVars, settledDebtVars,
           rewardsVars, sweepVars, phaseVars, balanceVars, owedVars
  <2>2. ASSUME TypeInv, SolBooks, FinalizedExist, [Next]_vars PROVE LedgerStep
    BY <2>1, <2>2, NextLedger, LedgerStutter DEF LedgerInv
  <2> QED
    BY <2>2 DEF LedgerStep
<1> QED
  BY <1>1, <1>2, TypeInvariance, BooksInvariance, FinalizedExistInvariance, PTL
     DEF Spec, ImplementsLedger, Ledger!LedgerSpec
=============================================================================
