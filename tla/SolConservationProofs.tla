------------------------ MODULE SolConservationProofs ------------------------
(***************************************************************************)
(* No SOL is lost and no debt is counted twice, for all values of the      *)
(* constants: the proofs of SolConservation and WriteOffConservation.      *)
(***************************************************************************)
EXTENDS RevenueTypeProofs

\* The sums of the books are sums of finitely many lamports.
FiniteBooks ==
  /\ IsFiniteSet(Units(SweptDebt))
  /\ IsFiniteSet(Units(collected_solana_validator_payments))
  /\ IsFiniteSet(Units(uncollectible_sol_debt))
  /\ IsFiniteSet(Units(written_off_sol_debt))

\* An epoch goes through its phases in order, and nothing is charged to it before its debt
\* is final: this is why a later ConfigureDistributionDebt cannot undo the books.
PhaseOrder ==
  \A e \in Epochs :
    /\ has_swept_2z_tokens[e] => is_rewards_calculation_finalized[e]
    /\ is_rewards_calculation_finalized[e] => is_debt_calculation_finalized[e]
    /\ ~is_debt_calculation_finalized[e] => uncollectible_sol_debt[e] = 0

SolBooks == FiniteBooks /\ PhaseOrder /\ SolConservation /\ WriteOffConservation

bookVars == <<journal_lamports, total_sol_balance, swapped_sol_amount, written_off_sol_debt,
              is_debt_calculation_finalized, total_solana_validator_debt,
              uncollectible_sol_debt, collected_solana_validator_payments,
              is_rewards_calculation_finalized, has_swept_2z_tokens>>

\* The swept debts are natural numbers.
LEMMA SweptDebtType ==
  ASSUME TypeInv, WriteOffConservation
  PROVE  SweptDebt \in [Epochs -> Nat]
<1>1. ASSUME NEW e \in Epochs PROVE total_sol_debt(e) \in Nat
  BY DEF TypeInv, TypeOK, CalculatedDebtTypeOK, SettledDebtTypeOK, total_sol_debt,
         WriteOffConservation, is_total_sol_debt_some
<1> QED
  BY <1>1 DEF SweptDebt

\* The books are in balance initially.
LEMMA InitBooks ==
  ASSUME Init
  PROVE  SolBooks
<1>1. \A e \in Epochs : SweptDebt[e] = 0
  BY DEF Init, SweptDebt, NoFlag
<1>2. IsFiniteSet(Units(SweptDebt)) /\ Total(SweptDebt) = 0
  BY <1>1, TotalZero DEF SweptDebt
<1>3. /\ IsFiniteSet(Units(collected_solana_validator_payments))
      /\ Total(collected_solana_validator_payments) = 0
  BY TotalZero DEF Init, NoAmount
<1>4. IsFiniteSet(Units(uncollectible_sol_debt)) /\ Total(uncollectible_sol_debt) = 0
  BY TotalZero DEF Init, NoAmount
<1>5. IsFiniteSet(Units(written_off_sol_debt)) /\ Total(written_off_sol_debt) = 0
  BY TotalZero DEF Init
<1>6. PhaseOrder
  BY DEF Init, PhaseOrder, NoFlag, NoAmount
<1>7. SolConservation
  BY <1>2, <1>3 DEF Init, SolConservation
<1>8. WriteOffConservation
  BY <1>4, <1>5 DEF Init, WriteOffConservation, is_total_sol_debt_some, NoAmount
<1> QED
  BY <1>2, <1>3, <1>4, <1>5, <1>6, <1>7, <1>8 DEF SolBooks, FiniteBooks

\* A step that leaves the books alone keeps them in balance.
LEMMA StableBooks ==
  ASSUME SolBooks, UNCHANGED bookVars
  PROVE  SolBooks'
<1> USE DEF bookVars
<1>1. SweptDebt' = SweptDebt
  BY DEF SweptDebt, total_sol_debt
<1>2. FiniteBooks'
  BY <1>1 DEF SolBooks, FiniteBooks
<1>3. PhaseOrder'
  BY DEF SolBooks, PhaseOrder
<1>4. SolConservation'
  BY <1>1 DEF SolBooks, SolConservation
<1>5. WriteOffConservation'
  BY DEF SolBooks, WriteOffConservation, is_total_sol_debt_some
<1> QED
  BY <1>2, <1>3, <1>4, <1>5 DEF SolBooks

\* ConfigureDistributionDebt keeps the books in balance.
LEMMA ConfigureDistributionDebtBooks ==
  ASSUME TypeInv, SolBooks, NEW e \in Epochs, NEW calculation \in DebtCalculation,
         ConfigureDistributionDebt(e, calculation)
  PROVE  SolBooks'
<1> USE DEF ConfigureDistributionDebt
<1>1. UNCHANGED <<journal_lamports, total_sol_balance, swapped_sol_amount,
                  written_off_sol_debt, is_debt_calculation_finalized, uncollectible_sol_debt,
                  collected_solana_validator_payments, is_rewards_calculation_finalized,
                  has_swept_2z_tokens>>
  BY DEF solVars, depositVars, settledDebtVars, rewardsVars, sweepVars
<1>2. /\ total_solana_validator_debt \in [Epochs -> Nat] /\ calculation.debt \in Nat
      /\ uncollectible_sol_debt \in [Epochs -> Nat]
  BY DEF TypeInv, TypeOK, CalculatedDebtTypeOK, SettledDebtTypeOK, DebtCalculation
<1>3. ~is_debt_calculation_finalized[e] /\ ~has_swept_2z_tokens[e] /\ uncollectible_sol_debt[e] = 0
  BY DEF SolBooks, PhaseOrder, try_require_unfinalized_debt_calculation
<1>4. SweptDebt' = SweptDebt
  BY <1>1, <1>2, <1>3 DEF SweptDebt, total_sol_debt
<1>5. FiniteBooks'
  BY <1>1, <1>4 DEF SolBooks, FiniteBooks
<1>6. PhaseOrder'
  BY <1>1 DEF SolBooks, PhaseOrder
<1>7. SolConservation'
  BY <1>1, <1>4 DEF SolBooks, SolConservation
<1>8. WriteOffConservation'
  BY <1>1, <1>2, <1>3 DEF SolBooks, WriteOffConservation, is_total_sol_debt_some
<1> QED
  BY <1>5, <1>6, <1>7, <1>8 DEF SolBooks

\* FinalizeDistributionDebt keeps the books in balance.
LEMMA FinalizeDistributionDebtBooks ==
  ASSUME TypeInv, SolBooks, NEW e \in Epochs, FinalizeDistributionDebt(e)
  PROVE  SolBooks'
<1> USE DEF FinalizeDistributionDebt
<1>1. UNCHANGED <<journal_lamports, total_sol_balance, swapped_sol_amount,
                  written_off_sol_debt, total_solana_validator_debt, uncollectible_sol_debt,
                  collected_solana_validator_payments, is_rewards_calculation_finalized,
                  has_swept_2z_tokens>>
  BY DEF solVars, depositVars, settledDebtVars, rewardsVars, sweepVars
<1>2. SweptDebt' = SweptDebt
  BY <1>1 DEF SweptDebt, total_sol_debt
<1>3. FiniteBooks'
  BY <1>1, <1>2 DEF SolBooks, FiniteBooks
<1>4. PhaseOrder'
  BY <1>1 DEF SolBooks, PhaseOrder, TypeInv, TypeOK, CalculatedDebtTypeOK
<1>5. SolConservation' /\ WriteOffConservation'
  BY <1>1, <1>2 DEF SolBooks, SolConservation, WriteOffConservation, is_total_sol_debt_some
<1> QED
  BY <1>3, <1>4, <1>5 DEF SolBooks

\* FinalizeDistributionRewards keeps the books in balance.
LEMMA FinalizeDistributionRewardsBooks ==
  ASSUME TypeInv, SolBooks, NEW e \in Epochs, FinalizeDistributionRewards(e)
  PROVE  SolBooks'
<1> USE DEF FinalizeDistributionRewards
<1>1. UNCHANGED <<journal_lamports, total_sol_balance, swapped_sol_amount,
                  written_off_sol_debt, is_debt_calculation_finalized,
                  total_solana_validator_debt, uncollectible_sol_debt,
                  collected_solana_validator_payments, has_swept_2z_tokens>>
  BY DEF solVars, depositVars, debtVars, calculatedDebtVars, settledDebtVars, sweepVars
<1>2. SweptDebt' = SweptDebt
  BY <1>1 DEF SweptDebt, total_sol_debt
<1>3. FiniteBooks'
  BY <1>1, <1>2 DEF SolBooks, FiniteBooks
<1>4. PhaseOrder'
  BY <1>1 DEF SolBooks, PhaseOrder, TypeInv, TypeOK, RewardsTypeOK,
              try_require_finalized_debt_calculation
<1>5. SolConservation' /\ WriteOffConservation'
  BY <1>1, <1>2 DEF SolBooks, SolConservation, WriteOffConservation, is_total_sol_debt_some
<1> QED
  BY <1>3, <1>4, <1>5 DEF SolBooks

\* PaySolanaValidatorDebt keeps the books in balance.
LEMMA PaySolanaValidatorDebtBooks ==
  ASSUME TypeInv, SolBooks, NEW e \in Epochs, NEW i \in Nat, NEW n \in Nodes,
         NEW amount \in Nat, PaySolanaValidatorDebt(e, i, n, amount)
  PROVE  SolBooks'
<1> USE DEF PaySolanaValidatorDebt
<1>1. UNCHANGED <<swapped_sol_amount, written_off_sol_debt, is_debt_calculation_finalized,
                  total_solana_validator_debt, uncollectible_sol_debt,
                  is_rewards_calculation_finalized, has_swept_2z_tokens>>
  BY DEF calculatedDebtVars, rewardsVars, sweepVars
<1>2. SweptDebt' = SweptDebt
  BY <1>1 DEF SweptDebt, total_sol_debt
<1> DEFINE f == collected_solana_validator_payments
           g == collected_solana_validator_payments'
<1>3. f \in [Epochs -> Nat] /\ g = [f EXCEPT ![e] = f[e] + amount]
  BY DEF TypeInv, TypeOK, SettledDebtTypeOK
<1>4. IsFiniteSet(Units(f))
  BY DEF SolBooks, FiniteBooks
<1>5. IsFiniteSet(Units(g)) /\ Total(g) = Total(f) + amount /\ Total(f) \in Nat
  <2> HIDE DEF f, g
  <2> QED
    BY <1>3, <1>4, TotalIncrease
<1>6. SolConservation'
  <2>1. total_sol_balance \in Nat /\ swapped_sol_amount \in Nat
    BY DEF TypeInv, TypeOK, SolTypeOK
  <2>2. Total(SweptDebt) \in Nat
    BY FS_CardinalityType DEF SolBooks, FiniteBooks, Total
  <2>3. total_sol_balance + swapped_sol_amount + Total(SweptDebt) = Total(f)
        /\ journal_lamports = total_sol_balance
    BY DEF SolBooks, SolConservation
  <2>4. total_sol_balance' + swapped_sol_amount' + Total(SweptDebt') = Total(g)
    BY <1>1, <1>2, <1>5, <2>1, <2>2, <2>3
  <2> QED
    BY <2>3, <2>4 DEF SolConservation
<1>7. FiniteBooks' /\ PhaseOrder' /\ WriteOffConservation'
  BY <1>1, <1>2, <1>5
     DEF SolBooks, FiniteBooks, PhaseOrder, WriteOffConservation, is_total_sol_debt_some
<1> QED
  BY <1>6, <1>7 DEF SolBooks

\* WithdrawSol keeps the books in balance.
LEMMA WithdrawSolBooks ==
  ASSUME TypeInv, SolBooks, NEW amount \in Nat, NEW transfer_amount \in Nat,
         WithdrawSol(amount, transfer_amount)
  PROVE  SolBooks'
<1> USE DEF WithdrawSol
<1>1. UNCHANGED <<written_off_sol_debt, is_debt_calculation_finalized,
                  total_solana_validator_debt, uncollectible_sol_debt,
                  collected_solana_validator_payments,
                  is_rewards_calculation_finalized, has_swept_2z_tokens>>
  BY DEF depositVars, debtVars, calculatedDebtVars, settledDebtVars, rewardsVars, sweepVars
<1>2. SweptDebt' = SweptDebt
  BY <1>1 DEF SweptDebt, total_sol_debt
<1>3. SolConservation'
  <2>1. total_sol_balance \in Nat /\ swapped_sol_amount \in Nat
    BY DEF TypeInv, TypeOK, SolTypeOK
  <2>2. Total(SweptDebt) \in Nat
    BY FS_CardinalityType DEF SolBooks, FiniteBooks, Total
  <2> QED
    BY <1>1, <1>2, <2>1, <2>2 DEF SolBooks, SolConservation
<1>4. FiniteBooks' /\ PhaseOrder' /\ WriteOffConservation'
  BY <1>1, <1>2
     DEF SolBooks, FiniteBooks, PhaseOrder, WriteOffConservation, is_total_sol_debt_some
<1> QED
  BY <1>3, <1>4 DEF SolBooks

\* WriteOffSolanaValidatorDebt keeps the books in balance.
LEMMA WriteOffSolanaValidatorDebtBooks ==
  ASSUME TypeInv, SolBooks, NEW e \in Epochs, NEW i \in Nat, NEW n \in Nodes,
         NEW amount \in Nat, NEW w \in Epochs,
         WriteOffSolanaValidatorDebt(e, i, n, amount, w)
  PROVE  SolBooks'
<1> USE DEF WriteOffSolanaValidatorDebt
<1>1. UNCHANGED <<journal_lamports, total_sol_balance, swapped_sol_amount,
                  is_debt_calculation_finalized, total_solana_validator_debt,
                  collected_solana_validator_payments,
                  is_rewards_calculation_finalized, has_swept_2z_tokens>>
  BY DEF solVars, calculatedDebtVars, rewardsVars, sweepVars
<1>2. /\ ~has_swept_2z_tokens[w]
      /\ is_debt_calculation_finalized[w]
      /\ total_solana_validator_debt[w] >= uncollectible_sol_debt[w] + amount
  BY DEF can_charge_write_off, try_require_has_not_swept_2z_tokens,
         try_require_finalized_debt_calculation
<1> DEFINE f == uncollectible_sol_debt
           g == uncollectible_sol_debt'
           h == written_off_sol_debt
           k == written_off_sol_debt'
<1>3. /\ f \in [Epochs -> Nat] /\ g = [f EXCEPT ![w] = f[w] + amount]
      /\ h \in [Nodes -> Nat] /\ k = [h EXCEPT ![n] = h[n] + amount]
      /\ total_solana_validator_debt \in [Epochs -> Nat]
  BY DEF TypeInv, TypeOK, SettledDebtTypeOK, DepositTypeOK, CalculatedDebtTypeOK
<1>4. IsFiniteSet(Units(f)) /\ IsFiniteSet(Units(h))
  BY DEF SolBooks, FiniteBooks
<1>5. /\ IsFiniteSet(Units(g)) /\ Total(g) = Total(f) + amount
      /\ IsFiniteSet(Units(k)) /\ Total(k) = Total(h) + amount
  <2> HIDE DEF f, g, h, k
  <2> QED
    BY <1>3, <1>4, TotalIncrease
<1>6. SweptDebt' = SweptDebt
  <2>1. \A d \in Epochs : has_swept_2z_tokens[d] => total_sol_debt(d)' = total_sol_debt(d)
    BY <1>1, <1>2, <1>3 DEF total_sol_debt
  <2>2. SweptDebt' = [d \in Epochs |-> IF has_swept_2z_tokens'[d] THEN total_sol_debt(d)' ELSE 0]
    BY DEF SweptDebt
  <2> QED
    BY <1>1, <2>1, <2>2 DEF SweptDebt
<1>7. FiniteBooks'
  BY <1>1, <1>5, <1>6 DEF SolBooks, FiniteBooks
<1>8. PhaseOrder'
  BY <1>1, <1>2, <1>3 DEF SolBooks, PhaseOrder
<1>9. SolConservation'
  BY <1>1, <1>6 DEF SolBooks, SolConservation
<1>10. WriteOffConservation'
  <2>1. \A d \in Epochs : total_solana_validator_debt[d] >= g[d]
    BY <1>2, <1>3 DEF SolBooks, WriteOffConservation, is_total_sol_debt_some
  <2>2. Total(g) = Total(k)
    BY <1>5 DEF SolBooks, WriteOffConservation
  <2> QED
    BY <1>1, <2>1, <2>2 DEF WriteOffConservation, is_total_sol_debt_some
<1> QED
  BY <1>7, <1>8, <1>9, <1>10 DEF SolBooks

\* SweepDistributionTokens keeps the books in balance.
LEMMA SweepDistributionTokensBooks ==
  ASSUME TypeInv, SolBooks, NEW e \in Epochs, NEW token_2z_amount \in Nat,
         SweepDistributionTokens(e, token_2z_amount)
  PROVE  SolBooks'
<1> USE DEF SweepDistributionTokens, move_swept_2z
<1>1. UNCHANGED <<journal_lamports, total_sol_balance, written_off_sol_debt,
                  is_debt_calculation_finalized, total_solana_validator_debt,
                  uncollectible_sol_debt, collected_solana_validator_payments,
                  is_rewards_calculation_finalized>>
  BY DEF depositVars, debtVars, calculatedDebtVars, settledDebtVars, rewardsVars
<1>2. ~has_swept_2z_tokens[e] /\ is_rewards_calculation_finalized[e]
  BY DEF can_sweep, try_require_has_not_swept_2z_tokens
<1>3. has_swept_2z_tokens \in [Epochs -> BOOLEAN]
  BY DEF TypeInv, TypeOK, SweepTypeOK
<1> DEFINE f == SweptDebt
           g == SweptDebt'
           debt == total_sol_debt(e)
<1>4. f \in [Epochs -> Nat]
  BY SweptDebtType DEF SolBooks
<1>5. debt \in Nat
  BY DEF TypeInv, TypeOK, CalculatedDebtTypeOK, SettledDebtTypeOK, total_sol_debt,
         can_sweep, is_total_sol_debt_some
<1>6. g = [f EXCEPT ![e] = f[e] + debt]
  <2>1. \A d \in Epochs : total_sol_debt(d)' = total_sol_debt(d)
    BY <1>1 DEF total_sol_debt
  <2>2. g = [d \in Epochs |-> IF has_swept_2z_tokens'[d] THEN total_sol_debt(d) ELSE 0]
    BY <2>1 DEF SweptDebt
  <2>3. f = [d \in Epochs |-> IF has_swept_2z_tokens[d] THEN total_sol_debt(d) ELSE 0]
    BY DEF SweptDebt
  <2>4. f[e] = 0 /\ f[e] + debt = debt
    BY <1>2, <1>5, <2>3
  <2>5. \A d \in Epochs : has_swept_2z_tokens'[d] = (IF d = e THEN TRUE ELSE has_swept_2z_tokens[d])
    BY <1>3
  <2> HIDE DEF f, g
  <2> QED
    BY <2>2, <2>3, <2>4, <2>5
<1>7. IsFiniteSet(Units(f))
  BY DEF SolBooks, FiniteBooks
<1>8. IsFiniteSet(Units(g)) /\ Total(g) = Total(f) + debt /\ Total(f) \in Nat
  <2>1. e \in DOMAIN f /\ \A d \in DOMAIN f : f[d] \in Nat
    BY <1>4
  <2> HIDE DEF f, g, debt
  <2> QED
    BY <1>5, <1>6, <1>7, <2>1, TotalIncrease
<1>9. SolConservation'
  <2>1. total_sol_balance \in Nat /\ swapped_sol_amount \in Nat
    BY DEF TypeInv, TypeOK, SolTypeOK
  <2>2. swapped_sol_amount' = swapped_sol_amount - debt
    BY <1>5, <2>1
  <2>3. /\ total_sol_balance + swapped_sol_amount + Total(f)
             = Total(collected_solana_validator_payments)
        /\ journal_lamports = total_sol_balance
    BY DEF SolBooks, SolConservation
  <2>4. total_sol_balance + swapped_sol_amount' + Total(g)
          = Total(collected_solana_validator_payments)
    <3> HIDE DEF f, g, debt
    <3> QED
      BY <1>5, <1>8, <2>1, <2>2, <2>3
  <2> QED
    BY <1>1, <2>3, <2>4 DEF SolConservation
<1>10. FiniteBooks'
  BY <1>1, <1>8 DEF SolBooks, FiniteBooks
<1>11. PhaseOrder'
  BY <1>1, <1>2, <1>3 DEF SolBooks, PhaseOrder
<1>12. WriteOffConservation'
  BY <1>1 DEF SolBooks, WriteOffConservation, is_total_sol_debt_some
<1> QED
  BY <1>9, <1>10, <1>11, <1>12 DEF SolBooks

(***************************************************************************)
(* The specification.                                                      *)
(***************************************************************************)

\* The steps that neither move the SOL of validators nor change what was calculated.
QuietStep ==
  \/ Tick
  \/ ConfigureProgram
  \/ InitializeDistribution
  \/ \E amount \in TokenAmounts : PrepayTwoZ(amount)
  \/ \E amount \in TokenAmounts : DonateTwoZ(amount)
  \/ \E distributions \in SUBSET Epochs : MigrateProgramAccounts(distributions)
  \/ \E n \in Nodes, amount \in FundAmounts : FundSolanaValidatorDeposit(n, amount)
  \/ \E n \in Nodes : InitializeSolanaValidatorDeposit(n)
  \/ \E n \in Nodes : WithdrawSolanaValidatorDeposit(n)
  \/ \E p \in Integrations : InitializeRewardsIntegration(p)
  \/ \E c \in Contributors, shares \in RecipientSettings : ConfigureRecipients(c, shares)
  \/ \E e \in Epochs : EnableSolanaValidatorDebtWriteOff(e)
  \/ \E e \in Epochs : DistributeReward(e)
  \/ \E e \in Epochs, p \in Integrations : Collect(e, p)

\* The steps that have nothing to do with debt or SOL leave the books alone.
LEMMA QuietSteps ==
  ASSUME QuietStep
  PROVE  UNCHANGED bookVars /\ UNCHANGED calculatedDebtVars /\ UNCHANGED rewardsVars
<1> USE DEF bookVars, solVars, depositVars, debtVars, calculatedDebtVars, settledDebtVars,
            rewardsVars, sweepVars
<1>1. CASE Tick
  BY <1>1 DEF Tick
<1>2. CASE ConfigureProgram
  BY <1>2 DEF ConfigureProgram
<1>3. CASE InitializeDistribution
  BY <1>3 DEF InitializeDistribution, move_prepaid_2z
<1>4. CASE \E amount \in TokenAmounts : PrepayTwoZ(amount)
  BY <1>4 DEF PrepayTwoZ
<1>5. CASE \E distributions \in SUBSET Epochs : MigrateProgramAccounts(distributions)
  BY <1>5 DEF MigrateProgramAccounts
<1>6. CASE \E n \in Nodes, amount \in FundAmounts : FundSolanaValidatorDeposit(n, amount)
  BY <1>6 DEF FundSolanaValidatorDeposit
<1>7. CASE \E n \in Nodes : InitializeSolanaValidatorDeposit(n)
  BY <1>7 DEF InitializeSolanaValidatorDeposit
<1>8. CASE \E n \in Nodes : WithdrawSolanaValidatorDeposit(n)
  BY <1>8 DEF WithdrawSolanaValidatorDeposit
<1>9. CASE \E p \in Integrations : InitializeRewardsIntegration(p)
  BY <1>9 DEF InitializeRewardsIntegration
<1>10. CASE \E c \in Contributors, shares \in RecipientSettings : ConfigureRecipients(c, shares)
  BY <1>10 DEF ConfigureRecipients
<1>11. CASE \E e \in Epochs : EnableSolanaValidatorDebtWriteOff(e)
  BY <1>11 DEF EnableSolanaValidatorDebtWriteOff
<1>12. CASE \E e \in Epochs : DistributeReward(e)
  BY <1>12 DEF DistributeReward, DistributeRewards
<1>13. CASE \E e \in Epochs, p \in Integrations : Collect(e, p)
  BY <1>13 DEF Collect, CollectIntegrationRewards
<1>14. CASE \E amount \in TokenAmounts : DonateTwoZ(amount)
  BY <1>14 DEF DonateTwoZ
<1> QED
  BY <1>1, <1>2, <1>3, <1>4, <1>5, <1>6, <1>7, <1>8, <1>9, <1>10, <1>11, <1>12, <1>13,
     <1>14 DEF QuietStep

\* A change of rewards that are not final leaves the books alone too.
LEMMA CalculationSteps ==
  ASSUME NEW e \in Epochs
  PROVE  /\ \A calculation \in RewardsCalculations :
              ConfigureDistributionRewards(e, calculation) => UNCHANGED bookVars
         /\ \A rate \in EconomicBurnRates :
              SetDistributionEconomicBurnRate(e, rate) => UNCHANGED bookVars
  BY DEF ConfigureDistributionRewards, SetDistributionEconomicBurnRate, bookVars, solVars,
         depositVars, debtVars, calculatedDebtVars, settledDebtVars, sweepVars

\* Every step of the program keeps the books in balance.
LEMMA NextBooks ==
  ASSUME TypeInv, SolBooks, Next
  PROVE  SolBooks'
<1>1. /\ SwapAmounts \subseteq Nat /\ TokenAmounts \subseteq Nat
      /\ DebtCalculations \subseteq DebtCalculation
  BY BoundsAssumption, InputsAssumption
<1>2. CASE QuietStep
  BY <1>2, QuietSteps, StableBooks
<1>3. CASE SwapSol
  BY <1>1, <1>3, WithdrawSolBooks DEF SwapSol
<1>4. CASE \E e \in Epochs, calculation \in DebtCalculations :
              ConfigureDistributionDebt(e, calculation)
  BY <1>1, <1>4, ConfigureDistributionDebtBooks
<1>5. CASE \E e \in Epochs : FinalizeDistributionDebt(e)
  BY <1>5, FinalizeDistributionDebtBooks
<1>6. CASE \E e \in Epochs : PayDebt(e)
  BY <1>6, InputTypes, PaySolanaValidatorDebtBooks DEF PayDebt
<1>7. CASE \E e \in Epochs : WriteOffDebt(e)
  BY <1>7, InputTypes, WriteOffSolanaValidatorDebtBooks DEF WriteOffDebt
<1>8. CASE \E e \in Epochs, calculation \in RewardsCalculations :
              ConfigureDistributionRewards(e, calculation)
  BY <1>8, CalculationSteps, StableBooks
<1>9. CASE \E e \in Epochs, rate \in EconomicBurnRates : SetDistributionEconomicBurnRate(e, rate)
  BY <1>9, CalculationSteps, StableBooks
<1>10. CASE \E e \in Epochs : FinalizeDistributionRewards(e)
  BY <1>10, FinalizeDistributionRewardsBooks
<1>11. CASE \E e \in Epochs : Sweep(e)
  BY <1>1, <1>11, SweepDistributionTokensBooks DEF Sweep
<1> QED
  BY <1>2, <1>3, <1>4, <1>5, <1>6, <1>7, <1>8, <1>9, <1>10, <1>11 DEF Next, OwnStep, QuietStep

\* The books of the journal and of the validators balance in every reachable state.
THEOREM BooksInvariance == Spec => []SolBooks
<1>1. Init => SolBooks
  BY InitBooks
<1>2. TypeInv /\ SolBooks /\ [Next]_vars => SolBooks'
  <2>1. UNCHANGED vars => UNCHANGED bookVars
    BY DEF vars, bookVars, solVars, depositVars, debtVars, calculatedDebtVars,
           settledDebtVars, rewardsVars, sweepVars
  <2> QED
    BY <2>1, NextBooks, StableBooks
<1> QED
  BY <1>1, <1>2, TypeInvariance, PTL DEF Spec

\* For any number of epochs and validators: the SOL that validators paid is in the journal,
\* swapped and waiting for a sweep, or was accounted for by the sweep of an epoch at that
\* epoch's debt net of write-offs.
THEOREM SolIsConserved == Spec => []SolConservation
<1>1. SolBooks => SolConservation
  BY DEF SolBooks
<1> QED
  BY <1>1, BooksInvariance, PTL

\* For any number of epochs and validators: write-offs charge the epochs exactly what they
\* record against validators and no epoch more than its debt, so that checked_total_sol_debt()
\* is never None.
THEOREM WriteOffsAreConserved == Spec => []WriteOffConservation
<1>1. SolBooks => WriteOffConservation
  BY DEF SolBooks
<1> QED
  BY <1>1, BooksInvariance, PTL
=============================================================================
