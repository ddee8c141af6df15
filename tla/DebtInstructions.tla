-------------------------- MODULE DebtInstructions --------------------------
(***************************************************************************)
(* The instructions on the debt of Solana validators: the debt accountant  *)
(* configures and finalizes an epoch's debt, anyone pays it out of the     *)
(* validators' deposit accounts, and the debt accountant writes off what   *)
(* the deposits cannot pay.                                                *)
(***************************************************************************)
EXTENDS RevenueState

(***************************************************************************)
(* ConfigureDistributionDebt and FinalizeDistributionDebt.                 *)
(***************************************************************************)
ConfigureDistributionDebt(e, calculation) ==
  /\ try_require_unpaused
  /\ exists(e)
  /\ try_require_unfinalized_debt_calculation(e)
  /\ try_require_calculation_allowed(e)
  /\ has_solana_validator_fees[e]
  /\ total_solana_validators' = [total_solana_validators EXCEPT ![e] = calculation.validators]
  /\ total_solana_validator_debt' =
        [total_solana_validator_debt EXCEPT ![e] = calculation.debt]
  /\ solana_validator_debt_merkle_root' =
        [solana_validator_debt_merkle_root EXCEPT ![e] = calculation.leaves]
  /\ UNCHANGED <<now, configVars, depositVars, solVars, swapVars, termVars,
                 is_debt_calculation_finalized, settledDebtVars, rewardsVars, paidVars,
                 sweepVars, integrationVars, collectionVars, prepaidVars, layoutVars,
                 recipient_shares, distribution_2z>>

\* With no debt there is nothing to track and the account keeps its size.
append_processed_debt_bitmap(e) ==
  \/ /\ total_sol_debt(e) = 0
     /\ UNCHANGED <<processed_debt_range, remaining_data_len, distribution_lamports>>
  \/ /\ total_sol_debt(e) # 0
     /\ processed_debt_range' =
           [processed_debt_range EXCEPT ![e] = appended_range(e, total_solana_validators[e])]
     /\ resize(e, total_solana_validators[e], 0)

FinalizeDistributionDebt(e) ==
  /\ try_require_unpaused
  /\ exists(e)
  /\ try_require_unfinalized_debt_calculation(e)
  /\ try_require_calculation_allowed(e)
  /\ is_total_sol_debt_some(e)
  /\ is_debt_calculation_finalized' = [is_debt_calculation_finalized EXCEPT ![e] = TRUE]
  /\ append_processed_debt_bitmap(e)
  /\ UNCHANGED <<now, configVars, depositVars, solVars, swapVars, termVars,
                 total_solana_validators, total_solana_validator_debt,
                 solana_validator_debt_merkle_root, settledDebtVars, rewardsVars, paidVars,
                 sweepVars, integrationVars, collectionVars, prepaidVars, remaining_data,
                 write_off_range, processed_rewards_range, recipient_shares, distribution_2z>>

(***************************************************************************)
(* The deposit account of a validator.                                     *)
(***************************************************************************)

\* Anyone sends lamports to the deposit's address (system program), before or
\* after the account is initialized.
FundSolanaValidatorDeposit(n, amount) ==
  /\ deposit_lamports[n] + amount <= MaxFunding
  /\ deposit_lamports' = [deposit_lamports EXCEPT ![n] = @ + amount]
  /\ UNCHANGED <<now, configVars, deposit_exists, written_off_sol_debt, solVars, swapVars,
                 termVars, debtVars, rewardsVars, paidVars, sweepVars, integrationVars,
                 collectionVars, prepaidVars, layoutVars, recipient_shares, distribution_2z>>

\* The payer adds the rent exemption on top of what the address already holds.
InitializeSolanaValidatorDeposit(n) ==
  /\ ~deposit_exists[n]
  /\ deposit_exists' = [deposit_exists EXCEPT ![n] = TRUE]
  /\ deposit_lamports' = [deposit_lamports EXCEPT ![n] = @ + DepositRent]
  /\ UNCHANGED <<now, configVars, written_off_sol_debt, solVars, swapVars, termVars,
                 debtVars, rewardsVars, paidVars, sweepVars, integrationVars,
                 collectionVars, prepaidVars, layoutVars, recipient_shares, distribution_2z>>

\* Faulty variant: written-off debt may be withdrawn.
withdrawn_excess(n) == excess_lamports(n)

\* What a validator may take back: written-off debt stays behind.
withdrawn_lamports(n) == saturating_sub(excess_lamports(n), written_off_sol_debt[n])

WithdrawSolanaValidatorDeposit(n) ==
  /\ try_require_unpaused
  /\ deposit_exists[n]
  /\ withdrawn_lamports(n) # 0
  /\ deposit_lamports' = [deposit_lamports EXCEPT ![n] = @ - withdrawn_lamports(n)]
  /\ UNCHANGED <<now, configVars, deposit_exists, written_off_sol_debt, solVars, swapVars,
                 termVars, debtVars, rewardsVars, paidVars, sweepVars, integrationVars,
                 collectionVars, prepaidVars, layoutVars, recipient_shares, distribution_2z>>

(***************************************************************************)
(* PaySolanaValidatorDebt: leaf i of epoch e, a debt of node n.            *)
(***************************************************************************)
can_pay(n, amount) == excess_lamports(n) >= amount

PaySolanaValidatorDebt(e, i, n, amount) ==
  /\ try_require_unpaused
  /\ exists(e)
  /\ try_require_finalized_debt_calculation(e)
  /\ deposit_exists[n]
  /\ is_leaf_unprocessed(remaining_data[e], processed_debt_range[e], i)
  /\ is_proven(solana_validator_debt_merkle_root[e], i, [node |-> n, amount |-> amount])
  /\ can_pay(n, amount)
  /\ remaining_data' = [remaining_data EXCEPT ![e] = @ \cup {leaf_bit(processed_debt_range[e], i)}]
  /\ collected_solana_validator_payments' =
        [collected_solana_validator_payments EXCEPT ![e] = @ + amount]
  /\ solana_validator_payments_count' = [solana_validator_payments_count EXCEPT ![e] = @ + 1]
  /\ deposit_lamports' = [deposit_lamports EXCEPT ![n] = @ - amount]
  /\ journal_lamports' = journal_lamports + amount
  /\ total_sol_balance' = total_sol_balance + amount
  /\ UNCHANGED <<now, configVars, deposit_exists, written_off_sol_debt, swapped_sol_amount,
                 swapVars, termVars, calculatedDebtVars,
                 is_solana_validator_debt_write_off_enabled, uncollectible_sol_debt,
                 solana_validator_write_off_count, rewardsVars, paidVars, sweepVars,
                 integrationVars, collectionVars, prepaidVars, distribution_lamports,
                 remaining_data_len, processed_debt_range, write_off_range,
                 processed_rewards_range, recipient_shares, distribution_2z>>

(***************************************************************************)
(* EnableSolanaValidatorDebtWriteOff and WriteOffSolanaValidatorDebt.      *)
(***************************************************************************)
EnableSolanaValidatorDebtWriteOff(e) ==
  /\ try_require_unpaused
  /\ is_debt_write_off_feature_activated
  /\ exists(e)
  /\ ~is_solana_validator_debt_write_off_enabled[e]
  /\ try_require_finalized_debt_calculation(e)
  /\ is_solana_validator_debt_write_off_enabled' =
        [is_solana_validator_debt_write_off_enabled EXCEPT ![e] = TRUE]
  /\ write_off_range' =
        [write_off_range EXCEPT ![e] = appended_range(e, total_solana_validators[e])]
  /\ resize(e, total_solana_validators[e], 0)
  /\ UNCHANGED <<now, configVars, depositVars, solVars, swapVars, termVars,
                 calculatedDebtVars, uncollectible_sol_debt,
                 collected_solana_validator_payments, solana_validator_payments_count,
                 solana_validator_write_off_count, rewardsVars, paidVars, sweepVars,
                 integrationVars, collectionVars, prepaidVars, remaining_data,
                 processed_debt_range, processed_rewards_range, recipient_shares,
                 distribution_2z>>

\* The deposit cannot pay: otherwise the write-off reverts.
is_debt_uncovered(n, amount) == excess_lamports(n) < amount

\* Faulty variant: the bitmap of processed debts is marked without being read.
is_write_off_new(e, i) == is_leaf_unprocessed(remaining_data[e], write_off_range[e], i)

\* Both bitmaps of the epoch must accept the leaf, one after the other.
is_write_off_unprocessed(e, i) ==
  /\ is_leaf_unprocessed(remaining_data[e], write_off_range[e], i)
  /\ is_leaf_unprocessed(remaining_data[e] \cup {leaf_bit(write_off_range[e], i)},
                         processed_debt_range[e], i)

\* Faulty variant: a loss may be charged to an epoch that was swept at a higher debt.
can_charge_swept_epoch(e, w, amount) ==
  /\ w >= e
  /\ try_require_finalized_debt_calculation(w)
  /\ total_solana_validator_debt[w] >= uncollectible_sol_debt[w] + amount

\* Faulty variant: the charge is not compared with the debt of the epoch.
can_charge_beyond_debt(e, w, amount) ==
  /\ w >= e
  /\ try_require_has_not_swept_2z_tokens(w)
  /\ try_require_finalized_debt_calculation(w)

\* Faulty variant: a loss may be charged to an epoch whose debt is not final.
can_charge_open_epoch(e, w, amount) ==
  /\ w >= e
  /\ try_require_has_not_swept_2z_tokens(w)
  /\ total_solana_validator_debt[w] >= uncollectible_sol_debt[w] + amount

\* The epoch w that the loss is charged to: epoch e or a later one, not swept yet.
can_charge_write_off(e, w, amount) ==
  /\ w >= e
  /\ try_require_has_not_swept_2z_tokens(w)
  /\ try_require_finalized_debt_calculation(w)
  /\ total_solana_validator_debt[w] >= uncollectible_sol_debt[w] + amount

WriteOffSolanaValidatorDebt(e, i, n, amount, w) ==
  /\ try_require_unpaused
  /\ exists(e) /\ exists(w)
  /\ deposit_exists[n]
  /\ is_debt_uncovered(n, amount)
  /\ is_solana_validator_debt_write_off_enabled[e]
  /\ is_write_off_unprocessed(e, i)
  /\ is_proven(solana_validator_debt_merkle_root[e], i, [node |-> n, amount |-> amount])
  /\ can_charge_write_off(e, w, amount)
  /\ written_off_sol_debt' = [written_off_sol_debt EXCEPT ![n] = @ + amount]
  /\ solana_validator_write_off_count' = [solana_validator_write_off_count EXCEPT ![e] = @ + 1]
  /\ remaining_data' = [remaining_data EXCEPT ![e] =
        @ \cup {leaf_bit(write_off_range[e], i), leaf_bit(processed_debt_range[e], i)}]
  /\ uncollectible_sol_debt' = [uncollectible_sol_debt EXCEPT ![w] = @ + amount]
  /\ UNCHANGED <<now, configVars, deposit_exists, deposit_lamports, solVars, swapVars,
                 termVars, calculatedDebtVars, is_solana_validator_debt_write_off_enabled,
                 collected_solana_validator_payments, solana_validator_payments_count,
                 rewardsVars, paidVars, sweepVars, integrationVars, collectionVars,
                 prepaidVars, distribution_lamports, remaining_data_len,
                 processed_debt_range, write_off_range, processed_rewards_range,
                 recipient_shares, distribution_2z>>
=============================================================================
