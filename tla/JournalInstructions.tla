------------------------- MODULE JournalInstructions -------------------------
(***************************************************************************)
(* The instructions that move value through the journal: the swap program  *)
(* takes the collected SOL and delivers 2Z, the sweep gives an epoch its   *)
(* part of that 2Z, and rewards integrations contribute 2Z of their own.   *)
(***************************************************************************)
EXTENDS RevenueState

(***************************************************************************)
(* WithdrawSol, called by the swap program after it transferred 2Z to the  *)
(* swap destination in the same transaction.                               *)
(***************************************************************************)
\* Faulty variant: the balance is not compared with the amount.
can_always_withdraw_sol(amount) == TRUE

can_withdraw_sol(amount) == total_sol_balance >= amount

WithdrawSol(amount, transfer_amount) ==
  /\ try_require_unpaused
  /\ can_withdraw_sol(amount)
  /\ total_sol_balance' = total_sol_balance - amount
  /\ swapped_sol_amount' = swapped_sol_amount + amount
  /\ swap_2z_destination_balance' = wrapping_add(swap_2z_destination_balance, transfer_amount)
  /\ lifetime_swapped_2z_amount' = lifetime_swapped_2z_amount + transfer_amount
  /\ journal_lamports' = journal_lamports - amount
  /\ swap_destination_2z' = swap_destination_2z + transfer_amount
  /\ UNCHANGED <<now, configVars, depositVars, donated_2z, termVars, debtVars, rewardsVars,
                 paidVars, sweepVars, integrationVars, collectionVars, prepaidVars, layoutVars,
                 recipient_shares, distribution_2z>>

(***************************************************************************)
(* SweepDistributionTokens.                                                *)
(***************************************************************************)
\* Faulty variant: the epochs are swept in any order.
can_sweep_out_of_order(e) ==
  /\ try_require_has_not_swept_2z_tokens(e)
  /\ is_rewards_calculation_finalized[e]
  /\ is_total_sol_debt_some(e)

\* Faulty variant: the sweep waits for the integrations, as distributing does.
can_sweep_collected(e) ==
  /\ try_require_has_not_swept_2z_tokens(e)
  /\ is_rewards_calculation_finalized[e]
  /\ next_dz_epoch_to_sweep_tokens = e
  /\ is_total_sol_debt_some(e)
  /\ are_all_integrations_collected(e)

can_sweep(e) ==
  /\ try_require_has_not_swept_2z_tokens(e)
  /\ is_rewards_calculation_finalized[e]
  /\ next_dz_epoch_to_sweep_tokens = e
  /\ is_total_sol_debt_some(e)

\* Faulty variant: the sweep waits for SOL that was written off.
covers_gross_debt(e) == swapped_sol_amount >= total_solana_validator_debt[e]

covers_sol_debt(e) == swapped_sol_amount >= total_sol_debt(e)

\* SPL Token program: it refuses to transfer more than the swap destination holds.  Nothing
\* else limits the amount of 2Z that the swap program reports for the dequeued fills.
is_transfer_funded(token_2z_amount) == token_2z_amount <= swap_destination_2z

\* Faulty variant: a report above the recorded balance leaves a record of zero.
swap_balance_after_saturated(token_2z_amount) ==
  saturating_sub(swap_2z_destination_balance, token_2z_amount)

\* The journal's record of the swap destination, from which the amount is subtracted
\* without a check.
swap_balance_after(token_2z_amount) ==
  wrapping_sub(swap_2z_destination_balance, token_2z_amount)

\* The 2Z of the swap destination moves to the distribution.
move_swept_2z(e, token_2z_amount) ==
  /\ is_transfer_funded(token_2z_amount)
  /\ collected_2z_converted_from_sol' =
        [collected_2z_converted_from_sol EXCEPT ![e] = token_2z_amount]
  /\ distribution_2z' = [distribution_2z EXCEPT ![e] = @ + token_2z_amount]
  /\ swap_destination_2z' = swap_destination_2z - token_2z_amount
  /\ swap_2z_destination_balance' = swap_balance_after(token_2z_amount)

SweepDistributionTokens(e, token_2z_amount) ==
  /\ try_require_unpaused
  /\ exists(e)
  /\ can_sweep(e)
  /\ has_swept_2z_tokens' = [has_swept_2z_tokens EXCEPT ![e] = TRUE]
  /\ next_dz_epoch_to_sweep_tokens' = next_dz_epoch_to_sweep_tokens + 1
  /\ \/ /\ total_sol_debt(e) = 0
        /\ UNCHANGED <<swapped_sol_amount, collected_2z_converted_from_sol,
                       distribution_2z, swap_2z_destination_balance, swap_destination_2z>>
     \/ /\ total_sol_debt(e) # 0
        /\ covers_sol_debt(e)
        /\ swapped_sol_amount' = swapped_sol_amount - total_sol_debt(e)
        /\ move_swept_2z(e, token_2z_amount)
  /\ UNCHANGED <<now, configVars, depositVars, journal_lamports, total_sol_balance,
                 lifetime_swapped_2z_amount, donated_2z, termVars, debtVars, rewardsVars,
                 paidVars, integrationVars, collectionVars, prepaidVars, layoutVars, recipient_shares>>

\* Anyone may send 2Z straight to the swap destination, without a swap (SPL Token).
DonateTwoZ(amount) ==
  /\ donated_2z + amount <= MaxDonated
  /\ donated_2z' = donated_2z + amount
  /\ swap_destination_2z' = swap_destination_2z + amount
  /\ UNCHANGED <<now, configVars, depositVars, solVars, journalSwapVars, termVars, debtVars,
                 rewardsVars, paidVars, sweepVars, integrationVars, collectionVars,
                 prepaidVars, layoutVars, recipient_shares, distribution_2z>>

(***************************************************************************)
(* Rewards integrations.                                                   *)
(***************************************************************************)

\* The admin registers an integration program; a paused program allows it.
InitializeRewardsIntegration(p) ==
  /\ p \notin DOMAIN registration_index
  /\ integrations_count < MAX_U16
  /\ registration_index' =
        [q \in DOMAIN registration_index \cup {p} |->
           IF q = p THEN integrations_count ELSE registration_index[q]]
  /\ integrations_count' = integrations_count + 1
  /\ UNCHANGED <<now, configVars, depositVars, solVars, swapVars, termVars, debtVars,
                 rewardsVars, paidVars, sweepVars, collectionVars, prepaidVars, layoutVars,
                 recipient_shares, distribution_2z>>

\* Faulty variant: the last integration of the snapshot is out of range.
is_inner_collection_pending(e, index) ==
  /\ ~are_all_integrations_collected(e)
  /\ index + 1 < integrations_count_snapshot[e]
  /\ index < INTEGRATION_BITS
  /\ index \notin collected_integrations_bitmap[e]

\* Faulty variant: the last bit of the bitmap is out of range.
is_short_collection_pending(e, index) ==
  /\ ~are_all_integrations_collected(e)
  /\ index < integrations_count_snapshot[e]
  /\ index + 1 < INTEGRATION_BITS
  /\ index \notin collected_integrations_bitmap[e]

\* Faulty variant: an integration that is newer than the distribution counts.
is_late_collection_pending(e, index) ==
  /\ ~are_all_integrations_collected(e)
  /\ index < INTEGRATION_BITS
  /\ index \notin collected_integrations_bitmap[e]

\* The distribution has not collected from this integration yet and may.
is_collection_pending(e, index) ==
  /\ ~are_all_integrations_collected(e)
  /\ index < integrations_count_snapshot[e]
  /\ index < INTEGRATION_BITS
  /\ index \notin collected_integrations_bitmap[e]

\* The integration program (external) transfers collected_amount of its 2Z.
CollectIntegrationRewards(e, p, collected_amount) ==
  /\ try_require_unpaused
  /\ exists(e)
  /\ p \in DOMAIN registration_index
  /\ is_collection_pending(e, registration_index[p])
  /\ distribution_2z' = [distribution_2z EXCEPT ![e] = @ + collected_amount]
  /\ collected_2z_from_integrations' =
        [collected_2z_from_integrations EXCEPT ![e] = @ + collected_amount]
  /\ integrations_collected_count' = [integrations_collected_count EXCEPT ![e] = @ + 1]
  /\ collected_integrations_bitmap' =
        [collected_integrations_bitmap EXCEPT ![e] = @ \cup {registration_index[p]}]
  /\ UNCHANGED <<now, configVars, depositVars, solVars, swapVars, termVars, debtVars,
                 rewardsVars, paidVars, sweepVars, integrationVars,
                 integrations_count_snapshot, prepaidVars, layoutVars, recipient_shares>>
=============================================================================
