------------------------- MODULE RewardsInstructions -------------------------
(***************************************************************************)
(* The instructions on the rewards of contributors: the rewards accountant *)
(* configures an epoch's rewards, anyone finalizes them once they are due, *)
(* and relayers distribute them leaf by leaf.                              *)
(***************************************************************************)
EXTENDS RevenueState

(***************************************************************************)
(* ConfigureDistributionRewards, SetDistributionEconomicBurnRate.          *)
(***************************************************************************)
ConfigureDistributionRewards(e, calculation) ==
  /\ try_require_unpaused
  /\ exists(e)
  /\ try_require_unfinalized_rewards_calculation(e)
  /\ try_require_calculation_allowed(e)
  /\ total_contributors' = [total_contributors EXCEPT ![e] = calculation.contributors]
  /\ rewards_merkle_root' = [rewards_merkle_root EXCEPT ![e] = calculation.leaves]
  /\ UNCHANGED <<now, configVars, depositVars, solVars, swapVars, termVars, debtVars,
                 is_rewards_calculation_finalized, economic_burn_rate, paidVars, sweepVars,
                 integrationVars, collectionVars, prepaidVars, layoutVars,
                 recipient_shares, distribution_2z>>

\* Allowed before the calculation grace period is over.
SetDistributionEconomicBurnRate(e, rate) ==
  /\ rate <= MAX_SHARE
  /\ try_require_unpaused
  /\ exists(e)
  /\ try_require_unfinalized_rewards_calculation(e)
  /\ economic_burn_rate' = [economic_burn_rate EXCEPT ![e] = rate]
  /\ UNCHANGED <<now, configVars, depositVars, solVars, swapVars, termVars, debtVars,
                 is_rewards_calculation_finalized, total_contributors, rewards_merkle_root,
                 paidVars, sweepVars, integrationVars, collectionVars, prepaidVars,
                 layoutVars, recipient_shares, distribution_2z>>

(***************************************************************************)
(* FinalizeDistributionRewards.                                            *)
(***************************************************************************)

\* Faulty variant: integrations still to be collected do not count.
is_null_root_allowed_early(e) ==
  rewards_merkle_root[e] = <<>> =>
    /\ is_total_sol_debt_some(e)
    /\ total_sol_debt(e) = 0
    /\ total_collected_2z_tokens(e) = 0

\* With a null rewards root nobody can be paid, so nothing may be owed.
is_null_root_allowed(e) ==
  rewards_merkle_root[e] = <<>> =>
    /\ is_total_sol_debt_some(e)
    /\ total_sol_debt(e) = 0
    /\ total_collected_2z_tokens(e) = 0
    /\ are_all_integrations_collected(e)

is_minimum_epoch_duration_over(e) ==
  /\ config.minimum_epoch_duration_to_finalize_rewards # 0
  /\ e + config.minimum_epoch_duration_to_finalize_rewards <= next_completed_dz_epoch

\* Faulty variant: the pay of one relayer only.
one_relay_escrow(e) == distribute_rewards_relay_lamports[e]

\* Faulty variant: the current setting instead of the one the distribution was given.
current_relay_escrow(e) == config.distribute_rewards_lamports * total_contributors[e]

\* Lamports that will pay the relayers of all the rewards.
relay_escrow(e) == distribute_rewards_relay_lamports[e] * total_contributors[e]

FinalizeDistributionRewards(e) ==
  /\ try_require_unpaused
  /\ exists(e)
  /\ try_require_unfinalized_rewards_calculation(e)
  /\ try_require_calculation_allowed(e)
  /\ try_require_finalized_debt_calculation(e)
  /\ is_null_root_allowed(e)
  /\ is_minimum_epoch_duration_over(e)
  /\ is_rewards_calculation_finalized' = [is_rewards_calculation_finalized EXCEPT ![e] = TRUE]
  /\ processed_rewards_range' =
        [processed_rewards_range EXCEPT ![e] = appended_range(e, total_contributors[e])]
  /\ resize(e, total_contributors[e], relay_escrow(e))
  /\ UNCHANGED <<now, configVars, depositVars, solVars, swapVars, termVars, debtVars,
                 total_contributors, rewards_merkle_root, economic_burn_rate, paidVars,
                 sweepVars, integrationVars, collectionVars, prepaidVars, remaining_data,
                 processed_debt_range, write_off_range, recipient_shares, distribution_2z>>

(***************************************************************************)
(* DistributeRewards: leaf i of epoch e, the reward of contributor c.      *)
(***************************************************************************)
burn_rate(e, leaf) ==
  LET max(a, b) == IF a >= b THEN a ELSE b
  IN  max(max(leaf.economic_burn_rate, economic_burn_rate[e]), community_burn_rate[e])

\* The contributor's part of the epoch's 2Z, and what of it is burned.
share_amount(e, leaf) == mul_scalar(leaf.unit_share, total_collected_2z_tokens(e), MAX_SHARE)
burn_share_amount(e, leaf) == mul_scalar(burn_rate(e, leaf), share_amount(e, leaf), MAX_SHARE)

\* What the recipients of the contributor receive; the dust is burned too.
transferred_share_amount(e, leaf) ==
  LET remaining == share_amount(e, leaf) - burn_share_amount(e, leaf)
      shares    == recipient_shares[leaf.service_key]
  IN  Total([r \in DOMAIN shares |-> mul_scalar(shares[r], remaining, MAX_RECIPIENT_SHARE)])

burned_share_amount(e, leaf) == share_amount(e, leaf) - transferred_share_amount(e, leaf)

\* RewardShare::new accepts the leaf; it is encoded as not blocked.
is_valid_reward_share(leaf) ==
  /\ leaf.unit_share <= MAX_SHARE
  /\ leaf.economic_burn_rate <= MAX_SHARE
  /\ ~leaf.is_blocked

\* Faulty variant: rewards are distributed while integrations are still collected.
can_distribute_early(e) == ~are_all_rewards_distributed(e) /\ has_swept_2z_tokens[e]

\* Faulty variant: rewards are distributed before the sweep.
can_distribute_unswept(e) ==
  ~are_all_rewards_distributed(e) /\ are_all_integrations_collected(e)

can_distribute(e) ==
  /\ ~are_all_rewards_distributed(e)
  /\ has_swept_2z_tokens[e]
  /\ are_all_integrations_collected(e)

\* The runtime rejects a debit that ends the account's rent exemption.
can_pay_relayer(e) ==
  distribution_lamports[e] >= minimum_balance(remaining_data_len[e])
                                + distribute_rewards_relay_lamports[e]

DistributeRewards(e, i, leaf) ==
  /\ try_require_unpaused
  /\ exists(e)
  /\ can_distribute(e)
  /\ is_leaf_unprocessed(remaining_data[e], processed_rewards_range[e], i)
  /\ is_valid_reward_share(leaf)
  /\ is_proven(rewards_merkle_root[e], i, leaf)
  /\ recipient_shares[leaf.service_key] # <<>>
  /\ distribution_2z[e] >= share_amount(e, leaf)
  /\ can_pay_relayer(e)
  /\ remaining_data' = [remaining_data EXCEPT ![e] = @ \cup {leaf_bit(processed_rewards_range[e], i)}]
  /\ distributed_2z_amount' =
        [distributed_2z_amount EXCEPT ![e] = @ + transferred_share_amount(e, leaf)]
  /\ burned_2z_amount' = [burned_2z_amount EXCEPT ![e] = @ + burned_share_amount(e, leaf)]
  /\ distributed_rewards_count' = [distributed_rewards_count EXCEPT ![e] = @ + 1]
  /\ distribution_2z' = [distribution_2z EXCEPT ![e] =
        @ - transferred_share_amount(e, leaf) - burned_share_amount(e, leaf)]
  /\ distribution_lamports' =
        [distribution_lamports EXCEPT ![e] = @ - distribute_rewards_relay_lamports[e]]
  /\ UNCHANGED <<now, configVars, depositVars, solVars, swapVars, termVars, debtVars,
                 rewardsVars, sweepVars, integrationVars, collectionVars, prepaidVars,
                 remaining_data_len, processed_debt_range, write_off_range,
                 processed_rewards_range, recipient_shares>>

(***************************************************************************)
(* ConfigureContributorRewards with recipients, signed by the contributor's *)
(* rewards manager.  RecipientShares::new accepts shares that are not zero *)
(* and make up the whole.                                                  *)
(***************************************************************************)
MAX_RECIPIENTS == 8

is_valid_recipient_shares(shares) ==
  /\ Len(shares) <= MAX_RECIPIENTS
  /\ \A r \in DOMAIN shares : shares[r] # 0
  /\ Total(shares) = MAX_RECIPIENT_SHARE

ConfigureRecipients(c, shares) ==
  /\ try_require_unpaused
  /\ is_valid_recipient_shares(shares)
  /\ recipient_shares' = [recipient_shares EXCEPT ![c] = shares]
  /\ UNCHANGED <<now, configVars, depositVars, solVars, swapVars, termVars, debtVars,
                 rewardsVars, paidVars, sweepVars, integrationVars, collectionVars,
                 prepaidVars, layoutVars, distribution_2z>>
=============================================================================
