-------------------------- MODULE EpochInstructions --------------------------
(***************************************************************************)
(* The instructions that set the terms of an epoch: the admin configures   *)
(* the program, the debt accountant initializes the Distribution account   *)
(* of a completed DZ epoch, and the upgrade authority migrates accounts.   *)
(***************************************************************************)
EXTENDS RevenueState

(***************************************************************************)
(* InitializeDistribution: the debt accountant completes a DZ epoch.       *)
(***************************************************************************)

\* Anyone sends 2Z to the journal's associated token account (SPL Token).
PrepayTwoZ(amount) ==
  /\ journal_ata_2z + amount <= MaxPrepaid
  /\ journal_ata_2z' = journal_ata_2z + amount
  /\ UNCHANGED <<now, configVars, depositVars, solVars, swapVars, termVars, debtVars,
                 rewardsVars, paidVars, sweepVars, integrationVars, collectionVars,
                 collected_prepaid_2z_payments, layoutVars, recipient_shares, distribution_2z>>

is_distribution_configured ==
  /\ config.initialization_grace_period # 0
  /\ config.calculation_grace_period # 0
  /\ has_next_burn_rate(config.community_burn_rate_parameters)
  /\ config.distribute_rewards_lamports # 0

\* The balance of the journal's associated token account moves to the distribution.
move_prepaid_2z(e) ==
  /\ collected_prepaid_2z_payments' =
        [collected_prepaid_2z_payments EXCEPT ![e] = @ + journal_ata_2z]
  /\ distribution_2z' = [distribution_2z EXCEPT ![e] = @ + journal_ata_2z]
  /\ journal_ata_2z' = 0

InitializeDistribution ==
  LET e == next_completed_dz_epoch
  IN  /\ e < MaxEpochs
      /\ try_require_unpaused
      /\ is_distribution_configured
      /\ now >= last_initialized_distribution_timestamp + config.initialization_grace_period
      /\ last_initialized_distribution_timestamp' = now
      /\ next_completed_dz_epoch' = e + 1
      /\ config' = [config EXCEPT !.community_burn_rate_parameters = computed(@)]
      /\ community_burn_rate' = [community_burn_rate EXCEPT ![e] =
            config.community_burn_rate_parameters.cached_next_burn_rate]
      /\ has_solana_validator_fees' = [has_solana_validator_fees EXCEPT ![e] =
            config.has_solana_validator_fees]
      /\ distribute_rewards_relay_lamports' =
            [distribute_rewards_relay_lamports EXCEPT ![e] = config.distribute_rewards_lamports]
      /\ calculation_allowed_timestamp' = [calculation_allowed_timestamp EXCEPT ![e] =
            now + config.calculation_grace_period]
      /\ integrations_count_snapshot' =
            [integrations_count_snapshot EXCEPT ![e] = integrations_count]
      /\ distribution_lamports' =
            [distribution_lamports EXCEPT ![e] = minimum_balance(0)]
      /\ move_prepaid_2z(e)
      /\ UNCHANGED <<now, is_paused, depositVars, solVars, swapVars, debtVars, rewardsVars,
                     paidVars, sweepVars, integrationVars, collected_2z_from_integrations,
                     integrations_collected_count, collected_integrations_bitmap,
                     remaining_data_len, remaining_data, processed_debt_range,
                     write_off_range, processed_rewards_range, recipient_shares>>

\* Faulty variant: the epoch just below the floor passes for one above it.
can_migrate_below_floor(e) == exists(e) /\ e + 1 >= MIN_DZ_EPOCH

\* A distribution that the account migration may touch.
can_migrate(e) == exists(e) /\ e >= MIN_DZ_EPOCH

\* The upgrade authority repairs the snapshot of some distributions.
MigrateProgramAccounts(distributions) ==
  /\ \A e \in distributions : can_migrate(e)
  /\ integrations_count_snapshot' =
        [e \in Epochs |-> IF e \in distributions THEN integrations_count
                          ELSE integrations_count_snapshot[e]]
  /\ UNCHANGED <<now, configVars, depositVars, solVars, swapVars, termVars, debtVars,
                 rewardsVars, paidVars, sweepVars, integrationVars,
                 collected_2z_from_integrations, integrations_collected_count,
                 collected_integrations_bitmap, prepaidVars, layoutVars, recipient_shares,
                 distribution_2z>>

(***************************************************************************)
(* ConfigureProgram: the settings the other instructions read.             *)
(***************************************************************************)
ConfigurePaused(should_pause) ==
  /\ is_paused' = should_pause
  /\ UNCHANGED <<next_completed_dz_epoch, last_initialized_distribution_timestamp, config>>

\* A parameter of the configuration may take this value.
is_valid_setting(field, value) ==
  CASE field = "calculation_grace_period" -> value \in 1..(24 * 60)
    [] field = "initialization_grace_period" -> value \in 1..(48 * 60)
    [] field = "minimum_epoch_duration_to_finalize_rewards" -> value # 0
    [] field = "distribute_rewards_lamports" -> value >= MIN_LAMPORTS
    [] field = "has_solana_validator_fees" -> TRUE
    [] field = "debt_write_off_feature_activation_epoch" -> value # 0

ConfigurableFields == {"calculation_grace_period", "initialization_grace_period",
                       "minimum_epoch_duration_to_finalize_rewards",
                       "distribute_rewards_lamports", "has_solana_validator_fees",
                       "debt_write_off_feature_activation_epoch"}

ConfigureParameter(field, value) ==
  /\ is_valid_setting(field, value)
  /\ config' = [config EXCEPT ![field] = value]
  /\ UNCHANGED <<is_paused, next_completed_dz_epoch, last_initialized_distribution_timestamp>>

\* The community burn rate may be rescheduled, but not lowered.
ConfigureCommunityBurnRate(s) ==
  /\ can_update(config.community_burn_rate_parameters, s.limit, s.to_increasing, s.to_limit)
  /\ config' = [config EXCEPT !.community_burn_rate_parameters =
        updated(@, s.limit, s.to_increasing, s.to_limit)]
  /\ UNCHANGED <<is_paused, next_completed_dz_epoch, last_initialized_distribution_timestamp>>

\* The first schedule may be replaced until the first distribution is initialized.
InitializeCommunityBurnRate(initial_rate, s) ==
  /\ next_completed_dz_epoch = 0
  /\ initial_rate # 0
  /\ can_update(with_initial_rate(initial_rate), s.limit, s.to_increasing, s.to_limit)
  /\ config' = [config EXCEPT !.community_burn_rate_parameters =
        updated(with_initial_rate(initial_rate), s.limit, s.to_increasing, s.to_limit)]
  /\ UNCHANGED <<is_paused, next_completed_dz_epoch, last_initialized_distribution_timestamp>>

ConfigureProgram ==
  /\ \/ \E should_pause \in ConfigSettings.is_paused : ConfigurePaused(should_pause)
     \/ \E field \in ConfigurableFields :
           \E value \in ConfigSettings[field] : ConfigureParameter(field, value)
     \/ \E s \in ConfigSettings.community_burn_rate : ConfigureCommunityBurnRate(s)
     \/ \E initial_rate \in ConfigSettings.initial_burn_rate :
           \E s \in ConfigSettings.community_burn_rate :
              InitializeCommunityBurnRate(initial_rate, s)
  /\ UNCHANGED <<now, depositVars, solVars, swapVars, termVars, debtVars, rewardsVars,
                 paidVars, sweepVars, integrationVars, collectionVars, prepaidVars,
                 layoutVars, recipient_shares, distribution_2z>>
=============================================================================
