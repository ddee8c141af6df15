---------------------------- MODULE RevenueState ----------------------------
(***************************************************************************)
(* The accounts of the revenue-distribution program and the checks its     *)
(* instructions share.  One variable stands for one account field, with    *)
(* the field's name; a field of the per-epoch Distribution account is a    *)
(* function of the DZ epoch, a field of a SolanaValidatorDeposit account a *)
(* function of the validator's node id.  The instructions are in           *)
(* DebtInstructions, RewardsInstructions, JournalInstructions and          *)
(* EpochInstructions.                                                      *)
(*                                                                         *)
(* A Merkle root is the sequence of leaves it commits to, <<>> standing    *)
(* for Hash::default(); a proof for leaf index i succeeds exactly for the  *)
(* leaf at position i + 1 (collision-free hashing, svm_hash).  Signers are *)
(* not state: an action of a privileged instruction is a step its          *)
(* authority signed.  One unit of the clock is one minute.                 *)
(***************************************************************************)
EXTENDS Integers, Sequences, FiniteSets, CommunityBurnRate, Totals

CONSTANTS
  Nodes,                \* node ids of Solana validators
  Contributors,         \* service keys of contributors
  Integrations,         \* program ids of rewards integrations
  MaxEpochs,            \* bound: number of DZ epochs that complete
  StartTime, MaxTime,   \* bound: the clock's first and last value
  InitialConfig,        \* the configuration the admin made before epoch 0
  ConfigSettings,       \* bound: the later settings, one set of values per field
  DebtCalculations,     \* bound: inputs of ConfigureDistributionDebt
  RewardsCalculations,  \* bound: inputs of ConfigureDistributionRewards
  EconomicBurnRates,    \* bound: inputs of SetDistributionEconomicBurnRate
  RecipientSettings,    \* bound: recipient shares a rewards manager may configure
  FundAmounts, MaxFunding,      \* bound: lamports sent to a deposit account
  SwapAmounts,                  \* bound: SOL the swap program withdraws at once
  TokenAmounts, MaxPrepaid,     \* bound: 2Z moved by a transfer, 2Z in the journal's ATA
  MaxDonated,                   \* bound: 2Z sent straight to the swap destination
  DepositRent,                  \* rent exemption of a SolanaValidatorDeposit account
  RentBase, RentPerByte,        \* rent exemption of a Distribution account
  MIN_LAMPORTS,                 \* RelayParameters::MIN_LAMPORTS
  MAX_RECIPIENT_SHARE,          \* UnitShare16::MAX (10^4 in the program)
  INTEGRATION_BITS,             \* bits of collected_integrations_bitmap (512)
  MAX_U16,                      \* u16::MAX
  U64,                          \* number of values of a u64 (2^64)
  MIN_DZ_EPOCH                  \* epoch floor of the account migration (140)

Epochs == 0..(MaxEpochs - 1)

DebtLeaf == [node : Nodes, amount : Nat]
RewardLeaf == [service_key : Contributors, unit_share : Nat,
               economic_burn_rate : Nat, is_blocked : BOOLEAN]
DebtCalculation == [validators : Nat, debt : Nat, leaves : Seq(DebtLeaf)]
RewardsCalculation == [contributors : Nat, leaves : Seq(RewardLeaf)]
Config == [calculation_grace_period : Nat,
           initialization_grace_period : Nat,
           minimum_epoch_duration_to_finalize_rewards : Nat,
           distribute_rewards_lamports : Nat,
           has_solana_validator_fees : BOOLEAN,
           debt_write_off_feature_activation_epoch : Nat,
           community_burn_rate_parameters : CommunityBurnRateParameters]
Settings == [is_paused : SUBSET BOOLEAN,
             calculation_grace_period : SUBSET Nat,
             initialization_grace_period : SUBSET Nat,
             minimum_epoch_duration_to_finalize_rewards : SUBSET Nat,
             distribute_rewards_lamports : SUBSET Nat,
             has_solana_validator_fees : SUBSET BOOLEAN,
             debt_write_off_feature_activation_epoch : SUBSET Nat,
             initial_burn_rate : SUBSET BurnRate,
             community_burn_rate : SUBSET [limit : BurnRate, to_increasing : Nat, to_limit : Nat]]

ASSUME BoundsAssumption ==
  /\ MaxEpochs \in Nat /\ StartTime \in Nat /\ MaxTime \in Nat
  /\ FundAmounts \subseteq Nat /\ SwapAmounts \subseteq Nat /\ TokenAmounts \subseteq Nat
  /\ MaxFunding \in Nat /\ MaxPrepaid \in Nat /\ MaxDonated \in Nat

ASSUME InputsAssumption ==
  /\ InitialConfig \in Config
  /\ InitialConfig.community_burn_rate_parameters.cached_slope_denominator # 0
  /\ InitialConfig.community_burn_rate_parameters.cached_next_burn_rate
       <= InitialConfig.community_burn_rate_parameters.limit
  /\ ConfigSettings \in Settings
  /\ DebtCalculations \subseteq DebtCalculation
  /\ RewardsCalculations \subseteq RewardsCalculation
  /\ EconomicBurnRates \subseteq Nat
  /\ RecipientSettings \subseteq Seq(Nat)

ASSUME LimitsAssumption ==
  /\ DepositRent \in Nat /\ RentBase \in Nat /\ RentPerByte \in Nat
  /\ MIN_LAMPORTS \in Nat /\ MAX_RECIPIENT_SHARE \in Nat \ {0}
  /\ INTEGRATION_BITS \in Nat /\ MAX_U16 \in Nat /\ MIN_DZ_EPOCH \in Nat
  /\ U64 \in Nat \ {0}

VARIABLES
  \* Clock sysvar.
  now,
  \* ProgramConfig account: the flag, the counters and the parameters.
  is_paused, next_completed_dz_epoch, last_initialized_distribution_timestamp, config,
  \* SolanaValidatorDeposit accounts.
  deposit_exists, deposit_lamports, written_off_sol_debt,
  \* Journal account, and the 2Z balance of the journal's associated token account.
  journal_lamports, total_sol_balance, swapped_sol_amount,
  swap_2z_destination_balance, lifetime_swapped_2z_amount,
  next_dz_epoch_to_sweep_tokens, integrations_count, journal_ata_2z,
  \* 2Z balance of the swap destination, a token account, and how much of the 2Z it ever
  \* received did not come with a swap (history).
  swap_destination_2z, donated_2z,
  \* RewardsIntegration accounts: registered programs and their indices.
  registration_index,
  \* ContributorRewards accounts: the shares of the recipients, <<>> when none.
  recipient_shares,
  \* Distribution accounts: what initialization copied from the program config.
  calculation_allowed_timestamp, has_solana_validator_fees,
  distribute_rewards_relay_lamports, community_burn_rate,
  \* Distribution accounts: the debt of Solana validators.
  is_debt_calculation_finalized, is_solana_validator_debt_write_off_enabled,
  total_solana_validators, total_solana_validator_debt,
  solana_validator_debt_merkle_root, uncollectible_sol_debt,
  collected_solana_validator_payments, solana_validator_payments_count,
  solana_validator_write_off_count,
  \* Distribution accounts: the rewards of contributors.
  is_rewards_calculation_finalized, total_contributors, rewards_merkle_root,
  economic_burn_rate, distributed_rewards_count,
  distributed_2z_amount, burned_2z_amount,
  \* Distribution accounts: the 2Z collected, and the balance of the 2Z token account.
  has_swept_2z_tokens, collected_prepaid_2z_payments,
  collected_2z_converted_from_sol, collected_2z_from_integrations,
  integrations_count_snapshot, integrations_collected_count,
  collected_integrations_bitmap, distribution_2z,
  \* Distribution accounts: lamports, and the data after the fixed header with the
  \* positions of its bits that are set.
  distribution_lamports, remaining_data_len, remaining_data,
  processed_debt_range, write_off_range, processed_rewards_range

configVars == <<is_paused, next_completed_dz_epoch,
                last_initialized_distribution_timestamp, config>>
depositVars == <<deposit_exists, deposit_lamports, written_off_sol_debt>>
solVars == <<journal_lamports, total_sol_balance, swapped_sol_amount>>
journalSwapVars == <<swap_2z_destination_balance, lifetime_swapped_2z_amount>>
swapVars == <<journalSwapVars, swap_destination_2z, donated_2z>>
termVars == <<calculation_allowed_timestamp, has_solana_validator_fees,
              distribute_rewards_relay_lamports, community_burn_rate>>
calculatedDebtVars == <<is_debt_calculation_finalized, total_solana_validators,
                        total_solana_validator_debt, solana_validator_debt_merkle_root>>
settledDebtVars == <<is_solana_validator_debt_write_off_enabled, uncollectible_sol_debt,
                     collected_solana_validator_payments, solana_validator_payments_count,
                     solana_validator_write_off_count>>
debtVars == <<calculatedDebtVars, settledDebtVars>>
rewardsVars == <<is_rewards_calculation_finalized, total_contributors,
                 rewards_merkle_root, economic_burn_rate>>
paidVars == <<distributed_rewards_count, distributed_2z_amount, burned_2z_amount>>
sweepVars == <<has_swept_2z_tokens, next_dz_epoch_to_sweep_tokens,
               collected_2z_converted_from_sol>>
integrationVars == <<integrations_count, registration_index>>
collectionVars == <<collected_2z_from_integrations, integrations_count_snapshot,
                    integrations_collected_count, collected_integrations_bitmap>>
prepaidVars == <<journal_ata_2z, collected_prepaid_2z_payments>>
layoutVars == <<distribution_lamports, remaining_data_len, remaining_data,
                processed_debt_range, write_off_range, processed_rewards_range>>

vars == <<now, configVars, depositVars, solVars, swapVars, termVars, debtVars,
          rewardsVars, paidVars, sweepVars, integrationVars, collectionVars,
          prepaidVars, layoutVars, recipient_shares, distribution_2z>>

(***************************************************************************)
(* Checks and computations the instructions share.                         *)
(***************************************************************************)
\* Faulty variant: the flag is never read.
ignore_pause == TRUE

try_require_unpaused == ~is_paused

\* The Distribution account of the epoch has been created.
exists(e) == e < next_completed_dz_epoch

\* Faulty variant: a calculation may be configured after it is final.
ignore_finalized(e) == TRUE

try_require_unfinalized_debt_calculation(e) == ~is_debt_calculation_finalized[e]
try_require_finalized_debt_calculation(e) == is_debt_calculation_finalized[e]
try_require_unfinalized_rewards_calculation(e) == ~is_rewards_calculation_finalized[e]
try_require_has_not_swept_2z_tokens(e) == ~has_swept_2z_tokens[e]

try_require_calculation_allowed(e) ==
  /\ calculation_allowed_timestamp[e] # 0
  /\ now >= calculation_allowed_timestamp[e]

is_debt_write_off_feature_activated ==
  /\ config.debt_write_off_feature_activation_epoch # 0
  /\ next_completed_dz_epoch >= config.debt_write_off_feature_activation_epoch

\* checked_total_sol_debt() is Some, and its value.
is_total_sol_debt_some(e) == total_solana_validator_debt[e] >= uncollectible_sol_debt[e]
total_sol_debt(e) == total_solana_validator_debt[e] - uncollectible_sol_debt[e]

\* Faulty variant: integrations are left out of the total.
collected_without_integrations(e) ==
  collected_prepaid_2z_payments[e] + collected_2z_converted_from_sol[e]

total_collected_2z_tokens(e) ==
  collected_prepaid_2z_payments[e] + collected_2z_converted_from_sol[e]
    + collected_2z_from_integrations[e]

\* Faulty variant: the distribution waits for integrations registered after it.
are_all_registered_collected(e) == integrations_collected_count[e] >= integrations_count

are_all_integrations_collected(e) ==
  integrations_collected_count[e] >= integrations_count_snapshot[e]

are_all_rewards_distributed(e) ==
  saturating_sub(total_contributors[e], distributed_rewards_count[e]) = 0

is_all_solana_validator_debt_processed(e) ==
  saturating_sub(saturating_sub(total_solana_validators[e], solana_validator_payments_count[e]),
                 solana_validator_write_off_count[e]) = 0

\* x + y and x - y on u64 amounts, which wrap: the release profile has no overflow checks.
wrapping_add(x, y) == (x + y) % U64
wrapping_sub(x, y) == (x - y) % U64

\* share.mul_scalar(x), max being the share that stands for the whole.
mul_scalar(share, x, max) == (share * x) \div max

\* A proof whose leaf index is i leads from this leaf to this root.
is_proven(root, i, leaf) == i < Len(root) /\ root[i + 1] = leaf

\* Rent sysvar: the balance a Distribution account needs for its data.
minimum_balance(len) == RentBase + RentPerByte * len

\* Bytes of a bitmap with one bit for each of n leaves.
bitmap_bytes(n) == IF n % 8 = 0 THEN n \div 8 ELSE n \div 8 + 1

\* Faulty variant: the byte offset is taken for a bit offset.
leaf_bit_unscaled(range, i) == range.start + i

\* The bit for leaf i of a bitmap, as a position in the remaining data.
leaf_bit(range, i) == 8 * range.start + i

\* Faulty variant: the bit of the leaf is not read.
is_leaf_in_range(data, range, i) == i \div 8 < range.end - range.start

\* try_process_remaining_data_leaf_index() succeeds: the bitmap has a byte for
\* the leaf and its bit is not set yet.
is_leaf_unprocessed(data, range, i) ==
  /\ i \div 8 < range.end - range.start
  /\ leaf_bit(range, i) \notin data

\* Faulty variant: the bitmap starts where the remaining data starts.
range_from_start(e, n) == [start |-> 0, end |-> bitmap_bytes(n)]

\* The bitmap for n leaves that an instruction appends to the remaining data.
appended_range(e, n) ==
  [start |-> remaining_data_len[e], end |-> remaining_data_len[e] + bitmap_bytes(n)]

\* Lamports the payer adds so that the grown account is rent-exempt.
additional_lamports_for_resize(e, n) ==
  saturating_sub(minimum_balance(remaining_data_len[e] + bitmap_bytes(n)),
                 distribution_lamports[e])

\* The account grows by a bitmap for n leaves and receives extra more lamports.
resize(e, n, extra) ==
  /\ remaining_data_len' = [remaining_data_len EXCEPT ![e] = @ + bitmap_bytes(n)]
  /\ distribution_lamports' =
        [distribution_lamports EXCEPT ![e] = @ + additional_lamports_for_resize(e, n) + extra]

\* Lamports of a deposit account above its rent exemption.
excess_lamports(n) == saturating_sub(deposit_lamports[n], DepositRent)
=============================================================================
