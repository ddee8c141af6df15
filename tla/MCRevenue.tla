------------------------------ MODULE MCRevenue ------------------------------
(***************************************************************************)
(* Small instances of the revenue-distribution program for TLC.  Shares    *)
(* are parts of 4, one byte of rent costs 1 lamport, and the community     *)
(* burn rate goes from 1/4 to 2/4.                                         *)
(***************************************************************************)
EXTENDS RevenueProperties

CONSTANTS n1, n2, c1, c2, p1, p2

MCBurnRate ==
  updated(with_initial_rate(1), 2, 1, 2)

\* The configuration before the first epoch; write-offs are activated by the argument.
MCConfig(activation_epoch) ==
  [calculation_grace_period |-> 1,
   initialization_grace_period |-> 1,
   minimum_epoch_duration_to_finalize_rewards |-> 1,
   distribute_rewards_lamports |-> 1,
   has_solana_validator_fees |-> TRUE,
   debt_write_off_feature_activation_epoch |-> activation_epoch,
   community_burn_rate_parameters |-> MCBurnRate]
WriteOffConfig == MCConfig(1)
NoWriteOffConfig == MCConfig(0)

\* No change of the configuration after the first epoch.
FixedSettings ==
  [is_paused |-> {},
   calculation_grace_period |-> {},
   initialization_grace_period |-> {},
   minimum_epoch_duration_to_finalize_rewards |-> {},
   distribute_rewards_lamports |-> {},
   has_solana_validator_fees |-> {},
   debt_write_off_feature_activation_epoch |-> {},
   initial_burn_rate |-> {},
   community_burn_rate |-> {}]

\* Two debts of two validators, or one debt of the first.
TwoDebts == [validators |-> 2, debt |-> 3,
             leaves |-> <<[node |-> n1, amount |-> 1], [node |-> n2, amount |-> 2]>>]
OneDebt == [validators |-> 1, debt |-> 2, leaves |-> <<[node |-> n1, amount |-> 2]>>]
BothDebts == {TwoDebts, OneDebt}
OnlyTwoDebts == {TwoDebts}
OnlyOneDebt == {OneDebt}

Reward(c, share, rate) ==
  [service_key |-> c, unit_share |-> share, economic_burn_rate |-> rate, is_blocked |-> FALSE]
OneReward == [contributors |-> 1, leaves |-> <<Reward(c1, 4, 0)>>]
OnlyOneReward == {OneReward}

\* Two rewards that make up less than the whole, with odd shares and a burn rate of
\* their own, and the null root.
TwoRewards == [contributors |-> 2, leaves |-> <<Reward(c1, 2, 0), Reward(c2, 1, 3)>>]
NullRewards == [contributors |-> 0, leaves |-> <<>>]
OnlyTwoRewards == {TwoRewards}
RewardsOrNull == {TwoRewards, NullRewards}

WholeShare == {<<4>>}
SplitShares == {<<4>>, <<1, 3>>}

\* Nine rewards, so that their bitmap takes two bytes, or the null root.
NineRewards == [contributors |-> 9, leaves |-> [j \in 1..9 |-> Reward(c1, IF j = 9 THEN 2 ELSE 0, 0)]]
NineOrNull == {NineRewards, NullRewards}

\* The burn rate is rescheduled, faster, slower and with another limit, at any time, and
\* the grace periods are changed.
BurnRateSettings ==
  [FixedSettings EXCEPT
     !.initialization_grace_period = {0, 2},
     !.calculation_grace_period = {0, 2},
     !.initial_burn_rate = {0, 2},
     !.community_burn_rate = [limit : {1, 2, 4}, to_increasing : {0, 1, 2}, to_limit : {1, 3}]]

\* Everything else is reconfigured; the zeros are rejected.
OtherSettings ==
  [FixedSettings EXCEPT
     !.is_paused = {TRUE, FALSE},
     !.minimum_epoch_duration_to_finalize_rewards = {0, 2},
     !.distribute_rewards_lamports = {0, 1, 2},
     !.has_solana_validator_fees = {FALSE},
     !.debt_write_off_feature_activation_epoch = {0, 9}]
=============================================================================
