-------------------------- MODULE CommunityBurnRate --------------------------
(***************************************************************************)
(* The schedule of the community burn rate kept in the program config      *)
(* (state/program_config/community_burn_rate.rs).  Rates are parts of      *)
(* MAX_SHARE.  The rate stays at its first value until                     *)
(* dz_epochs_to_increasing epochs have been computed, then grows by the    *)
(* cached slope and is at the limit after dz_epochs_to_limit epochs.       *)
(***************************************************************************)
EXTENDS Integers

CONSTANT MAX_SHARE   \* UnitShare32::MAX (10^9 in the program)

ASSUME MaxShareAssumption == MAX_SHARE \in Nat \ {0}

BurnRate == 0..MAX_SHARE

saturating_sub(a, b) == IF a > b THEN a - b ELSE 0

CommunityBurnRateParameters ==
  [limit : BurnRate,
   dz_epochs_to_increasing : Nat,
   dz_epochs_to_limit : Nat,
   cached_slope_numerator : BurnRate,
   cached_slope_denominator : Nat,
   cached_next_burn_rate : BurnRate]

\* The all-zero account: not configured.
DefaultCommunityBurnRate ==
  [limit |-> 0, dz_epochs_to_increasing |-> 0, dz_epochs_to_limit |-> 0,
   cached_slope_numerator |-> 0, cached_slope_denominator |-> 0,
   cached_next_burn_rate |-> 0]

\* next_burn_rate() is Some: the first rate has been configured.
has_next_burn_rate(p) == p.cached_next_burn_rate # 0

\* Faulty variant: the limit may be set below the rate already reached.
can_update_below_rate(p, limit, to_increasing, to_limit) ==
  to_increasing # 0 /\ to_limit >= to_increasing

\* The conditions under which checked_update changes the parameters.
can_update(p, limit, to_increasing, to_limit) ==
  /\ limit >= p.cached_next_burn_rate
  /\ to_increasing # 0
  /\ to_limit >= to_increasing

\* The parameters after checked_update, when can_update holds.
updated(p, limit, to_increasing, to_limit) ==
  [p EXCEPT !.limit = limit,
            !.dz_epochs_to_increasing = to_increasing,
            !.dz_epochs_to_limit = to_limit,
            !.cached_slope_numerator = limit - p.cached_next_burn_rate,
            !.cached_slope_denominator = (to_limit - to_increasing) + 1]

\* Parameters that have just been given their initial rate; new() then updates them.
with_initial_rate(initial_rate) ==
  [DefaultCommunityBurnRate EXCEPT !.cached_next_burn_rate = initial_rate]

\* The rate one step up the slope, never past the limit.
increased_rate(p) ==
  LET rate == (p.cached_next_burn_rate * p.cached_slope_denominator
                 + p.cached_slope_numerator) \div p.cached_slope_denominator
  IN  IF rate <= p.limit THEN rate ELSE p.limit

\* The next rate that checked_compute caches, given the epochs left after it
\* counted the current one.
next_cached_rate(p, to_increasing, to_limit) ==
  IF to_limit = 0 THEN p.limit
  ELSE IF to_increasing = 0 THEN increased_rate(p)
  ELSE p.cached_next_burn_rate

\* The parameters after checked_compute (which returns the rate cached before).
computed(p) ==
  LET to_limit      == saturating_sub(p.dz_epochs_to_limit, 1)
      to_increasing == saturating_sub(p.dz_epochs_to_increasing, 1)
  IN  [p EXCEPT !.dz_epochs_to_limit = to_limit,
                !.dz_epochs_to_increasing = to_increasing,
                !.cached_next_burn_rate = next_cached_rate(p, to_increasing, to_limit)]
=============================================================================
