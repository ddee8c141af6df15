------------------------------ MODULE MockSwap ------------------------------
(***************************************************************************)
(* The mock SOL/2Z swap program of the repository, composed with the       *)
(* revenue-distribution program: buying SOL records a fill in a registry   *)
(* and withdraws the SOL from the journal, and a sweep dequeues the fill   *)
(* that pays for the epoch's debt.                                         *)
(***************************************************************************)
EXTENDS RevenueProperties

CONSTANT FILLS_CAPACITY  \* 8 in the code; a fill is named by its slot

Slots == 0..(FILLS_CAPACITY - 1)

VARIABLES registry_exists, fills_count, head, fills

registryVars == <<registry_exists, fills_count, head, fills>>

NoFill == [amount_sol_in |-> 0, amount_2z_out |-> 0]

FillsInit ==
  /\ Init
  /\ registry_exists = FALSE
  /\ fills_count = 0 /\ head = 0
  /\ fills = [s \in Slots |-> NoFill]

\* The account's discriminator is still zero.
is_uninitialized == ~registry_exists

InitializeFillsRegistry ==
  /\ is_uninitialized
  /\ registry_exists' = TRUE
  /\ UNCHANGED <<vars, fills_count, head, fills>>

\* The buyer's 2Z goes to the swap destination, and the program withdraws the SOL.
BuySol(amount_2z_in, amount_sol_out) ==
  /\ registry_exists
  /\ fills_count # FILLS_CAPACITY
  /\ fills' = [fills EXCEPT ![fills_count] =
                 [amount_sol_in |-> amount_sol_out, amount_2z_out |-> amount_2z_in]]
  /\ fills_count' = fills_count + 1
  /\ WithdrawSol(amount_sol_out, amount_2z_in)
  /\ UNCHANGED <<registry_exists, head>>

\* The oldest fill must be for exactly the SOL that the caller asks for.
DequeueFills(max_sol_amount) ==
  /\ registry_exists
  /\ fills_count # 0
  /\ fills[head].amount_sol_in = max_sol_amount
  /\ head' = (head + 1) % FILLS_CAPACITY
  /\ fills_count' = fills_count - 1
  /\ UNCHANGED <<registry_exists, fills>>

\* A sweep calls the swap program unless the epoch has no debt.
SweepWithFills(e) ==
  \/ total_sol_debt(e) = 0 /\ SweepDistributionTokens(e, 0) /\ UNCHANGED registryVars
  \/ /\ total_sol_debt(e) # 0
     /\ DequeueFills(total_sol_debt(e))
     /\ SweepDistributionTokens(e, fills[head].amount_2z_out)

FillsNext ==
  \/ OwnStep /\ UNCHANGED registryVars
  \/ (\E e \in Epochs, p \in Integrations : Collect(e, p)) /\ UNCHANGED registryVars
  \/ InitializeFillsRegistry
  \/ \E amount_2z_in \in TokenAmounts, amount_sol_out \in SwapAmounts :
        BuySol(amount_2z_in, amount_sol_out)
  \/ \E e \in Epochs : SweepWithFills(e)

FillsSpec == FillsInit /\ [][FillsNext]_<<vars, registryVars>>

\* The fills that a sequence of dequeues will return, oldest first, by distance from the
\* head.
outstanding == [d \in 0..(fills_count - 1) |-> fills[(head + d) % FILLS_CAPACITY]]

\* The fills still to be dequeued account for the SOL that was swapped and not swept and
\* for the 2Z that waits for a sweep, as the sweep's call to the swap program
\* (try_sweep_distribution_tokens) relies on.
FillsBackSwapDestination ==
  /\ Total([d \in DOMAIN outstanding |-> outstanding[d].amount_sol_in]) = swapped_sol_amount
  /\ Total([d \in DOMAIN outstanding |-> outstanding[d].amount_2z_out]) =
        swap_2z_destination_balance
=============================================================================
