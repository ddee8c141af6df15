--------------------------- MODULE SettlementLedger ---------------------------
(***************************************************************************)
(* What the revenue-distribution program promises, without its accounts:   *)
(* a ledger of two currencies.  Every epoch goes from "pending" through    *)
(* "open", "owed" and "approved" to "swept", the epochs are swept in       *)
(* order, each at the debt it still has, and only a swept epoch pays out.  *)
(* SOL enters by payments and leaves the pool in exchange for tokens;      *)
(* tokens enter by exchanges, gifts and deposits and leave by payouts.     *)
(*                                                                         *)
(* An amount is not a parameter of a step: it is what the step changes the *)
(* balances by, so that TLC can find it without enumerating Nat.           *)
(***************************************************************************)
EXTENDS Integers

CONSTANTS
  Epochs   \* the epochs the ledger settles

VARIABLES
  phase,     \* how far the settlement of each epoch has come
  owed,      \* SOL each epoch owes, net of what was forgiven
  sol,       \* SOL received and not exchanged yet
  swapped,   \* SOL exchanged and not used by a sweep yet
  tokens,    \* tokens received for it, or given, and not swept yet
  next,      \* the epoch that is swept next
  pot        \* tokens held for each epoch

ledgerVars == <<phase, owed, sol, swapped, tokens, next, pot>>

LedgerInit ==
  /\ phase = [e \in Epochs |-> "pending"]
  /\ owed = [e \in Epochs |-> 0]
  /\ sol = 0 /\ swapped = 0 /\ tokens = 0 /\ next = 0
  /\ pot = [e \in Epochs |-> 0]

\* Only the balance of this epoch changes.
OnlyAt(balance, changed, e) == changed = [balance EXCEPT ![e] = changed[e]]

\* The epoch opens with the tokens that were prepaid for it.
Open(e) ==
  /\ phase[e] = "pending"
  /\ phase' = [phase EXCEPT ![e] = "open"]
  /\ pot'[e] >= pot[e] /\ OnlyAt(pot, pot', e)
  /\ UNCHANGED <<owed, sol, swapped, tokens, next>>

\* The debt of an open epoch is set, as often as need be.
Assess(e) ==
  /\ phase[e] = "open"
  /\ owed'[e] \in Nat /\ OnlyAt(owed, owed', e)
  /\ UNCHANGED <<phase, sol, swapped, tokens, next, pot>>

CloseDebt(e) ==
  /\ phase[e] = "open"
  /\ phase' = [phase EXCEPT ![e] = "owed"]
  /\ UNCHANGED <<owed, sol, swapped, tokens, next, pot>>

\* A debt of an epoch whose debt is closed is paid, before or after its sweep.
Receive(e) ==
  /\ phase[e] \in {"owed", "approved", "swept"}
  /\ sol' >= sol
  /\ UNCHANGED <<phase, owed, swapped, tokens, next, pot>>

\* Debt is forgiven only while the epoch can still be swept for less.
Forgive(e) ==
  /\ phase[e] \in {"owed", "approved"}
  /\ owed'[e] \in 0..owed[e] /\ OnlyAt(owed, owed', e)
  /\ UNCHANGED <<phase, sol, swapped, tokens, next, pot>>

Approve(e) ==
  /\ phase[e] = "owed"
  /\ phase' = [phase EXCEPT ![e] = "approved"]
  /\ UNCHANGED <<owed, sol, swapped, tokens, next, pot>>

Exchange ==
  /\ sol' \in 0..sol
  /\ swapped' = swapped + (sol - sol')
  /\ tokens' >= tokens
  /\ UNCHANGED <<phase, owed, next, pot>>

\* Tokens given to the pool that the sweeps draw from.
Give ==
  /\ tokens' >= tokens
  /\ UNCHANGED <<phase, owed, sol, swapped, next, pot>>

\* An epoch without debt gets no tokens from the exchange.
SweepNext(e) ==
  /\ e = next
  /\ phase[e] = "approved"
  /\ owed[e] <= swapped
  /\ tokens' \in 0..tokens
  /\ owed[e] = 0 => tokens' = tokens
  /\ phase' = [phase EXCEPT ![e] = "swept"]
  /\ next' = next + 1
  /\ swapped' = swapped - owed[e]
  /\ pot' = [pot EXCEPT ![e] = @ + (tokens - tokens')]
  /\ UNCHANGED <<owed, sol>>

\* Tokens from other sources than the exchange.
Deposit(e) ==
  /\ phase[e] # "pending"
  /\ pot'[e] >= pot[e] /\ OnlyAt(pot, pot', e)
  /\ UNCHANGED <<phase, owed, sol, swapped, tokens, next>>

Payout(e) ==
  /\ phase[e] = "swept"
  /\ pot'[e] \in 0..pot[e] /\ OnlyAt(pot, pot', e)
  /\ UNCHANGED <<phase, owed, sol, swapped, tokens, next>>

LedgerNext ==
  \/ Exchange
  \/ Give
  \/ \E e \in Epochs :
       \/ Open(e) \/ Assess(e) \/ CloseDebt(e) \/ Receive(e) \/ Forgive(e)
       \/ Approve(e) \/ SweepNext(e) \/ Deposit(e) \/ Payout(e)

LedgerSpec == LedgerInit /\ [][LedgerNext]_ledgerVars
=============================================================================
