----------------------------- MODULE MCPassport -----------------------------
(***************************************************************************)
(* A small instance of the passport program: every wallet may become       *)
(* admin, sentinel or requester, rents are 1 lamport, and the deposits are *)
(* as low as the rules allow.                                              *)
(***************************************************************************)
EXTENDS Passport

CONSTANTS w1, w2, s1, s2

\* Enough for the config, a request and a transfer each.
MCLamports == [a \in Accounts |-> IF a \in Wallets THEN 4 ELSE 0]

\* Two valid settings, a deposit of zero, and fees at and above their deposits.
MCDeposits == {[deposit |-> 1, fee |-> 0], [deposit |-> 2, fee |-> 1], [deposit |-> 0, fee |-> 0],
               [deposit |-> 1, fee |-> 1], [deposit |-> 1, fee |-> 3]}
=============================================================================
