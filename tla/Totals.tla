------------------------------- MODULE Totals -------------------------------
(***************************************************************************)
(* Sums of the values of a function.                                       *)
(*                                                                         *)
(* The programs keep amounts of lamports and of 2Z base units: natural     *)
(* numbers, one per account.  The sum of the amounts that a function f     *)
(* gives its arguments is the number of base units: each unit is named by  *)
(* its owner x and by a number between 1 and f[x].  Counting the units     *)
(* needs no recursion, so what changing one amount does to the sum is a    *)
(* fact about finite sets (TotalsTheorems).                                *)
(***************************************************************************)
EXTENDS Integers, FiniteSets

\* The base units that f counts.
Units(f) == UNION {{x} \X (1..f[x]) : x \in DOMAIN f}

\* The sum of f[x] for x in the domain of f.
Total(f) == Cardinality(Units(f))
=============================================================================
