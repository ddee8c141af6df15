------------------------------- MODULE MCFills -------------------------------
(***************************************************************************)
(* Two epochs with one debt each, paid for by fills of the whole debt.     *)
(***************************************************************************)
EXTENDS MCRevenue, MockSwap
=============================================================================
