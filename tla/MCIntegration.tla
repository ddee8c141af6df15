---------------------------- MODULE MCIntegration ----------------------------
(***************************************************************************)
(* Two epochs and a mock integration whose accounts may be prepared for    *)
(* either, both or neither of them.                                        *)
(***************************************************************************)
EXTENDS MCRevenue, MockIntegration
=============================================================================
