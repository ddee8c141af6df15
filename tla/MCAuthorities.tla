--------------------------- MODULE MCAuthorities ---------------------------
(***************************************************************************)
(* A small instance: two keys for every role (and none), so that roles are *)
(* shared, swapped and vacated, and an upgrade authority of its own.       *)
(***************************************************************************)
EXTENDS Authorities

CONSTANTS k1, k2, u, c1, s1

\* The whole to one key, an empty list, shares that exceed the whole, and the zero key.
MCRecipientLists ==
  {<<>>, <<[recipient_key |-> k1, share |-> 2]>>,
   <<[recipient_key |-> k1, share |-> 1], [recipient_key |-> k2, share |-> 1]>>,
   <<[recipient_key |-> k1, share |-> 2], [recipient_key |-> k2, share |-> 1]>>,
   <<[recipient_key |-> DEFAULT_KEY, share |-> 2]>>}
=============================================================================
