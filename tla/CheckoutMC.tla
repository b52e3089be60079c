----------------------------- MODULE CheckoutMC -----------------------------
(* Small instances of Checkout for TLC.                                       *)
EXTENDS Checkout, TLC

CONSTANTS g1, g2, c1, c2, u1, u2, o1, o2

(* A cart with a goods goods_srv does not know beside one it knows, and what  *)
(* is left of it.                                                             *)
MCRequests ==
    {<<[goods |-> g1, num |-> 1], [goods |-> g2, num |-> 1]>>,
     <<[goods |-> g1, num |-> 1]>>}

(* A cart that goods_srv knows and one of which it knows nothing. *)
MCRequestsAndUnknown ==
    {<<[goods |-> g1, num |-> 1]>>, <<[goods |-> g2, num |-> 1]>>}

Symmetry == Permutations(Calls) \cup Permutations(Orders) \cup Permutations(Users)
=============================================================================
