---------------------------- MODULE InventoryMC ----------------------------
(* Small instances of Inventory for TLC.                                      *)
EXTENDS Inventory, TLC

CONSTANTS g1, g2, o1, o2, s1, s2, s3

(* Two goods, asked for in both orders, so that two transactions can lock     *)
(* their rows the opposite way round; and one request for a single goods.     *)
MCRequests ==
    {<<[goods |-> g1, num |-> 1], [goods |-> g2, num |-> 1]>>,
     <<[goods |-> g2, num |-> 2], [goods |-> g1, num |-> 1]>>}

(* One amount below zero, which no handler refuses, and a request with no     *)
(* goods, which is what rockermq.go sends when BatchGetGoods finds none of    *)
(* the ids in the cart.                                                       *)
MCRequestsOfAnyKind ==
    {<<[goods |-> g1, num |-> 1], [goods |-> g2, num |-> -1]>>,
     <<[goods |-> g2, num |-> 2], [goods |-> g1, num |-> 1]>>,
     <<>>}

(* Sessions are interchangeable, and so are order numbers: nothing is chosen  *)
(* among them.                                                                *)
SessionAndOrderSymmetry == Permutations(Sessions) \cup Permutations(Orders)
=============================================================================
