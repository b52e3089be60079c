------------------------------- MODULE CartMC -------------------------------
(* Small instances of Cart for TLC.                                           *)
EXTENDS Cart, TLC

Symmetry == Permutations(Calls) \cup Permutations(Goods)
=============================================================================
