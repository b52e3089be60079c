---------------------------- MODULE CartPromise -----------------------------
(* What the cart handlers of order_srv promise a user, one atomic step per    *)
(* call: a goods is in the cart once, adding it again adds up, and placing an *)
(* order takes the checked goods out.  The promise is kept for each goods on  *)
(* which no call saved what an overlapping call had made stale (torn): of a   *)
(* torn goods nothing is promised until it is taken out of the cart.          *)
(* Cart.tla, which models the handlers' reads and writes, implements this.    *)
EXTENDS Integers

CONSTANTS
    Goods,      \* goods ids
    Amounts,    \* amounts a CreateCartItem may carry
    Levels,     \* amounts an UpdateCartItem may carry; 0 and less leave the amount alone
    None        \* not in the cart

VARIABLES
    cart,       \* what the cart holds of each goods: [nums, checked] or None
    torn        \* the goods of which nothing is promised

pvars == <<cart, torn>>

Init == cart = [g \in Goods |-> None] /\ torn = {}

Add(g, n) ==
    /\ UNCHANGED torn
    /\ \/ cart[g] = None /\ cart'[g] = [nums |-> n, checked |-> FALSE]
       \/ cart[g] # None /\ cart'[g] = [cart[g] EXCEPT !.nums = @ + n]

Set(g, n, c) ==
    /\ UNCHANGED torn
    /\ cart[g] # None
    /\ cart'[g] = [nums |-> IF n > 0 THEN n ELSE cart[g].nums, checked |-> c]

Remove(g) == cart'[g] = None /\ torn' = torn \ {g}

(* A call that saves what is stale may do anything to g, which is torn then.  *)
Tear(g) == torn' = torn \cup {g}

(* A call on g.                                                               *)
Call(g) ==
    /\ \A h \in Goods \ {g} : cart'[h] = cart[h]
    /\ \/ Tear(g)
       \/ Remove(g)
       \/ \E n \in Amounts : Add(g, n)
       \/ \E n \in Levels, c \in BOOLEAN : Set(g, n, c)

(* An order takes every checked goods and no other.                           *)
Settle ==
    /\ torn' \subseteq torn
    /\ \A g \in Goods \ torn :
          cart'[g] = IF cart[g] # None /\ cart[g].checked THEN None ELSE cart[g]
    /\ \A g \in torn \ torn' : cart'[g] = None

Next == (\E g \in Goods : Call(g)) \/ Settle

Spec == Init /\ [][Next]_pvars
=============================================================================
