-------------------------------- MODULE Cart --------------------------------
(* The shopping cart of one user in order_srv: CreateCartItem, UpdateCartItem *)
(* and DeleteCartItem (order_srv/handler/order.go), and what placing an order *)
(* reads from and deletes in the cart (order_srv/handler/rockermq.go).  Every *)
(* statement names the user, so carts of different users never meet.          *)
(*                                                                            *)
(* CreateCartItem and UpdateCartItem read a row and save it later, without a  *)
(* transaction; every other call may write in between.                        *)
EXTENDS Gorm

CONSTANTS
    Calls,      \* calls of the handlers that may run at a time
    Goods,      \* goods ids
    RowIds,     \* ids of table shoppingcart (a bound: no row once they are used up)
    Amounts,    \* Nums of a CreateCartItem
    Levels,     \* Nums of an UpdateCartItem, 0 when it only carries Checked
    MaxNums,    \* a bound: no call is started that would raise a row's Nums above it
    None        \* not in the cart

ASSUME CartAssumption ==
    /\ RowIds \subseteq Int \ {0}
    /\ Amounts \subseteq Int
    /\ Levels \subseteq Int
    /\ MaxNums \in Int
    /\ None \notin [nums : Int, checked : BOOLEAN]

VARIABLES
    rows,       \* table shoppingcart
    pc,         \* what each call has read and not written yet
    at,         \* the id of the struct it holds, 0 for a new one
    image,      \* the struct it will save
    ordered,    \* the amounts it orders, by goods (goodsNumsMap)
    touched,    \* goods written by other calls since it read, or that its read missed
    torn        \* goods on which a call saved what another call had made stale

cartVars == <<rows, pc, at, image, ordered, touched, torn>>

Item == [state : {"live"}, goods : Goods, nums : Int, checked : BOOLEAN]

CartInit ==
    /\ rows = [i \in RowIds |-> Free]
    /\ pc = [c \in Calls |-> "idle"]
    /\ at = [c \in Calls |-> 0]
    /\ image = [c \in Calls |-> Free]
    /\ ordered = [c \in Calls |-> [g \in Goods |-> 0]]
    /\ touched = [c \in Calls |-> {}]
    /\ torn = {}

RowsOf(g) == {i \in Live(rows) : rows[i].goods = g}
Checked   == {i \in Live(rows) : rows[i].checked}

(* Call c has read and now holds a struct, or what it orders.                 *)
Hold(c, state) ==
    /\ pc' = [pc EXCEPT ![c] = state]
    /\ touched' = [touched EXCEPT ![c] = {}]
    /\ UNCHANGED <<rows, torn>>

(* Mutant: the struct of the last request is not reset.                       *)
AnswerKeepingStruct(c, written) ==
    /\ pc' = [pc EXCEPT ![c] = "idle"]
    /\ at' = [at EXCEPT ![c] = 0]
    /\ UNCHANGED image
    /\ ordered' = [ordered EXCEPT ![c] = [g \in Goods |-> 0]]
    /\ touched' = [d \in Calls |-> IF d = c \/ pc[d] = "idle" THEN {} ELSE touched[d] \cup written]

(* Call c has answered, having written rows of the goods written.             *)
Answer(c, written) ==
    /\ pc' = [pc EXCEPT ![c] = "idle"]
    /\ at' = [at EXCEPT ![c] = 0]
    /\ image' = [image EXCEPT ![c] = Free]
    /\ ordered' = [ordered EXCEPT ![c] = [g \in Goods |-> 0]]
    /\ touched' = [d \in Calls |-> IF d = c \/ pc[d] = "idle" THEN {} ELSE touched[d] \cup written]

-----------------------------------------------------------------------------
(* Mutant: the condition is built with Checked and misses the checked rows.   *)
CreateCartItemUnchecked(c, g, n) ==
    /\ pc[c] = "idle"
    /\ \/ \E i \in RowIds :
             /\ IsFirst(i, RowsOf(g) \ Checked)
             /\ rows[i].nums + n <= MaxNums
             /\ at' = [at EXCEPT ![c] = i]
             /\ image' = [image EXCEPT ![c] = [rows[i] EXCEPT !.nums = @ + n]]
       \/ /\ RowsOf(g) \subseteq Checked
          /\ UNCHANGED at
          /\ image' = [image EXCEPT ![c] =
                [state |-> "live", goods |-> g, nums |-> n, checked |-> FALSE]]
    /\ Hold(c, "adding")
    /\ UNCHANGED ordered

(* CreateCartItem reads the row of the goods, if there is one, and adds.      *)
CreateCartItem(c, g, n) ==
    /\ pc[c] = "idle"
    /\ \/ \E i \in RowIds :
             /\ IsFirst(i, RowsOf(g))
             /\ rows[i].nums + n <= MaxNums
             /\ at' = [at EXCEPT ![c] = i]
             /\ image' = [image EXCEPT ![c] = [rows[i] EXCEPT !.nums = @ + n]]
       \/ /\ RowsOf(g) = {}
          /\ UNCHANGED at
          /\ image' = [image EXCEPT ![c] =
                [state |-> "live", goods |-> g, nums |-> n, checked |-> FALSE]]
    /\ Hold(c, "adding")
    /\ UNCHANGED ordered

(* CreateCartItem's read fails: RowsAffected is 0, as if there were no row.   *)
CreateCartItemReadFails(c, g, n) ==
    /\ pc[c] = "idle"
    /\ RowsOf(g) # {}
    /\ image' = [image EXCEPT ![c] =
          [state |-> "live", goods |-> g, nums |-> n, checked |-> FALSE]]
    /\ pc' = [pc EXCEPT ![c] = "adding"]
    /\ touched' = [touched EXCEPT ![c] = {g}]
    /\ UNCHANGED <<rows, torn, at, ordered>>

(* Mutant: Nums is assigned even when the request does not carry it.          *)
UpdateCartItemBlindly(c, g, n, checked) ==
    /\ pc[c] = "idle"
    /\ \E i \in RowIds :
          /\ IsFirst(i, RowsOf(g))
          /\ at' = [at EXCEPT ![c] = i]
          /\ image' = [image EXCEPT ![c] = [rows[i] EXCEPT !.checked = checked, !.nums = n]]
    /\ Hold(c, "setting")
    /\ UNCHANGED ordered

(* UpdateCartItem reads the row of the goods and sets what the request says;  *)
(* without a row it answers InvalidArgument and changes nothing.              *)
UpdateCartItem(c, g, n, checked) ==
    /\ pc[c] = "idle"
    /\ \E i \in RowIds :
          /\ IsFirst(i, RowsOf(g))
          /\ at' = [at EXCEPT ![c] = i]
          /\ image' = [image EXCEPT ![c] = [rows[i] EXCEPT !.checked = checked,
                                                           !.nums = IF n > 0 THEN n ELSE @]]
    /\ Hold(c, "setting")
    /\ UNCHANGED ordered

(* The Save both end with.  Its error is dropped.                             *)
SaveItem(c) ==
    LET g == image[c].goods
    IN  /\ \E i \in RowIds :
              /\ IF at[c] = 0 THEN IsNextId(i, rows) ELSE i = at[c]
              /\ rows' = Save(rows, i, image[c])
        /\ torn' = IF g \in touched[c] THEN torn \cup {g} ELSE torn
        /\ Answer(c, {g})

CreateCartItemSaves(c) == pc[c] = "adding" /\ SaveItem(c)
UpdateCartItemSaves(c) == pc[c] = "setting" /\ SaveItem(c)

(* The database refuses: the client is told that all went well.               *)
SaveFails(c) ==
    /\ pc[c] \in {"adding", "setting"}
    /\ Answer(c, {})
    /\ UNCHANGED <<rows, torn>>

(* DeleteCartItem is one statement: every row of the goods goes.              *)
DeleteCartItem(c, g) ==
    /\ pc[c] = "idle"
    /\ RowsOf(g) # {}
    /\ rows' = SoftDelete(rows, RowsOf(g))
    /\ torn' = torn \ {g}
    /\ Answer(c, {g})

-----------------------------------------------------------------------------
(* Placing an order.                                                          *)

CheckedOf(g) == {i \in Checked : rows[i].goods = g}

(* goodsNumsMap: of several rows of a goods the last one read counts.         *)
GoodsNums(g, n) ==
    \/ CheckedOf(g) = {} /\ n = 0
    \/ \E i \in CheckedOf(g) :
          /\ \A j \in CheckedOf(g) : j <= i
          /\ n = rows[i].nums

(* The listener reads the checked rows; without one the order is refused.     *)
PlaceOrder(c) ==
    /\ pc[c] = "idle"
    /\ Checked # {}
    /\ \E amounts \in [Goods -> {0} \cup {rows[i].nums : i \in Checked}] :
          /\ \A g \in Goods : GoodsNums(g, amounts[g])
          /\ ordered' = [ordered EXCEPT ![c] = amounts]
    /\ Hold(c, "placing")
    /\ UNCHANGED <<at, image>>

(* Mutant: the Delete lost the condition on Checked.                          *)
PlaceOrderEmptiesCart(c) ==
    /\ pc[c] = "placing"
    /\ Checked # {}
    /\ rows' = SoftDelete(rows, Live(rows))
    /\ torn' = {}
    /\ Answer(c, {rows[i].goods : i \in Live(rows)})

(* Its transaction deletes the rows that are checked by then and commits.  It *)
(* is one step: from the statement to the commit InnoDB lets no other call    *)
(* write the rows of this user.                                               *)
PlaceOrderCommits(c) ==
    /\ pc[c] = "placing"
    /\ Checked # {}
    /\ rows' = SoftDelete(rows, Checked)
    /\ torn' = {g \in torn : RowsOf(g) \ Checked # {}}
    /\ Answer(c, {rows[i].goods : i \in Checked})

(* A step of the transaction fails, or no row is checked any more: rollback.  *)
PlaceOrderRollsBack(c) ==
    /\ pc[c] = "placing"
    /\ Answer(c, {})
    /\ UNCHANGED <<rows, torn>>

CartNext ==
    \E c \in Calls :
        \/ \E g \in Goods, n \in Amounts : CreateCartItem(c, g, n)
        \/ \E g \in Goods, n \in Amounts : CreateCartItemReadFails(c, g, n)
        \/ \E g \in Goods, n \in Levels, checked \in BOOLEAN : UpdateCartItem(c, g, n, checked)
        \/ CreateCartItemSaves(c)
        \/ UpdateCartItemSaves(c)
        \/ SaveFails(c)
        \/ \E g \in Goods : DeleteCartItem(c, g)
        \/ PlaceOrder(c)
        \/ PlaceOrderCommits(c)
        \/ PlaceOrderRollsBack(c)

CartSpec == CartInit /\ [][CartNext]_cartVars

-----------------------------------------------------------------------------
(* Properties.                                                                *)

(* The types of the variables, and that a call holds a struct exactly while   *)
(* it is between its read and its Save.                                       *)
CartTypeOK ==
    /\ rows \in [RowIds -> Item \cup {Free, Deleted}]
    /\ pc \in [Calls -> {"idle", "adding", "setting", "placing"}]
    /\ at \in [Calls -> RowIds \cup {0}]
    /\ image \in [Calls -> Item \cup {Free}]
    /\ ordered \in [Calls -> [Goods -> Int]]
    /\ touched \in [Calls -> SUBSET Goods]
    /\ torn \subseteq Goods
    /\ \A c \in Calls : pc[c] \in {"adding", "setting"} <=> image[c] # Free

(* A goods has one row in the cart, unless a call saved it from a read that   *)
(* had failed or that another call had overtaken.  The comment of             *)
(* CreateCartItem (an item that exists gets a new number, only one that does  *)
(* not is created) needs it, and nothing in the table enforces it:            *)
(* shoppingcart has no unique index.                                          *)
OneRowPerGoods ==
    \A i, j \in Live(rows) :
        rows[i].goods = rows[j].goods /\ rows[i].goods \notin torn => i = j

(* An order that commits takes out of the cart what it orders: of each goods  *)
(* that is not torn and that no other call wrote since the order read it, the *)
(* rows it deletes hold the amount that was ordered and sold, and when it     *)
(* deletes none it orders none.                                               *)
OrdersWhatItTakes ==
    [][\A c \in Calls : PlaceOrderCommits(c) =>
          \A g \in Goods \ (torn \cup touched[c]) :
             LET taken == RowsOf(g) \ Live(rows')
             IN  /\ \A i \in taken : rows[i].nums = ordered[c][g]
                 /\ taken = {} => ordered[c][g] = 0]_cartVars

(* The cart as a user sees it: what First finds of each goods.                *)
Entries(g) ==
    {[nums |-> rows[i].nums, checked |-> rows[i].checked] :
        i \in {j \in RowIds : IsFirst(j, RowsOf(g))}}

OneOf(S) == CHOOSE e \in S : TRUE

Seen(g) == IF RowsOf(g) = {} THEN None ELSE OneOf(Entries(g))

Promise == INSTANCE CartPromise WITH cart <- [g \in Goods |-> Seen(g)]

(* The handlers' reads and writes amount to one atomic step per call on every *)
(* goods that is not torn: no addition is lost, no amount is set back, and no *)
(* item an order or a DeleteCartItem took out comes back.                     *)
CartKeepsPromise == Promise!Spec
=============================================================================
