----------------------------- MODULE SellItems -----------------------------
(* The lists of goods that order_srv and inventory_srv pass to each other:    *)
(* SellInfo.GoodsInfo on the wire, StockSellDetail.Detail in the table.  A    *)
(* list keeps its order, because Sell and AutoReback lock rows in that order. *)
EXTENDS Integers, Sequences

(* The goods a list names. *)
GoodsOf(items) == {items[k].goods : k \in 1..Len(items)}

(* A list names each goods once: rockermq.go:72-86 builds it from the rows    *)
(* BatchGetGoods returns, one row per id.                                     *)
Distinct(items) ==
    \A j, k \in 1..Len(items) : items[j].goods = items[k].goods => j = k

(* How many of g a list asks for. *)
NumOf(items, g) ==
    IF g \in GoodsOf(items)
    THEN items[CHOOSE k \in 1..Len(items) : items[k].goods = g].num
    ELSE 0

(* Every list over goods G, with amounts in N, that names each goods once. *)
IsItemList(items, G, N) ==
    /\ items \in Seq([goods : G, num : N])
    /\ Distinct(items)
=============================================================================
