---------------------------- MODULE StockLedger ----------------------------
(* What inventory_srv promises to its callers, one atomic step per promise:   *)
(* an order's goods leave the stock together or not at all, only from stock   *)
(* that is there, once per order number, and come back at most once.          *)
(* Inventory.tla, which models the statements, locks and transactions of the  *)
(* handlers, implements this specification.                                   *)
EXTENDS SellItems, FiniteSetsExt

CONSTANTS
    Goods,      \* goods ids
    Orders,     \* order numbers
    Requests,   \* the item lists a Sell may carry
    Levels,     \* the amounts a SetInv may carry
    None        \* no row

VARIABLES
    stocks,     \* inventory.stocks by goods, None before the first SetInv
    status,     \* stockselldetail.status by order: 0 no row, 1 deducted, 2 returned
    detail      \* stockselldetail.detail by order

lvars == <<stocks, status, detail>>

Init ==
    /\ stocks = [g \in Goods |-> None]
    /\ status = [o \in Orders |-> 0]
    /\ detail = [o \in Orders |-> <<>>]

(* SetInv: the stock of g becomes n, whatever it was. *)
Set(g, n) ==
    /\ stocks' = [stocks EXCEPT ![g] = n]
    /\ UNCHANGED <<status, detail>>

Available(items) ==
    \A g \in GoodsOf(items) : stocks[g] # None /\ stocks[g] >= NumOf(items, g)

(* Sell: order o takes all of its items and its row remembers them. *)
Sell(o, items) ==
    /\ status[o] = 0
    /\ Available(items)
    /\ stocks' = [g \in Goods |-> IF g \in GoodsOf(items)
                                  THEN stocks[g] - NumOf(items, g)
                                  ELSE stocks[g]]
    /\ status' = [status EXCEPT ![o] = 1]
    /\ detail' = [detail EXCEPT ![o] = items]

(* AutoReback: what order o took goes back, and its row says so. *)
Return(o) ==
    /\ status[o] = 1
    /\ stocks' = [g \in Goods |-> IF g \in GoodsOf(detail[o])
                                  THEN stocks[g] + NumOf(detail[o], g)
                                  ELSE stocks[g]]
    /\ status' = [status EXCEPT ![o] = 2]
    /\ UNCHANGED detail

Next ==
    \/ \E g \in Goods, n \in Levels : Set(g, n)
    \/ \E o \in Orders, items \in Requests : Sell(o, items)
    \/ \E o \in Orders : Return(o)

Spec == Init /\ [][Next]_lvars

-----------------------------------------------------------------------------
(* What the orders still hold of g: deducted and not returned. *)
Held(g) ==
    LET held == {o \in Orders : status[o] = 1}
    IN  MapThenSumSet(LAMBDA o : NumOf(detail[o], g), held)

(* The stock of g together with what the orders hold of it; 0 without a row.  *)
Total(g) == (IF stocks[g] = None THEN 0 ELSE stocks[g]) + Held(g)

(* A step that sells or returns moves goods between the shelf and the orders  *)
(* and neither creates nor loses any: only a step that leaves every order     *)
(* alone (SetInv) may change a total, and then of one goods.                  *)
Conservation ==
    [][IF status' = status
       THEN \A g, h \in Goods : Total(g)' # Total(g) /\ Total(h)' # Total(h) => g = h
       ELSE \A g \in Goods : Total(g)' = Total(g)]_lvars
=============================================================================
