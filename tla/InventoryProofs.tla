-------------------------- MODULE InventoryProofs --------------------------
(* Safety of Inventory for any goods, orders, sessions, requests and faults.  *)
EXTENDS Inventory, SellItemsProofs

-----------------------------------------------------------------------------
(* The inductive invariant, in named parts.                                   *)

Selling   == {"sell", "sellCommit"}
Rebacking == {"reback", "rebackCommit"}
Setting   == {"setInsert", "setUpdate"}
Closing   == {"sellCommit", "rebackCommit"}

(* What a session's place in its handler says of its own variables. *)
SessionShape ==
    \A s \in Sessions :
        /\ pc[s] = "idle" => items[s] = <<>> /\ next[s] = 1
        /\ pc[s] \in Setting => items[s] \in SetLists /\ next[s] = 1
        /\ pc[s] \in InTx => sn[s] \in Orders
        /\ pc[s] \in Selling => items[s] \in Requests
        /\ pc[s] \in Closing => next[s] = Len(items[s]) + 1

(* A session has written exactly the rows its loop has passed. *)
WritesArePassed ==
    \A s \in Sessions, g \in Goods :
        writes[s][g] # None <=>
            pc[s] \in InTx /\ \E k \in 1..next[s] - 1 : items[s][k].goods = g

(* Row locks exclude: of one inventory row, and of one order's row. *)
Exclusion ==
    /\ \A s, t \in Sessions, g \in Goods :
            writes[s][g] # None /\ writes[t][g] # None => s = t
    /\ \A s, t \in Sessions :
            pc[s] \in Closing /\ pc[t] \in Closing /\ sn[s] = sn[t] => s = t

(* What a session relies on about the row of its order. *)
OrderRows ==
    \A s \in Sessions :
        /\ pc[s] = "sellCommit" => status[sn[s]] = 0
        /\ pc[s] = "rebackCommit" => status[sn[s]] = 1
        /\ pc[s] \in Rebacking => status[sn[s]] # 0 /\ items[s] = detail[sn[s]]

(* A sale commits no negative row. *)
SaleImages ==
    \A s \in Sessions, g \in Goods :
        pc[s] \in Selling /\ writes[s][g] # None => writes[s][g] >= 0

IInv ==
    /\ TypeOK
    /\ SessionShape
    /\ WritesArePassed
    /\ Exclusion
    /\ OrderRows
    /\ RowImagesFresh
    /\ SaleImages
    /\ HeldRowsExist

-----------------------------------------------------------------------------
(* Lists of goods.                                                            *)

(* Every list a session works through names each goods once. *)
LEMMA ListsAreItemLists ==
    ASSUME NEW l \in ItemLists
    PROVE  IsItemList(l, Goods, Int)
<1>1. CASE l \in Requests
  BY <1>1, InventoryAssumption
<1>2. CASE l \in SetLists
  <2>1. PICK g \in Goods, n \in Levels : l = <<[goods |-> g, num |-> n]>>
    BY <1>2 DEF SetLists
  <2>2. n \in Int
    BY InventoryAssumption
  <2> QED
    BY <2>1, <2>2 DEF IsItemList, Distinct
<1>3. CASE l = <<>>
  BY <1>3 DEF IsItemList, Distinct
<1> QED
  BY <1>1, <1>2, <1>3 DEF ItemLists

(* The item a session has reached is a goods and an amount. *)
LEMMA PendingItem ==
    ASSUME TypeOK, NEW s \in Sessions, Pending(s)
    PROVE  /\ next[s] \in 1..Len(items[s])
           /\ Item(s).goods \in Goods
           /\ Item(s).num \in Int
           /\ NumOf(items[s], Item(s).goods) = Item(s).num
<1>1. items[s] \in ItemLists
  BY DEF TypeOK
<1>2. IsItemList(items[s], Goods, Int)
  BY <1>1, ListsAreItemLists
<1>3. next[s] \in 1..Len(items[s])
  BY <1>2 DEF TypeOK, Pending, IsItemList
<1> QED
  BY <1>2, <1>3, NumOfItem DEF Item

-----------------------------------------------------------------------------
(* The invariant, one lemma for each kind of step.                            *)

LEMMA InitIInv == Init => IInv
<1> SUFFICES ASSUME Init PROVE IInv
  OBVIOUS
<1> USE DEF Init
<1>1. TypeOK
  BY DEF TypeOK, States, ItemLists
<1>2. SessionShape
  BY DEF SessionShape, Setting, InTx, Selling, Closing
<1>3. WritesArePassed
  BY DEF WritesArePassed, InTx
<1>4. Exclusion /\ OrderRows /\ RowImagesFresh /\ SaleImages
  BY DEF Exclusion, OrderRows, RowImagesFresh, SaleImages, Closing, Selling, Rebacking
<1>5. HeldRowsExist
  BY DEF HeldRowsExist, GoodsOf
<1> QED
  BY <1>1, <1>2, <1>3, <1>4, <1>5 DEF IInv

(* A session that returns leaves the other sessions' part of the invariant    *)
(* alone, as long as the tables still agree with them.                        *)
LEMMA ReturnSessions ==
    ASSUME IInv, NEW s \in Sessions, Return(s)
    PROVE  /\ pc' \in [Sessions -> States]
           /\ sn' \in [Sessions -> Orders \cup {None}]
           /\ items' \in [Sessions -> ItemLists]
           /\ next' \in [Sessions -> Nat]
           /\ \A t \in Sessions : next'[t] \in 1..Len(items'[t]) + 1
           /\ writes' \in [Sessions -> [Goods -> Int \cup {None}]]
           /\ SessionShape'
           /\ WritesArePassed'
           /\ Exclusion'
           /\ SaleImages'
<1> USE DEF IInv, TypeOK, Return
<1>1. /\ pc' \in [Sessions -> States]
      /\ sn' \in [Sessions -> Orders \cup {None}]
      /\ items' \in [Sessions -> ItemLists]
      /\ next' \in [Sessions -> Nat]
      /\ \A t \in Sessions : next'[t] \in 1..Len(items'[t]) + 1
      /\ writes' \in [Sessions -> [Goods -> Int \cup {None}]]
  BY DEF States, ItemLists
<1>2. SessionShape'
  BY DEF SessionShape, Setting, InTx, Selling, Closing
<1>3. WritesArePassed'
  BY DEF WritesArePassed, InTx
<1>4. Exclusion'
  BY DEF Exclusion, Closing
<1>5. SaleImages'
  BY DEF SaleImages, Selling
<1> QED
  BY <1>1, <1>2, <1>3, <1>4, <1>5

(* A transaction that ends without a commit. *)
LEMMA AbandonStep ==
    ASSUME IInv, NEW s \in Sessions, Return(s), UNCHANGED <<tables, leaked>>,
           confirmed' \in SUBSET Orders
    PROVE  IInv'
<1> USE DEF IInv, tables
<1>1. TypeOK'
  BY ReturnSessions DEF TypeOK
<1>2. SessionShape' /\ WritesArePassed' /\ Exclusion' /\ SaleImages'
  BY ReturnSessions
<1>3. OrderRows'
  BY DEF OrderRows, Return, TypeOK, Rebacking
<1>4. RowImagesFresh'
  BY DEF RowImagesFresh, Return, TypeOK
<1>5. HeldRowsExist'
  BY DEF HeldRowsExist
<1> QED
  BY <1>1, <1>2, <1>3, <1>4, <1>5

LEMMA RollbackStep ==
    ASSUME IInv, NEW s \in Sessions, Rollback(s)
    PROVE  IInv'
<1>1. confirmed' \in SUBSET Orders
  BY DEF Rollback, IInv, TypeOK
<1> QED
  BY <1>1, AbandonStep DEF Rollback

(* A handler that starts. *)
LEMMA BeginStep ==
    ASSUME IInv, NEW s \in Sessions, NEW state \in {"sell", "reback", "setInsert", "setUpdate"},
           NEW o \in Orders \cup {None}, NEW l \in ItemLists,
           Begin(s, state, o, l),
           state \in {"sell", "reback"} => o \in Orders,
           state = "sell" => l \in Requests,
           state = "reback" => status[o] # 0 /\ l = detail[o],
           state \in Setting => l \in SetLists
    PROVE  IInv'
<1> USE DEF IInv, tables, Begin
<1>1. TypeOK'
  <2>1. IsItemList(l, Goods, Int)
    BY ListsAreItemLists
  <2>2. Len(l) \in Nat
    BY <2>1 DEF IsItemList
  <2>3. \A t \in Sessions : next'[t] \in 1..Len(items'[t]) + 1
    BY <2>2 DEF TypeOK, SessionShape
  <2> QED
    BY <2>3 DEF TypeOK, States
<1>2. SessionShape'
  BY DEF SessionShape, TypeOK, Setting, InTx, Selling, Closing
<1>3. WritesArePassed'
  <2>1. \A g \in Goods : writes[s][g] = None
    BY DEF WritesArePassed, InTx
  <2>2. next[s] = 1
    BY DEF SessionShape
  <2> QED
    BY <2>1, <2>2 DEF WritesArePassed, InTx, TypeOK
<1>4. Exclusion'
  BY DEF Exclusion, Closing, TypeOK
<1>5. OrderRows'
  BY DEF OrderRows, TypeOK, Rebacking
<1>6. RowImagesFresh' /\ SaleImages'
  <2>1. \A g \in Goods : writes[s][g] = None
    BY DEF WritesArePassed, InTx
  <2> QED
    BY <2>1 DEF RowImagesFresh, SaleImages, TypeOK
<1>7. HeldRowsExist'
  BY DEF HeldRowsExist
<1> QED
  BY <1>1, <1>2, <1>3, <1>4, <1>5, <1>6, <1>7

(* An iteration of a loop that writes the row of its item, under its lock. *)
LEMMA WriteRowStep ==
    ASSUME IInv, NEW s \in Sessions, NEW v \in Int,
           pc[s] \in {"sell", "reback"}, Pending(s),
           RowFree(s, Item(s).goods),
           stocks[Item(s).goods] # None,
           v = IF pc[s] = "sell" THEN stocks[Item(s).goods] - Item(s).num
                                 ELSE stocks[Item(s).goods] + Item(s).num,
           pc[s] = "sell" => v >= 0,
           WriteRow(s, v)
    PROVE  IInv'
<1> USE DEF IInv, tables, WriteRow
<1> DEFINE h == Item(s).goods
<1>0. /\ next[s] \in 1..Len(items[s])
      /\ h \in Goods
      /\ NumOf(items[s], h) = Item(s).num
      /\ h = items[s][next[s]].goods
  BY PendingItem DEF Item
<1> HIDE DEF h
<1>1. TypeOK'
  <2>1. writes' \in [Sessions -> [Goods -> Int \cup {None}]]
    BY <1>0 DEF TypeOK, h
  <2>2. \A t \in Sessions : next'[t] \in 1..Len(items'[t]) + 1
    BY <1>0 DEF TypeOK
  <2> QED
    BY <2>1, <2>2 DEF TypeOK
<1>2. SessionShape'
  BY DEF SessionShape, TypeOK, Setting, InTx, Selling, Closing
<1>3. WritesArePassed'
  <2> SUFFICES ASSUME NEW t \in Sessions, NEW g \in Goods
               PROVE  writes'[t][g] # None <=>
                        pc[t] \in InTx /\ \E k \in 1..next'[t] - 1 : items[t][k].goods = g
    BY DEF WritesArePassed
  <2>1. CASE t = s
    <3>1. next'[s] = next[s] + 1 /\ next[s] \in Nat
      BY DEF TypeOK
    <3>2. writes'[s][g] = IF g = h THEN v ELSE writes[s][g]
      BY <1>0 DEF TypeOK, h
    <3>3. v # None
      BY InventoryAssumption
    <3>4. writes[s][g] # None <=> \E k \in 1..next[s] - 1 : items[s][k].goods = g
      BY DEF WritesArePassed, InTx
    <3>5. (\E k \in 1..next[s] : items[s][k].goods = g)
            <=> g = h \/ \E k \in 1..next[s] - 1 : items[s][k].goods = g
      BY <1>0, <3>1
    <3> QED
      BY <2>1, <3>1, <3>2, <3>3, <3>4, <3>5 DEF InTx
  <2>2. CASE t # s
    BY <2>2 DEF WritesArePassed, TypeOK
  <2> QED
    BY <2>1, <2>2
<1>4. Exclusion'
  BY <1>0 DEF Exclusion, Closing, TypeOK, RowFree, h
<1>5. OrderRows'
  BY DEF OrderRows
<1>6. RowImagesFresh'
  BY <1>0 DEF RowImagesFresh, TypeOK, h
<1>7. SaleImages'
  BY <1>0 DEF SaleImages, TypeOK, h, Selling
<1>8. HeldRowsExist'
  BY DEF HeldRowsExist
<1> QED
  BY <1>1, <1>2, <1>3, <1>4, <1>5, <1>6, <1>7, <1>8

(* The order's row is inserted or updated, under its lock; the loop is over.  *)
LEMMA ProceedStep ==
    ASSUME IInv, NEW s \in Sessions, NEW state \in Closing,
           ~Pending(s), DetailFree(s, sn[s]),
           \/ pc[s] = "sell" /\ state = "sellCommit" /\ status[sn[s]] = 0
           \/ pc[s] = "reback" /\ state = "rebackCommit" /\ status[sn[s]] # 2,
           Proceed(s, state)
    PROVE  IInv'
<1> USE DEF IInv, tables, Proceed, Closing
<1>1. TypeOK'
  BY DEF TypeOK, States
<1>2. SessionShape'
  <2>1. Len(items[s]) \in Nat
    BY ListsAreItemLists DEF TypeOK, IsItemList
  <2>2. next[s] = Len(items[s]) + 1
    BY <2>1 DEF TypeOK, Pending
  <2> QED
    BY <2>2 DEF SessionShape, TypeOK, Setting, InTx, Selling
<1>3. WritesArePassed'
  BY DEF WritesArePassed, InTx, TypeOK
<1>4. Exclusion'
  BY DEF Exclusion, TypeOK, DetailFree
<1>5. OrderRows'
  <2>1. pc[s] \in InTx
    BY DEF InTx
  <2>2. sn[s] \in Orders
    BY <2>1 DEF SessionShape
  <2>3. status[sn[s]] \in {0, 1, 2}
    BY <2>2 DEF TypeOK
  <2> QED
    BY <2>3 DEF OrderRows, Rebacking, TypeOK
<1>6. RowImagesFresh' /\ SaleImages'
  BY DEF RowImagesFresh, SaleImages, TypeOK, Selling
<1>7. HeldRowsExist'
  BY DEF HeldRowsExist
<1> QED
  BY <1>1, <1>2, <1>3, <1>4, <1>5, <1>6, <1>7

(* What a commit does to the stocks: every row the transaction wrote moves by *)
(* the amount of its item, every other row stays.                             *)
LEMMA CommittedStocks ==
    ASSUME IInv, NEW s \in Sessions, pc[s] \in Closing, NEW g \in Goods
    PROVE  /\ g \in GoodsOf(items[s]) <=> writes[s][g] # None
           /\ Committed(s)[g] \in Int \cup {None}
           /\ stocks[g] # None => Committed(s)[g] # None
           /\ g \in GoodsOf(items[s]) =>
                /\ stocks[g] # None
                /\ stocks[g] \in Int /\ NumOf(items[s], g) \in Int
                /\ Committed(s)[g] = IF pc[s] = "sellCommit"
                                     THEN stocks[g] - NumOf(items[s], g)
                                     ELSE stocks[g] + NumOf(items[s], g)
           /\ g \notin GoodsOf(items[s]) => Committed(s)[g] = stocks[g]
<1> USE DEF IInv, Closing
<1>0. IsItemList(items[s], Goods, Int)
  BY ListsAreItemLists DEF TypeOK
<1>1. Len(items[s]) \in Nat
  BY <1>0 DEF IsItemList
<1>2. next[s] - 1 = Len(items[s])
  BY <1>1 DEF SessionShape
<1>3. g \in GoodsOf(items[s]) <=> writes[s][g] # None
  BY <1>2 DEF WritesArePassed, GoodsOf, InTx
<1>4. /\ Committed(s)[g] = IF writes[s][g] = None THEN stocks[g] ELSE writes[s][g]
      /\ stocks[g] \in Int \cup {None} /\ writes[s][g] \in Int \cup {None}
  BY DEF Committed, TypeOK
<1>5. g \in GoodsOf(items[s]) => NumOf(items[s], g) \in Int
  BY <1>0, NumOfItem DEF GoodsOf
<1>6. g \in GoodsOf(items[s]) =>
        /\ stocks[g] # None
        /\ writes[s][g] = IF pc[s] = "sellCommit"
                          THEN stocks[g] - NumOf(items[s], g)
                          ELSE stocks[g] + NumOf(items[s], g)
  BY <1>3 DEF RowImagesFresh
<1> QED
  BY <1>3, <1>4, <1>5, <1>6, InventoryAssumption

(* Sell commits. *)
LEMMA SellCommitStep ==
    ASSUME IInv, NEW s \in Sessions, SellCommit(s)
    PROVE  IInv'
<1> USE DEF IInv, SellCommit
<1>0. /\ pc[s] \in Closing
      /\ sn[s] \in Orders /\ items[s] \in Requests
      /\ status[sn[s]] = 0
  BY DEF Closing, SessionShape, OrderRows, InTx, Selling
<1>1. TypeOK'
  <2>1. stocks' \in [Goods -> Int \cup {None}]
    BY <1>0, CommittedStocks DEF Committed
  <2> QED
    BY <1>0, <2>1, ReturnSessions DEF TypeOK
<1>2. SessionShape' /\ WritesArePassed' /\ Exclusion' /\ SaleImages'
  BY ReturnSessions
<1>3. OrderRows'
  <2> SUFFICES ASSUME NEW t \in Sessions, pc'[t] \in Closing \cup Rebacking
               PROVE  /\ pc'[t] = "sellCommit" => status'[sn'[t]] = 0
                      /\ pc'[t] = "rebackCommit" => status'[sn'[t]] = 1
                      /\ pc'[t] \in Rebacking =>
                            status'[sn'[t]] # 0 /\ items'[t] = detail'[sn'[t]]
    BY DEF OrderRows, Closing
  <2>1. t # s /\ pc'[t] = pc[t] /\ sn'[t] = sn[t] /\ items'[t] = items[t]
    BY DEF Return, TypeOK, Closing, Rebacking
  <2>2. sn[t] \in Orders
    BY <2>1 DEF SessionShape, Closing, Rebacking, InTx
  <2>3. sn[t] # sn[s]
    BY <1>0, <2>1 DEF OrderRows, Exclusion, Closing, Rebacking
  <2> QED
    BY <1>0, <2>1, <2>2, <2>3 DEF OrderRows, TypeOK
<1>4. RowImagesFresh'
  <2> SUFFICES ASSUME NEW t \in Sessions, NEW g \in Goods, writes'[t][g] # None
               PROVE  /\ stocks'[g] # None
                      /\ writes'[t][g] = IF pc'[t] \in {"sell", "sellCommit"}
                                         THEN stocks'[g] - NumOf(items'[t], g)
                                         ELSE stocks'[g] + NumOf(items'[t], g)
    BY DEF RowImagesFresh
  <2>1. /\ t # s /\ pc'[t] = pc[t] /\ items'[t] = items[t]
        /\ writes'[t][g] = writes[t][g]
    BY DEF Return, TypeOK
  <2>2. writes[s][g] = None
    BY <2>1 DEF Exclusion
  <2>3. stocks'[g] = stocks[g]
    BY <2>2 DEF Committed
  <2> QED
    BY <2>1, <2>3 DEF RowImagesFresh
<1>5. HeldRowsExist'
  <2>1. \A g \in GoodsOf(items[s]) : g \in Goods /\ stocks[g] # None
    <3>1. IsItemList(items[s], Goods, Int)
      BY <1>0, InventoryAssumption
    <3>2. GoodsOf(items[s]) \subseteq Goods
      BY <3>1, NumOfItem DEF GoodsOf
    <3> QED
      BY <1>0, <3>2, CommittedStocks
  <2>2. \A o \in Orders : \A g \in GoodsOf(detail'[o]) :
            g \in GoodsOf(items[s]) \/ g \in GoodsOf(detail[o])
    BY <1>0 DEF TypeOK
  <2>3. \A g \in Goods : stocks[g] # None => stocks'[g] # None
    BY <1>0, CommittedStocks
  <2>4. \A o \in Orders : \A g \in GoodsOf(detail[o]) : g \in Goods
    BY ListsAreItemLists, NumOfItem DEF TypeOK, ItemLists, GoodsOf
  <2> QED
    BY <2>1, <2>2, <2>3, <2>4 DEF HeldRowsExist
<1> QED
  BY <1>1, <1>2, <1>3, <1>4, <1>5

(* AutoReback commits. *)
LEMMA RebackCommitStep ==
    ASSUME IInv, NEW s \in Sessions, RebackCommit(s)
    PROVE  IInv'
<1> USE DEF IInv, RebackCommit
<1>0. pc[s] \in Closing /\ sn[s] \in Orders /\ status[sn[s]] = 1
  BY DEF Closing, SessionShape, OrderRows, InTx
<1>1. TypeOK'
  <2>1. stocks' \in [Goods -> Int \cup {None}]
    BY <1>0, CommittedStocks DEF Committed
  <2> QED
    BY <1>0, <2>1, ReturnSessions DEF TypeOK
<1>2. SessionShape' /\ WritesArePassed' /\ Exclusion' /\ SaleImages'
  BY ReturnSessions
<1>3. OrderRows'
  <2> SUFFICES ASSUME NEW t \in Sessions, pc'[t] \in Closing \cup Rebacking
               PROVE  /\ pc'[t] = "sellCommit" => status'[sn'[t]] = 0
                      /\ pc'[t] = "rebackCommit" => status'[sn'[t]] = 1
                      /\ pc'[t] \in Rebacking =>
                            status'[sn'[t]] # 0 /\ items'[t] = detail'[sn'[t]]
    BY DEF OrderRows, Closing
  <2>1. t # s /\ pc'[t] = pc[t] /\ sn'[t] = sn[t] /\ items'[t] = items[t]
    BY DEF Return, TypeOK, Closing, Rebacking
  <2>2. sn[t] \in Orders
    BY <2>1 DEF SessionShape, Closing, Rebacking, InTx
  <2>3. pc[t] \in Closing => sn[t] # sn[s]
    BY <1>0, <2>1 DEF Exclusion
  <2> QED
    BY <1>0, <2>1, <2>2, <2>3 DEF OrderRows, TypeOK, Closing
<1>4. RowImagesFresh'
  <2> SUFFICES ASSUME NEW t \in Sessions, NEW g \in Goods, writes'[t][g] # None
               PROVE  /\ stocks'[g] # None
                      /\ writes'[t][g] = IF pc'[t] \in {"sell", "sellCommit"}
                                         THEN stocks'[g] - NumOf(items'[t], g)
                                         ELSE stocks'[g] + NumOf(items'[t], g)
    BY DEF RowImagesFresh
  <2>1. /\ t # s /\ pc'[t] = pc[t] /\ items'[t] = items[t]
        /\ writes'[t][g] = writes[t][g]
    BY DEF Return, TypeOK
  <2>2. writes[s][g] = None
    BY <2>1 DEF Exclusion
  <2>3. stocks'[g] = stocks[g]
    BY <2>2 DEF Committed
  <2> QED
    BY <2>1, <2>3 DEF RowImagesFresh
<1>5. HeldRowsExist'
  <2>1. \A g \in Goods : stocks[g] # None => stocks'[g] # None
    BY <1>0, CommittedStocks
  <2>2. \A o \in Orders : \A g \in GoodsOf(detail[o]) : g \in Goods
    BY ListsAreItemLists, NumOfItem DEF TypeOK, ItemLists, GoodsOf
  <2> QED
    BY <2>1, <2>2 DEF HeldRowsExist
<1> QED
  BY <1>1, <1>2, <1>3, <1>4, <1>5

(* SetInv writes a row that no transaction has written. *)
LEMMA SetStep ==
    ASSUME IInv, NEW s \in Sessions, SetInsert(s) \/ SetUpdate(s)
    PROVE  IInv'
<1> USE DEF IInv, SetInsert, SetUpdate
<1> DEFINE h == items[s][1].goods
           n == items[s][1].num
<1>0. h \in Goods /\ n \in Int
  <2>1. items[s] \in SetLists
    BY DEF SessionShape, Setting
  <2>2. PICK g \in Goods, m \in Levels : items[s] = <<[goods |-> g, num |-> m]>>
    BY <2>1 DEF SetLists
  <2> QED
    BY <2>2, InventoryAssumption
<1>1. Return(s) /\ UNCHANGED <<status, detail, leaked, confirmed>>
  OBVIOUS
<1>2. twins' \in SUBSET Goods
  BY <1>0 DEF TypeOK
<1>3. stocks' = stocks \/ stocks' = [stocks EXCEPT ![h] = n]
  OBVIOUS
<1>4. \A t \in Sessions : t # s /\ writes[t][h] # None => stocks' = stocks
  <2>1. ASSUME NEW t \in Sessions, t # s, writes[t][h] # None, SetInsert(s)
        PROVE  stocks' = stocks
    BY <1>0, <2>1 DEF RowImagesFresh
  <2>2. ASSUME NEW t \in Sessions, t # s, writes[t][h] # None, SetUpdate(s)
        PROVE  FALSE
    BY <1>0, <2>2 DEF RowFree
  <2> QED
    BY <2>1, <2>2
<1> HIDE DEF h, n, SetInsert, SetUpdate
<1>5. TypeOK'
  <2>1. stocks' \in [Goods -> Int \cup {None}]
    BY <1>0, <1>3 DEF TypeOK
  <2> QED
    BY <1>1, <1>2, <2>1, ReturnSessions DEF TypeOK
<1>6. SessionShape' /\ WritesArePassed' /\ Exclusion' /\ SaleImages'
  BY <1>1, ReturnSessions
<1>7. OrderRows'
  BY <1>1 DEF OrderRows, Return, TypeOK, Rebacking
<1>8. RowImagesFresh'
  <2> SUFFICES ASSUME NEW t \in Sessions, NEW g \in Goods, writes'[t][g] # None
               PROVE  /\ stocks'[g] # None
                      /\ writes'[t][g] = IF pc'[t] \in {"sell", "sellCommit"}
                                         THEN stocks'[g] - NumOf(items'[t], g)
                                         ELSE stocks'[g] + NumOf(items'[t], g)
    BY DEF RowImagesFresh
  <2>1. /\ t # s /\ pc'[t] = pc[t] /\ items'[t] = items[t]
        /\ writes'[t][g] = writes[t][g]
    BY <1>1 DEF Return, TypeOK
  <2>2. stocks'[g] = stocks[g]
    BY <1>3, <1>4, <2>1 DEF TypeOK
  <2> QED
    BY <2>1, <2>2 DEF RowImagesFresh
<1>9. HeldRowsExist'
  <2>1. \A g \in Goods : stocks'[g] = stocks[g] \/ (g = h /\ stocks'[g] = n)
    BY <1>3 DEF TypeOK
  <2>2. n # None
    BY <1>0, InventoryAssumption
  <2>3. \A o \in Orders : \A g \in GoodsOf(detail[o]) : g \in Goods
    BY ListsAreItemLists, NumOfItem DEF TypeOK, ItemLists, GoodsOf
  <2> QED
    BY <1>1, <2>1, <2>2, <2>3 DEF HeldRowsExist
<1> QED
  BY <1>5, <1>6, <1>7, <1>8, <1>9

(* The process dies. *)
LEMMA CrashStep == IInv /\ Crash => IInv'
<1> SUFFICES ASSUME IInv, Crash PROVE IInv'
  OBVIOUS
<1> USE DEF IInv, Crash, tables
<1>1. TypeOK'
  BY DEF TypeOK, States, ItemLists
<1>2. SessionShape' /\ WritesArePassed'
  BY DEF SessionShape, WritesArePassed, Setting, InTx, Selling, Closing
<1>3. Exclusion' /\ OrderRows' /\ RowImagesFresh' /\ SaleImages'
  BY DEF Exclusion, OrderRows, RowImagesFresh, SaleImages, Closing, Selling, Rebacking
<1>4. HeldRowsExist'
  BY DEF HeldRowsExist
<1> QED
  BY <1>1, <1>2, <1>3, <1>4

-----------------------------------------------------------------------------
(* The invariant holds.                                                       *)

LEMMA StepIInv == IInv /\ [Next]_vars => IInv'
<1> SUFFICES ASSUME IInv, [Next]_vars PROVE IInv'
  OBVIOUS
<1>1. ASSUME NEW s \in Sessions, NEW o \in Orders, NEW r \in Requests, SellBegin(s, o, r)
      PROVE  IInv'
  <2>1. r \in ItemLists
    BY DEF ItemLists
  <2> QED
    BY <1>1, <2>1, BeginStep DEF SellBegin, Setting
<1>2. ASSUME NEW s \in Sessions, NEW o \in Orders, RebackFind(s, o)
      PROVE  IInv'
  <2>1. detail[o] \in ItemLists
    BY DEF IInv, TypeOK, ItemLists
  <2> QED
    BY <1>2, <2>1, BeginStep DEF RebackFind, Setting
<1>3. ASSUME NEW o \in Orders, RebackNotFound(o)
      PROVE  IInv'
  <2>1. leaked' \in Nat /\ UNCHANGED <<tables, sessions, confirmed>>
    BY <1>3 DEF RebackNotFound, IInv, TypeOK
  <2> QED
    BY <2>1 DEF IInv, tables, sessions, TypeOK, SessionShape, WritesArePassed, Exclusion,
                OrderRows, RowImagesFresh, SaleImages, HeldRowsExist
<1>4. ASSUME NEW s \in Sessions, NEW g \in Goods, NEW n \in Levels,
             SetRead(s, g, n) \/ SetReadFails(s, g, n)
      PROVE  IInv'
  <2>1. /\ <<[goods |-> g, num |-> n]>> \in SetLists
        /\ <<[goods |-> g, num |-> n]>> \in ItemLists
    BY DEF SetLists, ItemLists
  <2>2. PICK state \in {"setInsert", "setUpdate"} :
            Begin(s, state, None, <<[goods |-> g, num |-> n]>>)
    BY <1>4 DEF SetRead, SetReadFails
  <2> QED
    BY <2>1, <2>2, BeginStep DEF Setting
<1>5. ASSUME NEW s \in Sessions, SellItem(s)
      PROVE  IInv'
  <2>1. Item(s).goods \in Goods /\ Item(s).num \in Int
    BY <1>5, PendingItem DEF SellItem, IInv
  <2>2. stocks[Item(s).goods] \in Int
    BY <1>5, <2>1 DEF SellItem, IInv, TypeOK
  <2> QED
    BY <1>5, <2>1, <2>2, WriteRowStep DEF SellItem
<1>6. ASSUME NEW s \in Sessions, RebackItem(s)
      PROVE  IInv'
  <2>1. Item(s).goods \in Goods /\ Item(s).num \in Int
    BY <1>6, PendingItem DEF RebackItem, IInv
  <2>2. stocks[Item(s).goods] \in Int
    BY <1>6, <2>1 DEF RebackItem, IInv, TypeOK
  <2> QED
    BY <1>6, <2>1, <2>2, WriteRowStep DEF RebackItem
<1>7. ASSUME NEW s \in Sessions, SellRecord(s) \/ RebackMark(s)
      PROVE  IInv'
  BY <1>7, ProceedStep DEF SellRecord, RebackMark, Closing
<1>8. ASSUME NEW s \in Sessions, Rollback(s)
      PROVE  IInv'
  BY <1>8, RollbackStep
<1>9. ASSUME NEW s \in Sessions, SellCommitFails(s)
      PROVE  IInv'
  <2>1. confirmed' \in SUBSET Orders
    BY <1>9 DEF SellCommitFails, IInv, TypeOK, SessionShape, InTx
  <2> QED
    BY <1>9, <2>1, AbandonStep DEF SellCommitFails
<1>10. ASSUME NEW s \in Sessions, Continue(s)
       PROVE  IInv'
  BY <1>5, <1>6, <1>7, <1>8, <1>10, SellCommitStep, RebackCommitStep, SetStep
     DEF Continue, SellNoRow, SellShort, SellDuplicate, RebackLate, SetSaveFails, DeadlockVictim
<1>11. CASE UNCHANGED vars
  BY <1>11 DEF vars, tables, sessions, IInv, TypeOK, SessionShape, WritesArePassed, Exclusion,
               OrderRows, RowImagesFresh, SaleImages, HeldRowsExist
<1>12. ASSUME NEW s \in Sessions,
              RebackCommitFails(s) \/ RebackItemFails(s) \/ StatementFails(s)
       PROVE  IInv'
  BY <1>8, <1>12 DEF RebackCommitFails, RebackItemFails, StatementFails
<1> QED
  BY <1>1, <1>2, <1>3, <1>4, <1>9, <1>10, <1>11, <1>12, CrashStep DEF Next

(* The invariant of Inventory, for every number of concurrent handlers and    *)
(* every set of faults.                                                       *)
THEOREM Invariant == Spec => []IInv
<1> QED
  BY InitIInv, StepIInv, PTL DEF Spec

(* Every variable keeps its type. *)
THEOREM TypeCorrect == Spec => []TypeOK
<1>1. IInv => TypeOK
  BY DEF IInv
<1> QED
  BY <1>1, Invariant, PTL

(* The row image a transaction is about to commit is never stale.             *)
THEOREM ImagesAreFresh == Spec => []RowImagesFresh
<1>1. IInv => RowImagesFresh
  BY DEF IInv
<1> QED
  BY <1>1, Invariant, PTL

(* The rows AutoReback will update exist.                                     *)
THEOREM RowsExist == Spec => []HeldRowsExist
<1>1. IInv => HeldRowsExist
  BY DEF IInv
<1> QED
  BY <1>1, Invariant, PTL

(* When no commit fails, a caller told OK has its goods deducted.             *)
THEOREM ConfirmedSales ==
    ASSUME "commit" \notin Faults
    PROVE  Spec => []ConfirmedIsDeducted
<1>1. Init => ConfirmedIsDeducted
  BY DEF Init, ConfirmedIsDeducted
<1>2. IInv /\ ConfirmedIsDeducted /\ [Next]_vars => ConfirmedIsDeducted'
  <2> SUFFICES ASSUME IInv, ConfirmedIsDeducted, [Next]_vars
               PROVE  ConfirmedIsDeducted'
    OBVIOUS
  <2>1. ASSUME NEW s \in Sessions, SellCommit(s) PROVE ConfirmedIsDeducted'
    BY <2>1 DEF SellCommit, ConfirmedIsDeducted, IInv, TypeOK, SessionShape, InTx
  <2>2. ASSUME NEW s \in Sessions, RebackCommit(s) PROVE ConfirmedIsDeducted'
    BY <2>2 DEF RebackCommit, ConfirmedIsDeducted, IInv, TypeOK, SessionShape, InTx
  <2>3. ASSUME UNCHANGED <<status, confirmed>> PROVE ConfirmedIsDeducted'
    BY <2>3 DEF ConfirmedIsDeducted
  <2>4. ASSUME NEW s \in Sessions, Continue(s) PROVE ConfirmedIsDeducted'
    BY <2>1, <2>2, <2>3, <2>4
       DEF Continue, SellItem, SellNoRow, SellShort, SellRecord, SellDuplicate, RebackItem,
           RebackMark, RebackLate, SetInsert, SetUpdate, SetSaveFails, DeadlockVictim,
           Rollback, WriteRow, Proceed, tables
  <2>5. CASE UNCHANGED vars
    BY <2>3, <2>5 DEF vars, tables
  <2> QED
    BY <2>3, <2>4, <2>5
       DEF Next, SellBegin, RebackFind, RebackNotFound, SetRead, SetReadFails, SellCommitFails,
           RebackCommitFails, RebackItemFails, StatementFails, Crash, Begin, Rollback, tables
<1> QED
  BY <1>1, <1>2, Invariant, PTL DEF Spec

-----------------------------------------------------------------------------
(* Inventory implements StockLedger.                                          *)

(* The instance reads a list of goods as this module does. *)
LEMMA SameLists ==
    ASSUME NEW l
    PROVE  /\ Ledger!GoodsOf(l) = GoodsOf(l)
           /\ \A g : Ledger!NumOf(l, g) = NumOf(l, g)
BY DEF Ledger!GoodsOf, GoodsOf, Ledger!NumOf, NumOf

(* A commit of Sell is the ledger's Sell: the whole list at once, available   *)
(* at that moment, for an order without a row.                                *)
LEMMA SellCommitRefines ==
    ASSUME IInv, NEW s \in Sessions, SellCommit(s)
    PROVE  Ledger!Next
<1> USE DEF IInv, SellCommit
<1>1. /\ pc[s] \in Closing
      /\ sn[s] \in Orders /\ items[s] \in Requests
      /\ status[sn[s]] = 0
  BY DEF Closing, SessionShape, OrderRows, InTx, Selling
<1>2. GoodsOf(items[s]) \subseteq Goods
  BY <1>1, NumOfItem, InventoryAssumption DEF GoodsOf
<1>3. Ledger!Available(items[s])
  <2> SUFFICES ASSUME NEW g \in GoodsOf(items[s])
               PROVE  stocks[g] # None /\ stocks[g] >= NumOf(items[s], g)
    BY SameLists DEF Ledger!Available
  <2>1. /\ stocks[g] # None /\ stocks[g] \in Int /\ NumOf(items[s], g) \in Int
        /\ writes[s][g] # None
        /\ writes[s][g] = stocks[g] - NumOf(items[s], g)
    BY <1>1, <1>2, CommittedStocks DEF RowImagesFresh
  <2>2. writes[s][g] >= 0
    BY <1>2, <2>1 DEF SaleImages, Selling
  <2> QED
    BY <2>1, <2>2
<1>4. stocks' = [g \in Goods |-> IF g \in GoodsOf(items[s])
                                 THEN stocks[g] - NumOf(items[s], g)
                                 ELSE stocks[g]]
  BY <1>1, CommittedStocks DEF Committed
<1>5. Ledger!Sell(sn[s], items[s])
  BY <1>1, <1>3, <1>4, SameLists DEF Ledger!Sell
<1> QED
  BY <1>1, <1>5 DEF Ledger!Next

(* A commit of AutoReback is the ledger's Return. *)
LEMMA RebackCommitRefines ==
    ASSUME IInv, NEW s \in Sessions, RebackCommit(s)
    PROVE  Ledger!Next
<1> USE DEF IInv, RebackCommit
<1>1. /\ pc[s] \in Closing
      /\ sn[s] \in Orders /\ status[sn[s]] = 1 /\ items[s] = detail[sn[s]]
  BY DEF Closing, SessionShape, OrderRows, InTx, Rebacking
<1>2. stocks' = [g \in Goods |-> IF g \in GoodsOf(detail[sn[s]])
                                 THEN stocks[g] + NumOf(detail[sn[s]], g)
                                 ELSE stocks[g]]
  BY <1>1, CommittedStocks DEF Committed
<1>3. Ledger!Return(sn[s])
  BY <1>1, <1>2, SameLists DEF Ledger!Return
<1> QED
  BY <1>1, <1>3 DEF Ledger!Next

(* SetInv is the ledger's Set, or nothing a reader sees (a twin row). *)
LEMMA SetRefines ==
    ASSUME IInv, NEW s \in Sessions, SetInsert(s) \/ SetUpdate(s)
    PROVE  Ledger!Next \/ UNCHANGED Ledger!lvars
<1>1. PICK g \in Goods, n \in Levels : items[s] = <<[goods |-> g, num |-> n]>>
  BY DEF IInv, SessionShape, Setting, SetLists, SetInsert, SetUpdate
<1>2. items[s][1].goods = g /\ items[s][1].num = n
  BY <1>1
<1>3. \/ UNCHANGED <<stocks, status, detail>>
      \/ stocks' = [stocks EXCEPT ![g] = n] /\ UNCHANGED <<status, detail>>
  BY <1>2 DEF SetInsert, SetUpdate
<1>4. CASE UNCHANGED <<stocks, status, detail>>
  BY <1>4 DEF Ledger!lvars
<1>5. CASE stocks' = [stocks EXCEPT ![g] = n] /\ UNCHANGED <<status, detail>>
  <2>1. Ledger!Set(g, n)
    BY <1>5 DEF Ledger!Set
  <2> QED
    BY <2>1 DEF Ledger!Next
<1> QED
  BY <1>3, <1>4, <1>5

(* Every step is the ledger's, or one that no reader of its tables sees. *)
LEMMA StepRefines ==
    ASSUME IInv, [Next]_vars
    PROVE  Ledger!Next \/ UNCHANGED Ledger!lvars
<1>1. ASSUME UNCHANGED <<stocks, status, detail>>
      PROVE  UNCHANGED Ledger!lvars
  BY <1>1 DEF Ledger!lvars
<1>2. ASSUME NEW s \in Sessions, Continue(s)
      PROVE  Ledger!Next \/ UNCHANGED Ledger!lvars
  BY <1>1, <1>2, SellCommitRefines, RebackCommitRefines, SetRefines
     DEF Continue, SellItem, SellNoRow, SellShort, SellRecord, SellDuplicate, RebackItem,
         RebackMark, RebackLate, SetSaveFails, DeadlockVictim,
         Rollback, WriteRow, Proceed, tables
<1>3. CASE UNCHANGED vars
  BY <1>1, <1>3 DEF vars, tables
<1> QED
  BY <1>1, <1>2, <1>3
     DEF Next, SellBegin, RebackFind, RebackNotFound, SetRead, SetReadFails, SellCommitFails,
         RebackCommitFails, RebackItemFails, StatementFails, Crash, Begin, Rollback, tables

(* Seen through its two tables, inventory_srv is the ledger: interleaved      *)
(* statements, deadlocks, failed statements and commits, duplicate deliveries *)
(* and crashes never show as anything but whole sales, whole returns at most  *)
(* once each, and SetInv.                                                     *)
THEOREM Refinement == Spec => ImplementsLedger
<1>1. Init => Ledger!Init
  BY DEF Init, Ledger!Init
<1>2. IInv /\ [Next]_vars => [Ledger!Next]_(Ledger!lvars)
  BY StepRefines
<1> QED
  BY <1>1, <1>2, Invariant, PTL DEF Spec, ImplementsLedger, Ledger!Spec

-----------------------------------------------------------------------------
(* Nothing is oversold.                                                       *)

(* No request carries a negative number, which no handler checks. *)
NaturalAmounts ==
    /\ \A r \in Requests : IsItemList(r, Goods, Nat)
    /\ Levels \subseteq Nat

LEMMA LedgerStepAboveZero ==
    ASSUME NaturalAmounts, IInv, NoOversell, IInv', Ledger!Next
    PROVE  NoOversell'
<1> SUFFICES ASSUME NEW g \in Goods, stocks'[g] # None
             PROVE  stocks'[g] >= 0
  BY DEF NoOversell
<1>0. /\ stocks \in [Goods -> Int \cup {None}]
      /\ detail \in [Orders -> Requests \cup {<<>>}]
      /\ None \notin Int
  BY InventoryAssumption DEF IInv, TypeOK
<1>1. ASSUME NEW r \in Requests \cup {<<>>}, g \in GoodsOf(r) PROVE NumOf(r, g) \in Nat
  <2>1. r \in Requests
    BY <1>1 DEF GoodsOf
  <2>2. IsItemList(r, Goods, Nat)
    BY <2>1 DEF NaturalAmounts
  <2> QED
    BY <1>1, <2>2, NumOfItem DEF GoodsOf
<1>2. ASSUME NEW h \in Goods, NEW n \in Levels, Ledger!Set(h, n)
      PROVE  stocks'[g] >= 0
  <2>1. n \in Nat /\ stocks' = [stocks EXCEPT ![h] = n]
    BY <1>2 DEF Ledger!Set, NaturalAmounts
  <2> QED
    BY <1>0, <2>1 DEF NoOversell
<1>3. ASSUME NEW o \in Orders, NEW r \in Requests, Ledger!Sell(o, r)
      PROVE  stocks'[g] >= 0
  <2>1. /\ stocks'[g] = IF g \in GoodsOf(r) THEN stocks[g] - NumOf(r, g) ELSE stocks[g]
        /\ g \in GoodsOf(r) => stocks[g] # None /\ stocks[g] >= NumOf(r, g)
    BY <1>3, SameLists DEF Ledger!Sell, Ledger!Available
  <2> QED
    BY <1>0, <1>1, <2>1 DEF NoOversell
<1>4. ASSUME NEW o \in Orders, Ledger!Return(o)
      PROVE  stocks'[g] >= 0
  <2>1. stocks'[g] = IF g \in GoodsOf(detail[o])
                     THEN stocks[g] + NumOf(detail[o], g) ELSE stocks[g]
    BY <1>4, SameLists DEF Ledger!Return
  <2>2. g \in GoodsOf(detail[o]) => stocks[g] # None /\ NumOf(detail[o], g) \in Nat
    BY <1>0, <1>1 DEF IInv, HeldRowsExist
  <2> QED
    BY <1>0, <2>1, <2>2 DEF NoOversell
<1> QED
  BY <1>2, <1>3, <1>4 DEF Ledger!Next

(* When no request carries a negative number, no interleaving of Sell,        *)
(* AutoReback and SetInv, and no failure, takes a stock below zero.           *)
THEOREM NeverOversold ==
    ASSUME \A r \in Requests : IsItemList(r, Goods, Nat), Levels \subseteq Nat
    PROVE  Spec => []NoOversell
<1>0. NaturalAmounts
  BY DEF NaturalAmounts
<1>1. Init => NoOversell
  BY DEF Init, NoOversell
<1>2. IInv /\ NoOversell /\ [Next]_vars /\ IInv' => NoOversell'
  <2> SUFFICES ASSUME IInv, NoOversell, [Next]_vars, IInv' PROVE NoOversell'
    OBVIOUS
  <2>1. CASE UNCHANGED Ledger!lvars
    BY <2>1 DEF Ledger!lvars, NoOversell
  <2> QED
    BY <1>0, <2>1, StepRefines, LedgerStepAboveZero
<1> QED
  BY <1>1, <1>2, Invariant, PTL DEF Spec

-----------------------------------------------------------------------------
(* Nothing is lost: the totals of the ledger.                                 *)

(* The orders that hold goods are finitely many: each sale adds one. *)
HeldFinite == IsFiniteSet(HeldOrders(status))

(* What the ledger calls held is a sum over those orders, before and after a  *)
(* step.                                                                      *)
LEMMA LedgerHeld ==
    ASSUME TypeOK, HeldFinite, NEW g \in Goods
    PROVE  Ledger!Held(g) = HeldOf(g, status, detail)
<1>1. LedgerSum(Orders, g, status, detail) = HeldOf(g, status, detail)
  BY LedgerSumIsHeldOf DEF TypeOK, HeldFinite
<1> QED
  BY <1>1 DEF LedgerSum, GoodsSum, Ledger!Held, Ledger!MapThenSumSet, Ledger!MapThenFoldSet, MapThenSumSet,
              MapThenFoldSet, Ledger!NumOf, NumOf, Ledger!GoodsOf, GoodsOf

LEMMA LedgerHeldNext ==
    ASSUME TypeOK', HeldFinite', NEW g \in Goods
    PROVE  Ledger!Held(g)' = HeldOf(g, status', detail')
<1>1. LedgerSum(Orders, g, status', detail') = HeldOf(g, status', detail')
  BY LedgerSumIsHeldOf DEF TypeOK, HeldFinite
<1> QED
  BY <1>1 DEF LedgerSum, GoodsSum, Ledger!Held, Ledger!MapThenSumSet, Ledger!MapThenFoldSet, MapThenSumSet,
              MapThenFoldSet, Ledger!NumOf, NumOf, Ledger!GoodsOf, GoodsOf
(* The amounts that orders hold are numbers. *)
LEMMA HeldAmounts ==
    ASSUME TypeOK
    PROVE  /\ \A o \in Orders, g \in Goods : NumOf(detail[o], g) \in Int
           /\ \A r \in Requests, g \in Goods : NumOf(r, g) \in Int
           /\ HeldFinite => HeldIsSum(Goods, status, detail)
<1>1. ASSUME NEW l \in ItemLists, NEW g \in Goods PROVE NumOf(l, g) \in Int
  BY ListsAreItemLists, GoodsOfType DEF NumOf
<1>2. \A o \in Orders : detail[o] \in ItemLists
  BY DEF TypeOK, ItemLists
<1>3. \A r \in Requests : r \in ItemLists
  BY DEF ItemLists
<1> QED
  BY <1>1, <1>2, <1>3 DEF HeldFinite, HeldIsSum, HeldOrders, TypeOK

(* The step from one state of the ledger to the next, for each goods.         *)
Moved == \A g \in Goods : Ledger!Total(g)' = Ledger!Total(g)

(* A sale moves goods from the shelf to an order. *)
LEMMA SellConserves ==
    ASSUME IInv, TypeOK', HeldFinite, NEW o \in Orders, NEW r \in Requests, Ledger!Sell(o, r)
    PROVE  HeldFinite' /\ Moved
<1>0. TypeOK /\ HeldRowsExist
  BY DEF IInv
<1>1. /\ status[o] = 0 /\ status' = [status EXCEPT ![o] = 1]
      /\ detail' = [detail EXCEPT ![o] = r]
      /\ \A g \in GoodsOf(r) : stocks[g] # None
      /\ \A g \in Goods : stocks'[g] = IF g \in GoodsOf(r) THEN stocks[g] - NumOf(r, g) ELSE stocks[g]
  BY SameLists DEF Ledger!Sell, Ledger!Available
<1>2. /\ HeldIsSum(Goods, status', detail')
      /\ \A g \in Goods : /\ HeldOf(g, status, detail) \in Int
                          /\ HeldOf(g, status', detail') = HeldOf(g, status, detail) + NumOf(r, g)
  <2>1. DOMAIN status = Orders /\ DOMAIN detail = Orders /\ status[o] # 1
    BY <1>0, <1>1 DEF TypeOK
  <2>2. HeldIsSum(Goods, status, detail) /\ \A g \in Goods : NumOf(r, g) \in Int
    BY <1>0, HeldAmounts
  <2>3. Deducts(Goods, status, detail, o, r, status', detail')
    BY <1>1, <2>1, <2>2 DEF Deducts
  <2> QED
    BY <2>3, HeldGrows
<1>3. HeldFinite'
  BY <1>2 DEF HeldIsSum, HeldFinite
<1>4. ASSUME NEW g \in Goods PROVE Ledger!Total(g)' = Ledger!Total(g)
  <2>1. Ledger!Held(g)' = Ledger!Held(g) + NumOf(r, g) /\ Ledger!Held(g) \in Int
    BY <1>2, <1>3, <1>0, LedgerHeld, LedgerHeldNext
  <2>2. NumOf(r, g) \in Int /\ (g \notin GoodsOf(r) => NumOf(r, g) = 0)
    BY <1>0, HeldAmounts DEF NumOf
  <2>3. stocks[g] \in Int \cup {None} /\ None \notin Int
    BY <1>0, InventoryAssumption DEF TypeOK
  <2>4. CASE g \in GoodsOf(r)
    <3>1. stocks[g] \in Int /\ stocks'[g] = stocks[g] - NumOf(r, g) /\ stocks'[g] # None
      BY <1>1, <2>2, <2>3, <2>4
    <3> QED
      BY <2>1, <2>2, <2>3, <3>1 DEF Ledger!Total
  <2>5. CASE g \notin GoodsOf(r)
    BY <1>1, <2>1, <2>2, <2>5 DEF Ledger!Total
  <2> QED
    BY <2>4, <2>5
<1> QED
  BY <1>3, <1>4 DEF Moved

(* A return moves them back. *)
LEMMA ReturnConserves ==
    ASSUME IInv, TypeOK', HeldFinite, NEW o \in Orders, Ledger!Return(o)
    PROVE  HeldFinite' /\ Moved
<1>0. TypeOK /\ HeldRowsExist
  BY DEF IInv
<1> DEFINE r == detail[o]
<1>1. /\ status[o] = 1 /\ status' = [status EXCEPT ![o] = 2] /\ detail' = detail
      /\ \A g \in Goods : stocks'[g] = IF g \in GoodsOf(r) THEN stocks[g] + NumOf(r, g) ELSE stocks[g]
  BY SameLists DEF Ledger!Return
<1>2. /\ HeldIsSum(Goods, status', detail')
      /\ \A g \in Goods : /\ HeldOf(g, status', detail') \in Int
                          /\ HeldOf(g, status, detail) = HeldOf(g, status', detail') + NumOf(r, g)
  <2>1. DOMAIN status = Orders /\ DOMAIN detail = Orders
    BY <1>0 DEF TypeOK
  <2>2. HeldIsSum(Goods, status, detail)
    BY <1>0, HeldAmounts
  <2>3. GivesBack(Goods, status, detail, o, status')
    BY <1>1, <2>1, <2>2 DEF GivesBack
  <2>4. /\ HeldIsSum(Goods, status', detail)
        /\ \A g \in Goods : /\ HeldOf(g, status', detail) \in Int
                            /\ HeldOf(g, status, detail) = HeldOf(g, status', detail) + NumOf(r, g)
    BY <2>3, HeldShrinks
  <2> QED
    BY <1>1, <2>4
<1>3. HeldFinite'
  BY <1>2 DEF HeldIsSum, HeldFinite
<1>4. ASSUME NEW g \in Goods PROVE Ledger!Total(g)' = Ledger!Total(g)
  <2>1. Ledger!Held(g) = Ledger!Held(g)' + NumOf(r, g) /\ Ledger!Held(g)' \in Int
    BY <1>2, <1>3, <1>0, LedgerHeld, LedgerHeldNext
  <2>2. NumOf(r, g) \in Int /\ (g \notin GoodsOf(r) => NumOf(r, g) = 0)
    BY <1>0, HeldAmounts DEF NumOf
  <2>3. stocks[g] \in Int \cup {None} /\ None \notin Int
    BY <1>0, InventoryAssumption DEF TypeOK
  <2>4. CASE g \in GoodsOf(r)
    <3>1. stocks[g] # None
      BY <1>0, <2>4 DEF HeldRowsExist
    <3>2. stocks[g] \in Int /\ stocks'[g] = stocks[g] + NumOf(r, g) /\ stocks'[g] # None
      BY <1>1, <2>2, <2>3, <2>4, <3>1
    <3> HIDE DEF r
    <3> QED
      BY <2>1, <2>2, <2>3, <3>1, <3>2 DEF Ledger!Total
  <2>5. CASE g \notin GoodsOf(r)
    <3> HIDE DEF r
    <3> QED
      BY <1>1, <2>1, <2>2, <2>5 DEF Ledger!Total
  <2> QED
    BY <2>4, <2>5
<1> QED
  BY <1>3, <1>4 DEF Moved
(* SetInv leaves every order alone and touches one goods. *)
LEMMA SetTouchesOne ==
    ASSUME TypeOK, HeldFinite, TypeOK', NEW g \in Goods, NEW n \in Levels, Ledger!Set(g, n)
    PROVE  /\ HeldFinite'
           /\ \A h \in Goods : Ledger!Total(h)' # Ledger!Total(h) => h = g
<1>1. status' = status /\ detail' = detail /\ \A h \in Goods : h # g => stocks'[h] = stocks[h]
  BY DEF Ledger!Set, TypeOK
<1>2. HeldFinite'
  BY <1>1 DEF HeldFinite
<1>3. \A h \in Goods : Ledger!Held(h)' = Ledger!Held(h)
  BY <1>1, <1>2, LedgerHeld, LedgerHeldNext
<1> QED
  BY <1>1, <1>2, <1>3 DEF Ledger!Total

(* What one step does to the totals. *)
Conserved ==
    IF status' = status
    THEN \A g, h \in Goods :
            Ledger!Total(g)' # Ledger!Total(g) /\ Ledger!Total(h)' # Ledger!Total(h) => g = h
    ELSE Moved

LEMMA StepConserves ==
    ASSUME IInv, IInv', HeldFinite, [Next]_vars
    PROVE  HeldFinite' /\ (Conserved \/ UNCHANGED Ledger!lvars)
<1>1. TypeOK /\ TypeOK'
  BY DEF IInv
<1>2. CASE UNCHANGED Ledger!lvars
  BY <1>2 DEF Ledger!lvars, HeldFinite
<1>3. ASSUME NEW g \in Goods, NEW n \in Levels, Ledger!Set(g, n)
      PROVE  HeldFinite' /\ Conserved
  BY <1>1, <1>3, SetTouchesOne DEF Conserved, Ledger!Set
<1>4. ASSUME NEW o \in Orders, NEW r \in Requests, Ledger!Sell(o, r)
      PROVE  HeldFinite' /\ Conserved
  BY <1>1, <1>4, SellConserves DEF Conserved, Moved
<1>5. ASSUME NEW o \in Orders, Ledger!Return(o)
      PROVE  HeldFinite' /\ Conserved
  BY <1>1, <1>5, ReturnConserves DEF Conserved, Moved
<1> QED
  BY <1>2, <1>3, <1>4, <1>5, StepRefines DEF Ledger!Next

(* A sale or a return moves goods between the shelf and the orders and none   *)
(* is lost or made, whichever sessions interleave and whatever fails.         *)
THEOREM NothingIsLost == Spec => Conservation
<1>1. Init => HeldFinite
  <2> SUFFICES ASSUME Init PROVE HeldFinite
    OBVIOUS
  <2>1. HeldOrders(status) = {}
    BY DEF Init, HeldOrders
  <2> QED
    BY <2>1, FS_EmptySet DEF HeldFinite
<1>2. IInv /\ IInv' /\ HeldFinite /\ [Next]_vars => HeldFinite'
  BY StepConserves
<1>3. IInv /\ IInv' /\ HeldFinite /\ [Next]_vars =>
         [IF status' = status
          THEN \A g, h \in Goods : Ledger!Total(g)' # Ledger!Total(g) /\ Ledger!Total(h)' # Ledger!Total(h) => g = h
          ELSE \A g \in Goods : Ledger!Total(g)' = Ledger!Total(g)]_(Ledger!lvars)
  BY StepConserves DEF Conserved, Moved
<1> QED
  BY <1>1, <1>2, <1>3, Invariant, PTL DEF Spec, Conservation, Ledger!Conservation

-----------------------------------------------------------------------------
(* Waiting.                                                                   *)

Working == {s \in Sessions : pc[s] # "idle"}

(* They are finitely many, though there may be any number of sessions. *)
FewWork == IsFiniteSet(Working)

(* A session that waits, waits for one that is at work. *)
LEMMA BlockersWork ==
    ASSUME IInv, NEW s \in Sessions
    PROVE  Blockers(s) \subseteq Working \ {s}
<1> SUFFICES ASSUME NEW t \in Blockers(s) PROVE t \in Working \ {s}
  OBVIOUS
<1>1. t \in Sessions \ {s}
  BY DEF Blockers
<1>2. CASE pc[t] \in {"sellCommit", "rebackCommit"}
  BY <1>1, <1>2 DEF Working
<1>3. ASSUME writes[t][Item(s).goods] # None, Item(s).goods \in Goods PROVE t \in Working \ {s}
  BY <1>1, <1>3 DEF IInv, WritesArePassed, InTx, Working
<1>4. Pending(s) => Item(s).goods \in Goods
  BY PendingItem DEF IInv
<1>5. pc[s] = "setUpdate" => Item(s).goods \in Goods
  <2> SUFFICES ASSUME pc[s] = "setUpdate" PROVE Pending(s)
    BY <1>4
  <2>1. items[s] \in SetLists
    BY DEF IInv, SessionShape, Setting
  <2>2. Len(items[s]) = 1
    BY <2>1 DEF SetLists
  <2>3. next[s] = 1
    BY DEF IInv, SessionShape, Setting
  <2> QED
    BY <2>2, <2>3 DEF Pending
<1> QED
  BY <1>2, <1>3, <1>4, <1>5 DEF Blockers

(* A session that waits for nobody finds its locks free, and the rows that    *)
(* AutoReback is to update: one of its next statements can be executed.       *)
LEMMA NobodyInTheWay ==
    ASSUME IInv, NEW s \in Sessions, Blockers(s) = {}
    PROVE  /\ pc[s] \in {"sell", "reback"} /\ Pending(s) => RowFree(s, Item(s).goods)
           /\ pc[s] \in {"sell", "reback"} /\ ~Pending(s) => DetailFree(s, sn[s])
           /\ pc[s] = "setUpdate" => RowFree(s, Item(s).goods)
           /\ pc[s] = "reback" /\ Pending(s) => stocks[Item(s).goods] # None
<1>1. \A t \in Sessions \ {s} : t \notin Blockers(s)
  OBVIOUS
<1>2. pc[s] = "reback" /\ Pending(s) => stocks[Item(s).goods] # None
  <2> SUFFICES ASSUME pc[s] = "reback", Pending(s) PROVE stocks[Item(s).goods] # None
    OBVIOUS
  <2>1. /\ next[s] \in 1..Len(items[s]) /\ Item(s).goods \in Goods
        /\ sn[s] \in Orders /\ items[s] = detail[sn[s]]
    BY PendingItem DEF IInv, SessionShape, OrderRows, InTx, Rebacking
  <2>2. Item(s).goods \in GoodsOf(detail[sn[s]])
    BY <2>1 DEF GoodsOf, Item
  <2> QED
    BY <2>1, <2>2 DEF IInv, HeldRowsExist
<1> QED
  BY <1>1, <1>2 DEF Blockers, RowFree, DetailFree

(* If everybody waits, then some wait in a cycle: take the least set of which *)
(* everybody waits for another one in the set; nobody can be spared.          *)
LEMMA AllWaitingIsDeadlock ==
    ASSUME IInv, FewWork, Working # {}, \A s \in Working : Blockers(s) # {}
    PROVE  \E s \in Working : Deadlocked(s)
<1> DEFINE Bad == {T \in SUBSET Working : T # {} /\ \A t \in T : Blockers(t) \cap T # {}}
<1>1. Working \in Bad
  BY BlockersWork DEF Working
<1>2. PICK T \in Bad : \A t \in T : T \ {t} \notin Bad
  <2> HIDE DEF Bad
  <2>1. Bad \subseteq SUBSET Working
    BY DEF Bad
  <2> QED
    BY <1>1, <2>1, LeastBad DEF FewWork
<1>3. ASSUME NEW t \in T PROVE \E u \in T : t \in Blockers(u)
  <2> SUFFICES ASSUME \A u \in T : t \notin Blockers(u) PROVE T \ {t} \in Bad
    BY <1>2
  <2>1. t \in Sessions /\ t \notin Blockers(t) /\ Blockers(t) \cap T # {}
    BY BlockersWork DEF Working
  <2>2. T \ {t} # {}
    BY <2>1
  <2>3. \A u \in T \ {t} : Blockers(u) \cap (T \ {t}) # {}
    OBVIOUS
  <2> QED
    BY <2>2, <2>3
<1>4. PICK s \in T : TRUE
  OBVIOUS
<1>5. T \in SUBSET Sessions /\ \A t \in T : Blockers(t) \cap T # {}
  BY DEF Working
<1> HIDE DEF Bad
<1>6. Deadlocked(s)
  BY <1>3, <1>4, <1>5 DEF Deadlocked
<1>7. s \in Working
  BY <1>2, <1>4 DEF Bad
<1> QED
  BY <1>6, <1>7

(* Each step adds one session at most to those at work. *)
LEMMA StepWorking ==
    ASSUME TypeOK, FewWork, [Next]_vars
    PROVE  FewWork'
<1>1. PICK s : Working' \subseteq Working \cup {s}
  <2>1. ASSUME NEW s \in Sessions, pc' = [pc EXCEPT ![s] = "idle"]
        PROVE  Working' \subseteq Working \cup {s}
    BY <2>1 DEF Working, TypeOK
  <2>2. ASSUME pc' = pc PROVE Working' = Working
    BY <2>2 DEF Working
  <2>3. ASSUME NEW s \in Sessions, NEW state, pc' = [pc EXCEPT ![s] = state]
        PROVE  Working' \subseteq Working \cup {s}
    BY <2>3 DEF Working, TypeOK
  <2>4. ASSUME NEW s \in Sessions, Continue(s) PROVE Working' \subseteq Working \cup {s}
    BY <2>1, <2>2, <2>3, <2>4
       DEF Continue, SellItem, SellNoRow, SellShort, SellRecord, SellDuplicate, SellCommit,
           RebackItem, RebackMark, RebackLate, RebackCommit, SetInsert, SetUpdate, SetSaveFails,
           DeadlockVictim, Rollback, Return, WriteRow, Proceed
  <2>5. ASSUME NEW s \in Sessions,
               SellCommitFails(s) \/ RebackCommitFails(s) \/ RebackItemFails(s) \/ StatementFails(s)
        PROVE  Working' \subseteq Working \cup {s}
    BY <2>1, <2>5
       DEF SellCommitFails, RebackCommitFails, RebackItemFails, StatementFails, Rollback, Return
  <2>6. ASSUME NEW s \in Sessions, NEW state, NEW o, NEW l, Begin(s, state, o, l)
        PROVE  Working' \subseteq Working \cup {s}
    BY <2>3, <2>6 DEF Begin
  <2>7. CASE Crash \/ UNCHANGED vars \/ \E o \in Orders : RebackNotFound(o)
    <3>1. Working' = {} \/ pc' = pc
      BY <2>7 DEF Crash, vars, sessions, RebackNotFound, Working
    <3> QED
      BY <2>2, <3>1
  <2> QED
    BY <2>4, <2>5, <2>6, <2>7 DEF Next, SellBegin, RebackFind, SetRead, SetReadFails
<1>2. IsFiniteSet(Working \cup {s})
  BY FS_AddElement DEF FewWork
<1> QED
  BY <1>1, <1>2, FS_Subset DEF FewWork

(* Handlers never all wait for a lock, unless in a cycle: for any number of   *)
(* handlers, any requests and any failures.                                   *)
THEOREM SomebodyGoesOn == Spec => []WaitsEnd
<1>1. Init => FewWork
  <2> SUFFICES ASSUME Init PROVE FewWork
    OBVIOUS
  <2>1. Working = {}
    BY DEF Init, Working
  <2> QED
    BY <2>1, FS_EmptySet DEF FewWork
<1>2. IInv /\ FewWork /\ [Next]_vars => FewWork'
  BY StepWorking DEF IInv
<1>3. IInv /\ FewWork => WaitsEnd
  BY AllWaitingIsDeadlock DEF WaitsEnd, Working
<1> QED
  BY <1>1, <1>2, <1>3, Invariant, PTL DEF Spec
=============================================================================
