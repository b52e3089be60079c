----------------------------- MODULE Inventory -----------------------------
(* inventory_srv/handler/inventory.go: SetInv and Sell, called over gRPC, and *)
(* AutoReback, called by the consumer of topic order_reback, each in a        *)
(* goroutine (a session) of its own and any number at a time, over the two    *)
(* InnoDB tables inventory and stockselldetail.                               *)
(*                                                                            *)
(* One step is one SQL statement with the code that handles its result.  A    *)
(* statement that writes or reads FOR UPDATE takes the row's lock until the   *)
(* transaction ends, waits while another transaction has it, and its effect   *)
(* is private to the transaction until Commit.                                *)
EXTENDS SellItems, FiniteSets

CONSTANTS
    Goods,      \* goods ids
    Orders,     \* order numbers
    Sessions,   \* handler goroutines that can run at a time
    Requests,   \* the item lists a Sell may carry
    Levels,     \* the amounts a SetInv may carry
    MaxConns,   \* connections MySQL gives this process
    Faults,     \* which failures the environment may produce
    None        \* no row, no value

ASSUME InventoryAssumption ==
    /\ None \notin Int
    /\ None \notin Orders
    /\ \A r \in Requests : IsItemList(r, Goods, Int)
    /\ Levels \subseteq Int
    /\ MaxConns \in Nat
    /\ Faults \subseteq {"statement", "commit", "crash"}

VARIABLES
    stocks,     \* committed inventory.stocks by goods, None without a row
    twins,      \* goods that have more than one inventory row
    status,     \* committed stockselldetail.status: 0 no row, 1 deducted, 2 returned
    detail,     \* committed stockselldetail.detail
    pc,         \* where each session is in its handler
    sn,         \* the order number a session works for
    items,      \* the goods and amounts it works through
    next,       \* the position in items it has reached
    writes,     \* its uncommitted row images of inventory, None where it has none
    leaked,     \* transactions begun and never ended
    confirmed   \* orders some caller of Sell was told OK for

tables   == <<stocks, twins, status, detail>>
sessions == <<pc, sn, items, next, writes>>
vars     == <<tables, sessions, leaked, confirmed>>

(* SetInv's request as a list of one item. *)
SetLists == {<<[goods |-> g, num |-> n]>> : g \in Goods, n \in Levels}

States == {"idle", "sell", "sellCommit", "reback", "rebackCommit", "setInsert", "setUpdate"}
InTx   == {"sell", "sellCommit", "reback", "rebackCommit"}

Init ==
    /\ stocks = [g \in Goods |-> None]
    /\ twins = {}
    /\ status = [o \in Orders |-> 0]
    /\ detail = [o \in Orders |-> <<>>]
    /\ pc = [s \in Sessions |-> "idle"]
    /\ sn = [s \in Sessions |-> None]
    /\ items = [s \in Sessions |-> <<>>]
    /\ next = [s \in Sessions |-> 1]
    /\ writes = [s \in Sessions |-> [g \in Goods |-> None]]
    /\ leaked = 0
    /\ confirmed = {}

-----------------------------------------------------------------------------
(* Locks and connections.                                                     *)

(* No other transaction has written the inventory row of g, or read it FOR    *)
(* UPDATE (Sell does both in one step).                                       *)
RowFree(s, g) == \A t \in Sessions \ {s} : writes[t][g] = None

(* No other transaction has an uncommitted insert or update of o's row. *)
DetailFree(s, o) ==
    \A t \in Sessions \ {s} : ~(pc[t] \in {"sellCommit", "rebackCommit"} /\ sn[t] = o)

(* MySQL has a connection left for another transaction. *)
HasConn == leaked + Cardinality({s \in Sessions : pc[s] \in InTx}) < MaxConns

Pending(s) == next[s] <= Len(items[s])      \* the for loop has an item left
Item(s)    == items[s][next[s]]

(* The transaction t that session s waits for, as a set of at most one. *)
Blockers(s) ==
    {t \in Sessions \ {s} :
        \/ pc[s] \in {"sell", "reback"} /\ Pending(s) /\ writes[t][Item(s).goods] # None
        \/ pc[s] = "setUpdate" /\ writes[t][Item(s).goods] # None
        \/ /\ pc[s] \in {"sell", "reback"} /\ ~Pending(s)
           /\ pc[t] \in {"sellCommit", "rebackCommit"} /\ sn[t] = sn[s]}

(* A set of sessions each waiting for another of them. *)
Deadlocked(s) ==
    \E C \in SUBSET Sessions :
        /\ s \in C
        /\ \A t \in C : Blockers(t) \cap C # {}
        /\ \A t \in C : \E u \in C : t \in Blockers(u)

(* Bug for TypeOK: the loop counter outlives the handler. *)
Return_KeepsNext(s) ==
    /\ pc' = [pc EXCEPT ![s] = "idle"]
    /\ sn' = [sn EXCEPT ![s] = None]
    /\ items' = [items EXCEPT ![s] = <<>>]
    /\ writes' = [writes EXCEPT ![s] = [g \in Goods |-> None]]
    /\ UNCHANGED next

(* The session's handler returns; its transaction, if any, is over. *)
Return(s) ==
    /\ pc' = [pc EXCEPT ![s] = "idle"]
    /\ sn' = [sn EXCEPT ![s] = None]
    /\ items' = [items EXCEPT ![s] = <<>>]
    /\ next' = [next EXCEPT ![s] = 1]
    /\ writes' = [writes EXCEPT ![s] = [g \in Goods |-> None]]

(* Rollback, then return: nothing the transaction wrote is seen by anyone. *)
Rollback(s) == Return(s) /\ UNCHANGED <<tables, leaked, confirmed>>

(* The inventory table once the session's transaction commits. *)
Committed(s) == [g \in Goods |-> IF writes[s][g] = None THEN stocks[g] ELSE writes[s][g]]

Begin(s, state, o, list) ==
    /\ pc[s] = "idle"
    /\ pc' = [pc EXCEPT ![s] = state]
    /\ sn' = [sn EXCEPT ![s] = o]
    /\ items' = [items EXCEPT ![s] = list]
    /\ UNCHANGED <<tables, next, writes, leaked, confirmed>>

(* A loop iteration that leaves value v in the row of the current item. *)
WriteRow(s, v) ==
    /\ writes' = [writes EXCEPT ![s][Item(s).goods] = v]
    /\ next' = [next EXCEPT ![s] = @ + 1]
    /\ UNCHANGED <<tables, pc, sn, items, leaked, confirmed>>

(* An insert or update of the order's row succeeded: Commit is next. *)
Proceed(s, state) ==
    /\ pc' = [pc EXCEPT ![s] = state]
    /\ UNCHANGED <<tables, sn, items, next, writes, leaked, confirmed>>

-----------------------------------------------------------------------------
(* Sell.                                                                      *)

SellBegin(s, o, r) == HasConn /\ Begin(s, "sell", o, r)

(* Bug for RowImagesFresh: the row is read without FOR UPDATE. *)
SellItem_Unlocked(s) ==
    /\ pc[s] = "sell" /\ Pending(s)
    /\ stocks[Item(s).goods] # None
    /\ stocks[Item(s).goods] >= Item(s).num
    /\ WriteRow(s, stocks[Item(s).goods] - Item(s).num)

(* Bug for NoOversell: the stock is not compared with the amount. *)
SellItem_Unchecked(s) ==
    /\ pc[s] = "sell" /\ Pending(s)
    /\ RowFree(s, Item(s).goods)
    /\ stocks[Item(s).goods] # None
    /\ WriteRow(s, stocks[Item(s).goods] - Item(s).num)

SellItem(s) ==
    /\ pc[s] = "sell" /\ Pending(s)
    /\ RowFree(s, Item(s).goods)
    /\ stocks[Item(s).goods] # None
    /\ stocks[Item(s).goods] >= Item(s).num
    /\ WriteRow(s, stocks[Item(s).goods] - Item(s).num)

(* Bug for HeldRowsExist: goods without a row are passed over. *)
SellNoRow_Skips(s) ==
    /\ pc[s] = "sell" /\ Pending(s)
    /\ stocks[Item(s).goods] = None
    /\ next' = [next EXCEPT ![s] = @ + 1]
    /\ UNCHANGED <<tables, pc, sn, items, writes, leaked, confirmed>>

(* SELECT ... FOR UPDATE finds no row: InvalidArgument. *)
SellNoRow(s) ==
    /\ pc[s] = "sell" /\ Pending(s)
    /\ stocks[Item(s).goods] = None
    /\ Rollback(s)

(* Bug for ConfirmedIsDeducted: the caller is told OK after the rollback. *)
SellShort_SaysOk(s) ==
    /\ pc[s] = "sell" /\ Pending(s)
    /\ RowFree(s, Item(s).goods)
    /\ stocks[Item(s).goods] # None
    /\ stocks[Item(s).goods] < Item(s).num
    /\ confirmed' = confirmed \cup {sn[s]}
    /\ Return(s)
    /\ UNCHANGED <<tables, leaked>>

(* Bug for HandlersReturn and WaitsEnd: the transaction is not rolled back. *)
SellShort_KeepsLocks(s) ==
    /\ pc[s] = "sell" /\ Pending(s)
    /\ RowFree(s, Item(s).goods)
    /\ stocks[Item(s).goods] # None
    /\ stocks[Item(s).goods] < Item(s).num
    /\ pc' = [pc EXCEPT ![s] = "idle"]
    /\ sn' = [sn EXCEPT ![s] = None]
    /\ items' = [items EXCEPT ![s] = <<>>]
    /\ next' = [next EXCEPT ![s] = 1]
    /\ UNCHANGED <<tables, writes, leaked, confirmed>>

(* The locked row has too little: ResourceExhausted. *)
SellShort(s) ==
    /\ pc[s] = "sell" /\ Pending(s)
    /\ RowFree(s, Item(s).goods)
    /\ stocks[Item(s).goods] # None
    /\ stocks[Item(s).goods] < Item(s).num
    /\ Rollback(s)

SellRecord(s) ==
    /\ pc[s] = "sell" /\ ~Pending(s)
    /\ DetailFree(s, sn[s])
    /\ status[sn[s]] = 0
    /\ Proceed(s, "sellCommit")

(* The unique index idx_order_sn refuses the insert: Internal. *)
SellDuplicate(s) ==
    /\ pc[s] = "sell" /\ ~Pending(s)
    /\ DetailFree(s, sn[s])
    /\ status[sn[s]] # 0
    /\ Rollback(s)

SellCommit(s) ==
    /\ pc[s] = "sellCommit"
    /\ stocks' = Committed(s)
    /\ status' = [status EXCEPT ![sn[s]] = 1]
    /\ detail' = [detail EXCEPT ![sn[s]] = items[s]]
    /\ confirmed' = confirmed \cup {sn[s]}
    /\ Return(s)
    /\ UNCHANGED <<twins, leaked>>

(* tx.Commit() fails; its error is dropped and the caller is told OK. *)
SellCommitFails(s) ==
    /\ "commit" \in Faults
    /\ pc[s] = "sellCommit"
    /\ confirmed' = confirmed \cup {sn[s]}
    /\ Return(s)
    /\ UNCHANGED <<tables, leaked>>

-----------------------------------------------------------------------------
(* AutoReback.                                                                *)

(* Bug for ImplementsLedger: the SELECT does not ask for status 1. *)
RebackFind_AnyStatus(s, o) ==
    /\ HasConn
    /\ Begin(s, "reback", o, detail[o])

(* The unlocked SELECT of order_sn = o and status = 1 finds the row. *)
RebackFind(s, o) ==
    /\ HasConn
    /\ status[o] = 1
    /\ Begin(s, "reback", o, detail[o])

(* It finds none, or fails: ConsumeSuccess, and the transaction stays open. *)
RebackNotFound(o) ==
    /\ HasConn
    /\ status[o] = 1 => "statement" \in Faults
    /\ leaked' = leaked + 1
    /\ UNCHANGED <<tables, sessions, confirmed>>

(* UPDATE inventory SET stocks = stocks + num. *)
RebackItem(s) ==
    /\ pc[s] = "reback" /\ Pending(s)
    /\ RowFree(s, Item(s).goods)
    /\ stocks[Item(s).goods] # None
    /\ WriteRow(s, stocks[Item(s).goods] + Item(s).num)

(* The UPDATE matches no row or fails: ConsumeRetryLater. *)
RebackItemFails(s) ==
    /\ pc[s] = "reback" /\ Pending(s)
    /\ stocks[Item(s).goods] # None => "statement" \in Faults
    /\ Rollback(s)

(* UPDATE stockselldetail SET status = 2 changes the row. *)
RebackMark(s) ==
    /\ pc[s] = "reback" /\ ~Pending(s)
    /\ DetailFree(s, sn[s])
    /\ status[sn[s]] # 2
    /\ Proceed(s, "rebackCommit")

(* Bug for Conservation: the server counts the rows it matched, not those it  *)
(* changed (clientFoundRows=true in the DSN of initialize/db.go:16).          *)
RebackLate_CountsMatched(s) ==
    /\ pc[s] = "reback" /\ ~Pending(s)
    /\ DetailFree(s, sn[s])
    /\ status[sn[s]] = 2
    /\ Proceed(s, "rebackCommit")

(* Another delivery marked it first: no row is changed, ConsumeRetryLater. *)
RebackLate(s) ==
    /\ pc[s] = "reback" /\ ~Pending(s)
    /\ DetailFree(s, sn[s])
    /\ status[sn[s]] = 2
    /\ Rollback(s)

RebackCommit(s) ==
    /\ pc[s] = "rebackCommit"
    /\ stocks' = Committed(s)
    /\ status' = [status EXCEPT ![sn[s]] = 2]
    /\ Return(s)
    /\ UNCHANGED <<twins, detail, leaked, confirmed>>

(* tx.Commit() fails; the message is acknowledged all the same. *)
RebackCommitFails(s) ==
    /\ "commit" \in Faults
    /\ pc[s] = "rebackCommit"
    /\ Rollback(s)

-----------------------------------------------------------------------------
(* SetInv.                                                                    *)

(* The unlocked First decides whether Save will insert or update. *)
SetRead(s, g, n) ==
    Begin(s, IF stocks[g] = None THEN "setInsert" ELSE "setUpdate", None,
          <<[goods |-> g, num |-> n]>>)

(* First fails: inv.Goods is 0, as if there were no row. *)
SetReadFails(s, g, n) ==
    /\ "statement" \in Faults
    /\ Begin(s, "setInsert", None, <<[goods |-> g, num |-> n]>>)

(* INSERT: the goods index is not unique, so a second row is accepted; First  *)
(* (ORDER BY id) goes on reading the older one.                               *)
SetInsert(s) ==
    LET g == items[s][1].goods IN
    /\ pc[s] = "setInsert"
    /\ HasConn
    /\ IF stocks[g] = None
       THEN stocks' = [stocks EXCEPT ![g] = items[s][1].num] /\ UNCHANGED twins
       ELSE twins' = twins \cup {g} /\ UNCHANGED stocks
    /\ Return(s)
    /\ UNCHANGED <<status, detail, leaked, confirmed>>

(* UPDATE of the row that was read, once nobody holds it. *)
SetUpdate(s) ==
    LET g == items[s][1].goods IN
    /\ pc[s] = "setUpdate"
    /\ HasConn
    /\ RowFree(s, g)
    /\ stocks' = [stocks EXCEPT ![g] = items[s][1].num]
    /\ Return(s)
    /\ UNCHANGED <<twins, status, detail, leaked, confirmed>>

(* InvDetail: what a reader is told the stock is. *)
InvDetail(g) == stocks[g]

(* Save fails, or finds no connection: the error is dropped. *)
SetSaveFails(s) ==
    /\ pc[s] \in {"setInsert", "setUpdate"}
    /\ HasConn => "statement" \in Faults
    /\ Rollback(s)

-----------------------------------------------------------------------------
(* Failures.                                                                  *)

(* A statement of Sell or the last one of AutoReback fails (lock wait         *)
(* timeout, connection lost, a detail longer than its column): its            *)
(* RowsAffected is 0 and the handler rolls back.  The error of Save           *)
(* (inventory.go:76) is dropped, but its row is locked already: what is left  *)
(* to fail is the connection, and then line 80 fails too.                     *)
StatementFails(s) ==
    /\ "statement" \in Faults
    /\ \/ pc[s] = "sell"
       \/ pc[s] = "reback" /\ ~Pending(s)
    /\ Rollback(s)

(* InnoDB rolls back a transaction that waits in a cycle. *)
DeadlockVictim(s) ==
    /\ Deadlocked(s)
    /\ Rollback(s)

(* The process dies; the server rolls back what it had open. *)
Crash ==
    /\ "crash" \in Faults
    /\ pc' = [s \in Sessions |-> "idle"]
    /\ sn' = [s \in Sessions |-> None]
    /\ items' = [s \in Sessions |-> <<>>]
    /\ next' = [s \in Sessions |-> 1]
    /\ writes' = [s \in Sessions |-> [g \in Goods |-> None]]
    /\ leaked' = 0
    /\ UNCHANGED <<tables, confirmed>>

(* What a session does once its handler has been called. *)
Continue(s) ==
    \/ SellItem(s) \/ SellNoRow(s) \/ SellShort(s)
    \/ SellRecord(s) \/ SellDuplicate(s) \/ SellCommit(s)
    \/ RebackItem(s) \/ RebackMark(s) \/ RebackLate(s) \/ RebackCommit(s)
    \/ SetInsert(s) \/ SetUpdate(s)
    \/ SetSaveFails(s) \/ DeadlockVictim(s)

Next ==
    \/ \E s \in Sessions, o \in Orders, r \in Requests : SellBegin(s, o, r)
    \/ \E s \in Sessions, o \in Orders : RebackFind(s, o)
    \/ \E o \in Orders : RebackNotFound(o)
    \/ \E s \in Sessions, g \in Goods, n \in Levels : SetRead(s, g, n)
    \/ \E s \in Sessions, g \in Goods, n \in Levels : SetReadFails(s, g, n)
    \/ \E s \in Sessions : Continue(s)
    \/ \E s \in Sessions : SellCommitFails(s) \/ RebackCommitFails(s)
    \/ \E s \in Sessions : RebackItemFails(s) \/ StatementFails(s)
    \/ Crash

Spec == Init /\ [][Next]_vars

(* A goroutine is never abandoned, and InnoDB grants a row lock in the order  *)
(* of arrival, so a session that can go on again and again does.              *)
FairSpec == Spec /\ \A s \in Sessions : SF_vars(Continue(s))

-----------------------------------------------------------------------------
(* Properties.                                                                *)

Ledger == INSTANCE StockLedger

ItemLists == Requests \cup SetLists \cup {<<>>}

(* The type of every variable. *)
TypeOK ==
    /\ stocks \in [Goods -> Int \cup {None}]
    /\ twins \in SUBSET Goods
    /\ status \in [Orders -> {0, 1, 2}]
    /\ detail \in [Orders -> Requests \cup {<<>>}]
    /\ pc \in [Sessions -> States]
    /\ sn \in [Sessions -> Orders \cup {None}]
    /\ items \in [Sessions -> ItemLists]
    /\ next \in [Sessions -> Nat]
    /\ \A s \in Sessions : next[s] \in 1..Len(items[s]) + 1
    /\ writes \in [Sessions -> [Goods -> Int \cup {None}]]
    /\ leaked \in Nat
    /\ confirmed \in SUBSET Orders

(* Nothing is oversold: when no request carries a negative number, no         *)
(* interleaving of Sell, AutoReback and SetInv leaves a stock below zero (the *)
(* check of inventory.go:71 is made under the lock of line 66).  The handlers *)
(* check no sign: SetInv(-1), or the return of a sale of -1 (lines 30, 75 and *)
(* 134), does leave one below zero.                                           *)
NoOversell == \A g \in Goods : stocks[g] # None => stocks[g] >= 0

(* What a transaction is about to commit is still computed from the committed *)
(* stock: nobody has changed a row since the transaction read it, so Save     *)
(* (inventory.go:76), which writes the whole row back, loses no update.       *)
RowImagesFresh ==
    \A s \in Sessions, g \in Goods : writes[s][g] # None =>
        /\ stocks[g] # None
        /\ writes[s][g] = IF pc[s] \in {"sell", "sellCommit"}
                          THEN stocks[g] - NumOf(items[s], g)
                          ELSE stocks[g] + NumOf(items[s], g)

(* Every goods an order took still has its row, so the UPDATE of              *)
(* inventory.go:134 never misses a row and a return is never retried for ever *)
(* on that account.                                                           *)
HeldRowsExist ==
    \A o \in Orders : \A g \in GoodsOf(detail[o]) : stocks[g] # None

(* Somebody can always go on: if handlers are at work, one of them waits for  *)
(* no lock, or some of them wait in a cycle, which InnoDB breaks.  No lock    *)
(* outlives its handler, and no wait but for a lock holds up a handler.       *)
WaitsEnd ==
    (\E s \in Sessions : pc[s] # "idle") =>
        \E s \in Sessions : pc[s] # "idle" /\ (Blockers(s) = {} \/ Deadlocked(s))

(* inventory.proto:8: "rpc Sell ... // batch deduct inventory".  A caller of  *)
(* Sell is told OK only for an order whose deduction is in the tables,        *)
(* whatever ran beside it.  (Not so when tx.Commit fails, whose error         *)
(* inventory.go:85 drops.)                                                    *)
ConfirmedIsDeducted == \A o \in confirmed : status[o] # 0

(* The totals of the ledger are conserved by every interleaved commit: a      *)
(* deduction or a return is neither lost nor applied twice.                   *)
Conservation == Ledger!Conservation

(* The handlers implement the ledger: every step is atomically one of its     *)
(* promises or changes nothing a caller can read.                             *)
ImplementsLedger == Ledger!Spec

(* Every handler returns: no cycle or chain of row locks, whatever order the  *)
(* requests name their goods in, keeps a session waiting for ever.            *)
HandlersReturn == \A s \in Sessions : pc[s] # "idle" ~> pc[s] = "idle"

(* inventory.proto: "rpc SetInv ... // set goods' stocks".  When SetInv has   *)
(* saved, the goods' stock is the number it was given.                        *)
SetInvSetsStocks ==
    [][\A s \in Sessions, g \in Goods :
        (SetInsert(s) \/ SetUpdate(s)) /\ items[s][1].goods = g =>
            InvDetail(g)' = items[s][1].num]_vars
=============================================================================
