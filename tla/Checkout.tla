------------------------------ MODULE Checkout ------------------------------
(* Placing an order, across order_srv, inventory_srv and the RocketMQ broker: *)
(* OrderServer.CreateOrder with its OrderListener (order_srv/handler/order.go *)
(* and rockermq.go), the consumers OrderTimeout (order_srv) and AutoReback    *)
(* (inventory_srv), and the topics order_reback and order_timeout.            *)
(*                                                                            *)
(* CreateOrder sends a half message to order_reback, which the broker hides   *)
(* until it is told to commit it (the stock must go back) or to roll it back  *)
(* (the order stands).  inventory_srv is its ledger: StockLedger's actions,   *)
(* which Inventory implements.                                                *)
EXTENDS SellItems, FiniteSetsExt

CONSTANTS
    Calls,      \* calls of CreateOrder
    Users,      \* users, each with a shopping cart
    Orders,     \* order numbers GenerateOrderSn can produce
    Goods,      \* goods ids
    Catalog,    \* the goods that goods_srv knows
    Requests,   \* the lists of checked goods a cart may hold
    Stock,      \* units of each goods in stock at the start
    Faults,     \* which failures the environment may produce
    None        \* no value, no row

(* What BatchGetGoods returns for a list: the goods it knows, the others are  *)
(* left out.                                                                  *)
Known(list) == SelectSeq(list, LAMBDA i : i.goods \in Catalog)

ASSUME CheckoutAssumption ==
    /\ None \notin Int
    /\ None \notin Orders \cup Users
    /\ None \notin {"", "TRADE_CLOSED", "commit", "rollback", "ok", "error", "lost"}
    /\ \A r \in Requests : IsItemList(r, Goods, Int)
    /\ Stock \in Nat
    /\ Faults \subseteq {"rpc", "sellcommit", "db", "commit", "mq", "flush", "end", "check",
                   "crash", "slow", "discard"}

ASSUME CatalogAssumption ==
    \A r \in Requests \cup {<<>>} : Known(r) \in Requests \cup {<<>>}

VARIABLES
    stocks, status, detail,     \* the ledger of inventory_srv
    cart,       \* the checked rows of each user's shopping cart
    pc,         \* where each call is
    user,       \* whose order it is
    sn,         \* its order number
    unsold,     \* history: the calls Sell told OK though its own commit had failed
    items,      \* the goods it orders
    verdict,    \* what the listener returns to the broker
    reply,      \* what the client of CreateOrder is told
    half,       \* whether its half message waits for a verdict
    orderinfo,  \* the Status of its committed orderinfo row, None without a row
    delayed,    \* calls whose message is in topic order_timeout
    rebacks,    \* messages of topic order_reback a consumer can see
    fired,      \* order numbers a timer of the broker has fired for
    expired     \* order numbers OrderTimeout has sent back to the stock

ledger  == <<stocks, status, detail>>
request == <<user, sn, unsold>>
vars    == <<ledger, cart, pc, request, items, verdict, reply, half, orderinfo,
             delayed, rebacks, fired, expired>>

Ledger == INSTANCE StockLedger WITH Levels <- {Stock}

Init ==
    /\ stocks = [g \in Goods |-> Stock]
    /\ status = [o \in Orders |-> 0]
    /\ detail = [o \in Orders |-> <<>>]
    /\ cart = [u \in Users |-> <<>>]
    /\ pc = [c \in Calls |-> "idle"]
    /\ user = [c \in Calls |-> None]
    /\ sn = [c \in Calls |-> None]
    /\ unsold = {}
    /\ items = [c \in Calls |-> <<>>]
    /\ verdict = [c \in Calls |-> None]
    /\ reply = [c \in Calls |-> None]
    /\ half = [c \in Calls |-> FALSE]
    /\ orderinfo = [c \in Calls |-> None]
    /\ delayed = {}
    /\ rebacks = {}
    /\ fired = {}
    /\ expired = {}

States  == {"idle", "cart", "goods", "sell", "save", "clear", "timeout", "commit", "end", "done"}
Running == {"cart", "goods", "sell", "save", "clear", "timeout", "commit", "end"}
Sold    == {"save", "clear", "timeout", "commit"}     \* the goods are deducted

(* A message of order_reback, and which producer it comes from. *)
Message == [sn : Orders, by : {"listener", "timeout"}]

(* The listener sets Code and returns a transaction state to the client       *)
(* library.                                                                   *)
Decide(c, state, code) ==
    /\ pc' = [pc EXCEPT ![c] = "end"]
    /\ verdict' = [verdict EXCEPT ![c] = state]
    /\ reply' = [reply EXCEPT ![c] = code]

Advance(c, next) == pc' = [pc EXCEPT ![c] = next] /\ UNCHANGED <<verdict, reply>>

Broker == <<half, delayed, rebacks, fired, expired>>

-----------------------------------------------------------------------------
(* CreateOrder.                                                               *)

(* An order number GenerateOrderSn may produce now.  It is built from the     *)
(* second, so two calls within a second may share one; and from numbers that  *)
(* are not padded, so it can come again in another month, when nothing of its *)
(* first use is on its way any more.                                          *)
Fresh(o) ==
    o \in fired =>
        /\ \A c \in Calls : sn[c] = o => pc[c] \notin Running /\ ~half[c] /\ c \notin delayed
        /\ \A m \in rebacks : m.sn # o

(* The half message is stored and the listener is called.                     *)
CreateOrder(c, u, o) ==
    /\ pc[c] = "idle"
    /\ Fresh(o)
    /\ user' = [user EXCEPT ![c] = u]
    /\ sn' = [sn EXCEPT ![c] = o]
    /\ half' = [half EXCEPT ![c] = TRUE]
    /\ Advance(c, "cart")
    /\ UNCHANGED <<ledger, cart, unsold, items, orderinfo, delayed, rebacks, fired, expired>>

(* The producer does not start or the send reports an error, whether or not   *)
(* the broker has stored the half message; the listener is not called.        *)
CreateOrderFails(c, u, o) ==
    /\ "mq" \in Faults
    /\ pc[c] = "idle"
    /\ Fresh(o)
    /\ user' = [user EXCEPT ![c] = u]
    /\ sn' = [sn EXCEPT ![c] = o]
    /\ \E stored \in BOOLEAN : half' = [half EXCEPT ![c] = stored]
    /\ pc' = [pc EXCEPT ![c] = "done"]
    /\ reply' = [reply EXCEPT ![c] = "error"]
    /\ UNCHANGED <<ledger, cart, unsold, items, verdict, orderinfo, delayed, rebacks, fired,
                   expired>>

(* The broker stores the half message but could not flush or replicate it in  *)
(* time.  The client library reports no error, asks for a rollback and does   *)
(* not call the listener, whose Code keeps its zero value: OK.                *)
CreateOrderUnflushed(c, u, o) ==
    /\ "flush" \in Faults
    /\ pc[c] = "idle"
    /\ Fresh(o)
    /\ user' = [user EXCEPT ![c] = u]
    /\ sn' = [sn EXCEPT ![c] = o]
    /\ half' = [half EXCEPT ![c] = TRUE]
    /\ Decide(c, "rollback", "ok")
    /\ UNCHANGED <<ledger, cart, unsold, items, orderinfo, delayed, rebacks, fired, expired>>

-----------------------------------------------------------------------------
(* ExecuteLocalTransaction.                                                   *)

(* The checked rows of the cart, read outside any transaction. *)
ReadCart(c) ==
    /\ pc[c] = "cart"
    /\ cart[user[c]] # <<>>
    /\ items' = [items EXCEPT ![c] = cart[user[c]]]
    /\ Advance(c, "goods")
    /\ UNCHANGED <<ledger, cart, request, orderinfo, Broker>>

ReadCartEmpty(c) ==
    /\ pc[c] = "cart"
    /\ cart[user[c]] # <<>> => "db" \in Faults
    /\ Decide(c, "rollback", "error")
    /\ UNCHANGED <<ledger, cart, request, items, orderinfo, Broker>>

QueryGoods(c) ==
    /\ pc[c] = "goods"
    /\ items' = [items EXCEPT ![c] = Known(@)]
    /\ Advance(c, "sell")
    /\ UNCHANGED <<ledger, cart, request, orderinfo, Broker>>

QueryGoodsFails(c) ==
    /\ "rpc" \in Faults
    /\ pc[c] = "goods"
    /\ Decide(c, "rollback", "error")
    /\ UNCHANGED <<ledger, cart, request, items, orderinfo, Broker>>

SellOk(c) ==
    /\ pc[c] = "sell"
    /\ Ledger!Sell(sn[c], items[c])
    /\ Advance(c, "save")
    /\ UNCHANGED <<cart, request, items, orderinfo, Broker>>

(* Sell has checked and deducted all, its commit fails and the error is       *)
(* dropped: inventory_srv keeps nothing and answers OK.                       *)
SellUncommitted(c) ==
    /\ "sellcommit" \in Faults
    /\ pc[c] = "sell"
    /\ status[sn[c]] = 0 /\ Ledger!Available(items[c])
    /\ unsold' = unsold \cup {c}
    /\ Advance(c, "save")
    /\ UNCHANGED <<ledger, cart, user, sn, items, orderinfo, Broker>>

(* Bug for OneOrderPerNumber and OrderWasDeducted: the error of Sell is       *)
(* ignored.                                                                   *)
SellRefused_Ignored(c) ==
    /\ pc[c] = "sell"
    /\ status[sn[c]] = 0 /\ Ledger!Available(items[c]) => "rpc" \in Faults
    /\ Advance(c, "save")
    /\ UNCHANGED <<ledger, cart, request, items, orderinfo, Broker>>

(* inventory_srv refuses, or the call fails before it reaches it. *)
SellRefused(c) ==
    /\ pc[c] = "sell"
    /\ status[sn[c]] = 0 /\ Ledger!Available(items[c]) => "rpc" \in Faults
    /\ Decide(c, "rollback", "error")
    /\ UNCHANGED <<ledger, cart, request, items, orderinfo, Broker>>

(* inventory_srv deducts, but its answer is lost. *)
SellUnanswered(c) ==
    /\ "rpc" \in Faults
    /\ pc[c] = "sell"
    /\ Ledger!Sell(sn[c], items[c])
    /\ Decide(c, "rollback", "error")
    /\ UNCHANGED <<cart, request, items, orderinfo, Broker>>

(* The order and its goods are written, in a transaction nobody else sees. *)
SaveOrder(c) ==
    /\ pc[c] = "save"
    /\ items[c] # <<>>
    /\ Advance(c, "clear")
    /\ UNCHANGED <<ledger, cart, request, items, orderinfo, Broker>>

(* Bug for StockComesBack and StockIsAccountedFor: the message is rolled back. *)
SaveOrderFails_RollsBack(c) ==
    /\ pc[c] = "save"
    /\ items[c] # <<>> => "db" \in Faults
    /\ Decide(c, "rollback", "error")
    /\ UNCHANGED <<ledger, cart, request, items, orderinfo, Broker>>

(* A statement fails, or there are no goods to write (CreateInBatches of an   *)
(* empty list affects no row).                                                *)
SaveOrderFails(c) ==
    /\ pc[c] = "save"
    /\ items[c] # <<>> => "db" \in Faults
    /\ Decide(c, "commit", "error")
    /\ UNCHANGED <<ledger, cart, request, items, orderinfo, Broker>>

(* Another call of the user has deleted the cart rows and not committed yet. *)
CartHeld(c) ==
    \E d \in Calls \ {c} : user[d] = user[c] /\ pc[d] \in {"timeout", "commit"}

(* The rows of the cart that are checked now are deleted. *)
ClearCart(c) ==
    /\ pc[c] = "clear"
    /\ ~CartHeld(c)
    /\ cart[user[c]] # <<>>
    /\ Advance(c, "timeout")
    /\ UNCHANGED <<ledger, cart, request, items, orderinfo, Broker>>

(* Bug for ReplyMatchesOrder: Code keeps its zero value, which is OK. *)
ClearCartFails_SaysOk(c) ==
    /\ pc[c] = "clear"
    /\ ~CartHeld(c)
    /\ cart[user[c]] # <<>> => "db" \in Faults
    /\ Decide(c, "commit", "ok")
    /\ UNCHANGED <<ledger, cart, request, items, orderinfo, Broker>>

ClearCartFails(c) ==
    /\ pc[c] = "clear"
    /\ ~CartHeld(c)
    /\ cart[user[c]] # <<>> => "db" \in Faults
    /\ Decide(c, "commit", "error")
    /\ UNCHANGED <<ledger, cart, request, items, orderinfo, Broker>>

(* The delayed message goes out before the transaction commits. *)
SendTimeout(c) ==
    /\ pc[c] = "timeout"
    /\ delayed' = delayed \cup {c}
    /\ Advance(c, "commit")
    /\ UNCHANGED <<ledger, cart, request, items, orderinfo, half, rebacks, fired, expired>>

(* Bug for ErrorMeansNoOrder: the transaction is not rolled back. *)
SendTimeoutFails_Commits(c) ==
    /\ "mq" \in Faults
    /\ pc[c] = "timeout"
    /\ delayed' \in {delayed, delayed \cup {c}}
    /\ orderinfo' = [orderinfo EXCEPT ![c] = ""]
    /\ Decide(c, "commit", "error")
    /\ UNCHANGED <<ledger, cart, request, items, half, rebacks, fired, expired>>

(* SendSync reports an error, whether or not the broker has the message. *)
SendTimeoutFails(c) ==
    /\ "mq" \in Faults
    /\ pc[c] = "timeout"
    /\ delayed' \in {delayed, delayed \cup {c}}
    /\ Decide(c, "commit", "error")
    /\ UNCHANGED <<ledger, cart, request, items, orderinfo, half, rebacks, fired, expired>>

(* Bug for OrderHoldsStock and OrdersFitStock: the half message of a placed   *)
(* order is committed.                                                        *)
CommitOrder_CommitsMessage(c) ==
    /\ pc[c] = "commit"
    /\ orderinfo' = [orderinfo EXCEPT ![c] = ""]
    /\ cart' = [cart EXCEPT ![user[c]] = <<>>]
    /\ Decide(c, "commit", "ok")
    /\ UNCHANGED <<ledger, request, items, Broker>>

(* Bug for TypeOK: the row is saved as already paid. *)
CommitOrder_SavedAsPaid(c) ==
    /\ pc[c] = "commit"
    /\ orderinfo' = [orderinfo EXCEPT ![c] = "TRADE_SUCCESS"]
    /\ cart' = [cart EXCEPT ![user[c]] = <<>>]
    /\ Decide(c, "rollback", "ok")
    /\ UNCHANGED <<ledger, request, items, Broker>>

CommitOrder(c) ==
    /\ pc[c] = "commit"
    /\ orderinfo' = [orderinfo EXCEPT ![c] = ""]
    /\ cart' = [cart EXCEPT ![user[c]] = <<>>]
    /\ Decide(c, "rollback", "ok")
    /\ UNCHANGED <<ledger, request, items, Broker>>

(* tx.Commit() fails; its error is dropped. *)
CommitOrderFails(c) ==
    /\ "commit" \in Faults
    /\ pc[c] = "commit"
    /\ Decide(c, "rollback", "ok")
    /\ UNCHANGED <<ledger, cart, request, items, orderinfo, Broker>>

(* The client library tells the broker the listener's verdict, one way, and   *)
(* CreateOrder answers.                                                       *)
EndTransaction(c) ==
    /\ pc[c] = "end"
    /\ half' = [half EXCEPT ![c] = FALSE]
    /\ rebacks' = IF verdict[c] = "commit"
                  THEN rebacks \cup {[sn |-> sn[c], by |-> "listener"]}
                  ELSE rebacks
    /\ Advance(c, "done")
    /\ UNCHANGED <<ledger, cart, request, items, orderinfo, delayed, fired, expired>>

EndTransactionLost(c) ==
    /\ "end" \in Faults
    /\ pc[c] = "end"
    /\ Advance(c, "done")
    /\ UNCHANGED <<ledger, cart, request, items, orderinfo, Broker>>

-----------------------------------------------------------------------------
(* The broker's timers, and the consumers.                                    *)

HasOrder(o) == \E c \in Calls : orderinfo[c] # None /\ sn[c] = o

(* The delay level and the check interval are longer than a call takes,       *)
(* unless calls can be slow: no RPC and no statement has a deadline.          *)
Due(o) == "slow" \in Faults \/ \A c \in Calls : sn[c] = o => pc[c] \notin Running

(* CheckLocalTransaction, asked of any producer of the group that is up: only *)
(* a running CreateOrder has one.                                             *)
CheckLocalTransaction(c) ==
    /\ half[c]
    /\ Due(sn[c])
    /\ \E d \in Calls : pc[d] \in Running
    /\ half' = [half EXCEPT ![c] = FALSE]
    /\ rebacks' = IF HasOrder(sn[c])
                  THEN rebacks
                  ELSE rebacks \cup {[sn |-> sn[c], by |-> "listener"]}
    /\ fired' = fired \cup {sn[c]}
    /\ UNCHANGED <<ledger, cart, pc, request, items, verdict, reply, orderinfo, delayed, expired>>

(* Its query fails, and reads as an order that is not there. *)
CheckLocalTransactionFails(c) ==
    /\ "check" \in Faults
    /\ half[c]
    /\ Due(sn[c])
    /\ \E d \in Calls : pc[d] \in Running
    /\ half' = [half EXCEPT ![c] = FALSE]
    /\ rebacks' = rebacks \cup {[sn |-> sn[c], by |-> "listener"]}
    /\ fired' = fired \cup {sn[c]}
    /\ UNCHANGED <<ledger, cart, pc, request, items, verdict, reply, orderinfo, delayed, expired>>

(* The broker gives up asking. *)
DiscardHalf(c) ==
    /\ "discard" \in Faults
    /\ half[c]
    /\ Due(sn[c])
    /\ half' = [half EXCEPT ![c] = FALSE]
    /\ fired' = fired \cup {sn[c]}
    /\ UNCHANGED <<ledger, cart, pc, request, items, verdict, reply, orderinfo, delayed,
                   rebacks, expired>>

(* OrderTimeout finds no order, or its query fails and reads as none: the     *)
(* message is acknowledged.                                                   *)
TimeoutNoOrder(c) ==
    /\ c \in delayed
    /\ Due(sn[c])
    /\ HasOrder(sn[c]) => "check" \in Faults
    /\ delayed' = delayed \ {c}
    /\ fired' = fired \cup {sn[c]}
    /\ UNCHANGED <<ledger, cart, pc, request, items, verdict, reply, orderinfo, half,
                   rebacks, expired>>

(* OrderTimeout finds an unpaid order d: it writes TRADE_CLOSED in a          *)
(* transaction it never ends, so that nobody ever sees it, and asks for the   *)
(* stock.  An acknowledgement that is lost makes the broker deliver again:    *)
(* Save then fails on the row's lock, its error is dropped, and the stock is  *)
(* asked for once more.                                                       *)
TimeoutClose(c, d) ==
    /\ c \in delayed
    /\ Due(sn[c])
    /\ orderinfo[d] # None /\ orderinfo[d] # "TRADE_SUCCESS" /\ sn[d] = sn[c]
    /\ rebacks' = rebacks \cup {[sn |-> sn[c], by |-> "timeout"]}
    /\ delayed' \in {delayed, delayed \ {c}}
    /\ fired' = fired \cup {sn[c]}
    /\ expired' = expired \cup {sn[c]}
    /\ UNCHANGED <<ledger, cart, pc, request, items, verdict, reply, orderinfo, half>>

(* SendSync reports an error, whether or not the broker has the message: the  *)
(* transaction is rolled back and the message comes again.                    *)
TimeoutSendFails(c, d) ==
    /\ "mq" \in Faults
    /\ c \in delayed
    /\ Due(sn[c])
    /\ orderinfo[d] # None /\ orderinfo[d] # "TRADE_SUCCESS" /\ sn[d] = sn[c]
    /\ rebacks' \in {rebacks, rebacks \cup {[sn |-> sn[c], by |-> "timeout"]}}
    /\ fired' = fired \cup {sn[c]}
    /\ expired' = expired \cup {sn[c]}
    /\ UNCHANGED <<ledger, cart, pc, request, items, verdict, reply, orderinfo, half, delayed>>

(* AutoReback: the stock of an order that holds some goes back, any other     *)
(* message is acknowledged, also when the query fails and reads as an order   *)
(* that holds none.  A lost acknowledgement leaves the message.               *)
RebackReturn(m) ==
    /\ Ledger!Return(m.sn)
    /\ rebacks' \in {rebacks, rebacks \ {m}}
    /\ UNCHANGED <<cart, pc, request, items, verdict, reply, orderinfo, half, delayed,
                   fired, expired>>

RebackNothing(m) ==
    /\ status[m.sn] = 1 => "check" \in Faults
    /\ rebacks' = rebacks \ {m}
    /\ UNCHANGED <<ledger, cart, pc, request, items, verdict, reply, orderinfo, half,
                   delayed, fired, expired>>

-----------------------------------------------------------------------------
(* order_srv dies: the server rolls back its transactions, clients get no     *)
(* answer, half messages wait for a check.  The panics of rockermq.go:152,    *)
(* 157, 212 and 216 end here too.                                             *)
Crash ==
    /\ "crash" \in Faults
    /\ pc' = [c \in Calls |-> IF pc[c] \in Running THEN "done" ELSE pc[c]]
    /\ reply' = [c \in Calls |-> IF pc[c] \in Running THEN "lost" ELSE reply[c]]
    /\ UNCHANGED <<ledger, cart, request, items, verdict, orderinfo, half, delayed, rebacks,
                   fired, expired>>

(* The user changes what is checked in the cart: CreateCartItem,              *)
(* UpdateCartItem and DeleteCartItem.                                         *)
ChangeCart(u, r) ==
    /\ \A c \in Calls : user[c] = u => pc[c] \notin {"timeout", "commit"}
    /\ cart' = [cart EXCEPT ![u] = r]
    /\ UNCHANGED <<ledger, pc, request, items, verdict, reply, orderinfo, Broker>>

(* What a call does by itself. *)
Proceed(c) ==
    \/ ReadCart(c) \/ ReadCartEmpty(c)
    \/ QueryGoods(c) \/ QueryGoodsFails(c)
    \/ SellOk(c) \/ SellUncommitted(c) \/ SellRefused(c) \/ SellUnanswered(c)
    \/ SaveOrder(c) \/ SaveOrderFails(c)
    \/ ClearCart(c) \/ ClearCartFails(c)
    \/ SendTimeout(c) \/ SendTimeoutFails(c)
    \/ CommitOrder(c) \/ CommitOrderFails(c)
    \/ EndTransaction(c) \/ EndTransactionLost(c)

Next ==
    \/ \E c \in Calls, u \in Users, o \in Orders : CreateOrder(c, u, o)
    \/ \E c \in Calls, u \in Users, o \in Orders : CreateOrderFails(c, u, o)
    \/ \E c \in Calls, u \in Users, o \in Orders : CreateOrderUnflushed(c, u, o)
    \/ \E c \in Calls : Proceed(c)
    \/ \E c \in Calls : CheckLocalTransaction(c) \/ CheckLocalTransactionFails(c) \/ DiscardHalf(c)
    \/ \E c \in Calls : TimeoutNoOrder(c)
    \/ \E c, d \in Calls : TimeoutClose(c, d) \/ TimeoutSendFails(c, d)
    \/ \E m \in rebacks : RebackReturn(m) \/ RebackNothing(m)
    \/ \E u \in Users, r \in Requests \cup {<<>>} : ChangeCart(u, r)
    \/ Crash

Spec == Init /\ [][Next]_vars

(* A call goes on until it returns.  The broker delivers a message again      *)
(* until a consumer takes it, so a delivery that can succeed again and again  *)
(* does.                                                                      *)
Fairness ==
    /\ \A c \in Calls : WF_vars(Proceed(c))
    /\ \A c, d \in Calls : SF_vars(TimeoutClose(c, d))
    /\ \A m \in Message : SF_vars(m \in rebacks /\ RebackReturn(m))

FairSpec == Spec /\ Fairness

-----------------------------------------------------------------------------
(* Properties.                                                                *)

ItemLists == Requests \cup {<<>>}

(* The type of every variable. *)
TypeOK ==
    /\ stocks \in [Goods -> Int]
    /\ status \in [Orders -> {0, 1, 2}]
    /\ detail \in [Orders -> ItemLists]
    /\ cart \in [Users -> ItemLists]
    /\ pc \in [Calls -> States]
    /\ user \in [Calls -> Users \cup {None}]
    /\ sn \in [Calls -> Orders \cup {None}]
    /\ unsold \subseteq Calls
    /\ items \in [Calls -> ItemLists]
    /\ verdict \in [Calls -> {None, "commit", "rollback"}]
    /\ reply \in [Calls -> {None, "ok", "error", "lost"}]
    /\ half \in [Calls -> BOOLEAN]
    /\ orderinfo \in [Calls -> {None, "", "TRADE_CLOSED"}]
    /\ delayed \subseteq Calls
    /\ rebacks \subseteq Message
    /\ fired \subseteq Orders
    /\ expired \subseteq Orders
    /\ \A c \in Calls : pc[c] # "idle" => sn[c] # None /\ user[c] # None

(* rockermq.go:173: "If there are no errors in the process of creating a new  *)
(* order, the message should be rolled back to prevent the stock quantity     *)
(* from being restored".  An order that stands and has not timed out has its  *)
(* goods, all of them, out of the stock.  (Not so when a commit of Sell fails *)
(* unnoticed: its order holds nothing, and what it gives back when it fails   *)
(* may be another call's stock of the same number.)                           *)
OrderHoldsStock ==
    \A c \in Calls : orderinfo[c] # None /\ sn[c] \notin expired =>
        status[sn[c]] = 1 /\ detail[sn[c]] = items[c]

(* The client is told OK exactly when the order is saved, but for calls whose *)
(* answer a crash has swallowed.  (Not so when a commit fails, whose error    *)
(* rockermq.go:172 drops, or when the listener is not called.)                *)
ReplyMatchesOrder ==
    \A c \in Calls :
        /\ reply[c] = "ok" => orderinfo[c] # None
        /\ orderinfo[c] # None => reply[c] \in {"ok", "lost"}

(* A client that is told of an error may place the order again: whatever      *)
(* fails, there is no order of the first call, not now and not later.         *)
ErrorMeansNoOrder == \A c \in Calls : reply[c] = "error" => orderinfo[c] = None

(* The shop never owes more than it has: the orders that stand and have not   *)
(* timed out, of all users together, ask for no more of a goods than there    *)
(* was, though one service writes the orders, another the stock, and messages *)
(* put stock back for new orders to take.  (For amounts that are no negative  *)
(* numbers, which no handler checks, and unless a commit of Sell fails        *)
(* unnoticed.)                                                                *)
OrdersFitStock ==
    LET standing == {c \in Calls : orderinfo[c] # None /\ sn[c] \notin expired}
    IN  \A g \in Goods : MapThenSumSet(LAMBDA c : NumOf(items[c], g), standing) <= Stock

(* orderinfo.order_sn is not unique, and GenerateOrderSn repeats itself: it   *)
(* is the unique index of inventory_srv that keeps two saved orders from      *)
(* sharing a number.  It does so whatever else fails, but for an order whose  *)
(* Sell was confirmed without being committed (inventory.go:85): that leaves  *)
(* no row in the index, and the number is free for another order.             *)
OneOrderPerNumber ==
    \A c, d \in Calls :
        /\ orderinfo[c] # None /\ orderinfo[d] # None
        /\ sn[c] = sn[d] /\ c # d
        => c \in unsold \/ d \in unsold

(* A saved order's goods were deducted, exactly as it lists them: the one     *)
(* way to an order that took nothing from the stock is a Sell that was        *)
(* confirmed without being committed (inventory.go:85), whatever else fails,  *)
(* and whatever others that share its number do.                              *)
OrderWasDeducted ==
    \A c \in Calls : orderinfo[c] # None /\ c \notin unsold =>
        status[sn[c]] # 0 /\ detail[sn[c]] = items[c]

(* What an order number has deducted is always somebody's to give back: a     *)
(* call that is at work, a saved order, a half message that the broker will   *)
(* ask about (also after a crash or a lost verdict), or a message to          *)
(* AutoReback.  (Not so when the answer of Sell or the commit of the order is *)
(* lost: rockermq.go:93 and 172.)                                             *)
StockIsAccountedFor ==
    \A o \in Orders : status[o] = 1 =>
        \/ \E c \in Calls : sn[c] = o /\ (pc[c] \in Sold \/ orderinfo[c] # None \/ half[c])
        \/ \E m \in rebacks : m.sn = o

(* Nothing that is deducted stays deducted for ever: an order that fails      *)
(* gives its goods back through the half message, one that stands and is not  *)
(* paid through the timeout, whatever statements and sends fail on the way.   *)
StockComesBack == \A o \in Orders : status[o] = 1 ~> status[o] = 2

(* model/order.go:25: "TRADE_CLOSED(超时关闭)", closed by timeout.  The order  *)
(* whose timeout has been taken off the topic is closed.                      *)
TimedOutIsClosed ==
    \A c \in Calls : orderinfo[c] # None /\ sn[c] \in expired /\ delayed = {} =>
        orderinfo[c] = "TRADE_CLOSED"
=============================================================================
