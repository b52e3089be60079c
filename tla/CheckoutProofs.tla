--------------------------- MODULE CheckoutProofs ---------------------------
(* Safety of Checkout for any calls, users, order numbers, goods and faults.  *)
EXTENDS Checkout, SellItemsProofs

-----------------------------------------------------------------------------
(* The inductive invariant, in named parts.                                   *)

(* What a call says of its own variables. *)
CallShape ==
    \A c \in Calls :
        /\ pc[c] \in {"idle", "cart", "goods", "sell"} \cup Sold =>
                orderinfo[c] = None /\ verdict[c] = None
        /\ orderinfo[c] # None => verdict[c] = "rollback"

(* A call has, or is about to have, an order. *)
Ordering(c) == pc[c] \in Sold \/ orderinfo[c] # None

(* A call has deducted the goods of its number and knows it. *)
Claims(c) == c \notin unsold /\ (Ordering(c) \/ verdict[c] = "commit")

(* A claimed number is deducted, by one call, for that call's goods. *)
ClaimsDeducted == \A c \in Calls : Claims(c) => status[sn[c]] # 0
ClaimedGoods   == \A c \in Calls : Ordering(c) /\ Claims(c) => detail[sn[c]] = items[c]
ClaimsExclude  ==
    \A c, d \in Calls : Claims(c) /\ Claims(d) /\ sn[c] = sn[d] => c = d

(* No call is confirmed without its deduction unless a commit of Sell fails. *)
UnsoldByFault == unsold # {} => "sellcommit" \in Faults

Core ==
    /\ TypeOK
    /\ CallShape
    /\ UnsoldByFault
    /\ ClaimsDeducted
    /\ ClaimedGoods
    /\ ClaimsExclude

(* A message on its way was sent by a call. *)
SentByCalls == \A c \in Calls : half[c] \/ c \in delayed => pc[c] # "idle"

IInv == Core /\ SentByCalls

-----------------------------------------------------------------------------
(* Lists of goods, and the ledger.                                            *)

LEMMA NoValue ==
    /\ None \notin Orders \cup Users
    /\ None \notin {"", "TRADE_CLOSED", "commit", "rollback", "ok", "error", "lost"}
    /\ Stock \in Int
<1>1. None \notin Orders \cup Users
  BY CheckoutAssumption
<1>2. None \notin {"", "TRADE_CLOSED", "commit", "rollback", "ok", "error", "lost"}
  BY CheckoutAssumption
<1>3. Stock \in Int
  <2>1. Stock \in Nat
    BY CheckoutAssumption
  <2> QED
    BY <2>1
<1> QED
  BY <1>1, <1>2, <1>3

LEMMA KnownLists == \A l \in ItemLists : Known(l) \in ItemLists
  BY CatalogAssumption DEF ItemLists

LEMMA ListsAreItemLists ==
    ASSUME NEW l \in ItemLists
    PROVE  IsItemList(l, Goods, Int)
<1>1. CASE l \in Requests
  BY <1>1, CheckoutAssumption
<1>2. CASE l = <<>>
  BY <1>2 DEF IsItemList, Distinct
<1> QED
  BY <1>1, <1>2 DEF ItemLists

(* The ledger's operators on lists are those of this module. *)
LEMMA SameLists ==
    ASSUME NEW l
    PROVE  /\ Ledger!GoodsOf(l) = GoodsOf(l)
           /\ \A g : Ledger!NumOf(l, g) = NumOf(l, g)
<1>1. Ledger!GoodsOf(l) = GoodsOf(l)
  BY DEF Ledger!GoodsOf, GoodsOf
<1> QED
  BY <1>1 DEF Ledger!NumOf, NumOf

LEMMA AmountsAreNumbers ==
    ASSUME NEW l \in ItemLists, NEW g \in Ledger!GoodsOf(l)
    PROVE  Ledger!NumOf(l, g) \in Int
<1>1. IsItemList(l, Goods, Int)
  BY ListsAreItemLists
<1> QED
  BY <1>1, GoodsOfType, SameLists

(* The ledger's variables, of their types, and no row forgotten or rewritten. *)
LedgerKept ==
    /\ stocks' \in [Goods -> Int]
    /\ status' \in [Orders -> {0, 1, 2}]
    /\ detail' \in [Orders -> ItemLists]
    /\ \A o \in Orders : status[o] # 0 => status'[o] # 0 /\ detail'[o] = detail[o]

LEMMA LedgerType ==
    ASSUME TypeOK
    PROVE  /\ stocks \in [Goods -> Int]
           /\ status \in [Orders -> {0, 1, 2}]
           /\ detail \in [Orders -> ItemLists]
  BY DEF TypeOK

LEMMA SellKeeps ==
    ASSUME TypeOK, NEW o \in Orders, NEW l \in ItemLists, Ledger!Sell(o, l)
    PROVE  /\ LedgerKept
           /\ status[o] = 0 /\ status'[o] = 1 /\ detail'[o] = l
           /\ \A p \in Orders \ {o} : status'[p] = status[p]
<1> USE LedgerType DEF Ledger!Sell
<1>1. \A g \in Ledger!GoodsOf(l) : Ledger!NumOf(l, g) \in Int
  BY AmountsAreNumbers
<1>2. stocks' \in [Goods -> Int]
  BY <1>1
<1>3. /\ status[o] = 0
      /\ status' = [status EXCEPT ![o] = 1]
      /\ detail' = [detail EXCEPT ![o] = l]
  OBVIOUS
<1> QED
  BY <1>2, <1>3 DEF LedgerKept

LEMMA ReturnKeeps ==
    ASSUME TypeOK, NEW o \in Orders, Ledger!Return(o)
    PROVE  /\ LedgerKept
           /\ status[o] = 1
           /\ \A p \in Orders \ {o} : status'[p] = status[p]
<1> USE LedgerType DEF Ledger!Return
<1>1. \A g \in Ledger!GoodsOf(detail[o]) : Ledger!NumOf(detail[o], g) \in Int
  BY AmountsAreNumbers
<1>2. stocks' \in [Goods -> Int]
  BY <1>1
<1>3. /\ status[o] = 1
      /\ status' = [status EXCEPT ![o] = 2]
      /\ detail' = detail
  OBVIOUS
<1> QED
  BY <1>2, <1>3 DEF LedgerKept

LEMMA SameKeeps ==
    ASSUME TypeOK, UNCHANGED ledger
    PROVE  LedgerKept
  BY DEF TypeOK, ledger, LedgerKept

-----------------------------------------------------------------------------
(* The invariant, one lemma for each kind of step.                            *)

LEMMA InitCore == Init => Core
<1> SUFFICES ASSUME Init PROVE Core
  OBVIOUS
<1> USE NoValue DEF Init
<1>1. TypeOK
  BY DEF TypeOK, States, ItemLists, Message
<1>2. CallShape
  BY DEF CallShape, Sold
<1>3. \A c \in Calls : ~Claims(c) /\ ~Ordering(c)
  BY DEF Claims, Ordering, Sold
<1> QED
  BY <1>1, <1>2, <1>3 DEF Core, UnsoldByFault, ClaimsDeducted, ClaimedGoods, ClaimsExclude

(* A step of one call keeps the other calls' variables. *)
Alone(c) ==
    \A d \in Calls \ {c} :
        /\ pc'[d] = pc[d] /\ sn'[d] = sn[d] /\ items'[d] = items[d]
        /\ verdict'[d] = verdict[d] /\ orderinfo'[d] = orderinfo[d]

(* A step of one call that claims nothing new. *)
LEMMA MoveStep ==
    ASSUME Core, TypeOK', LedgerKept, NEW c \in Calls, Alone(c), UNCHANGED unsold,
           pc'[c] \in {"idle", "cart", "goods", "sell"} \cup Sold =>
                orderinfo'[c] = None /\ verdict'[c] = None,
           orderinfo'[c] # None => verdict'[c] = "rollback",
           Claims(c)' => Claims(c) /\ sn'[c] = sn[c],
           Ordering(c)' => Ordering(c) /\ items'[c] = items[c]
    PROVE  Core'
<1>1. \A d \in Calls : Claims(d)' => Claims(d) /\ sn'[d] = sn[d]
  BY DEF Alone, Claims, Ordering
<1>2. \A d \in Calls : Ordering(d)' => Ordering(d) /\ items'[d] = items[d]
  BY DEF Alone, Ordering
<1>3. \A d \in Calls : Claims(d) => sn[d] \in Orders
  <2>1. \A d \in Calls : Claims(d) => pc[d] # "idle"
    BY NoValue DEF Core, CallShape, Claims, Ordering, Sold
  <2> QED
    BY <2>1 DEF Core, TypeOK
<1>4. CallShape'
  BY DEF Core, CallShape, Alone
<1>5. ClaimsDeducted'
  BY <1>1, <1>3 DEF Core, ClaimsDeducted, LedgerKept
<1>6. ClaimedGoods'
  <2> SUFFICES ASSUME NEW d \in Calls, Ordering(d)', Claims(d)'
               PROVE  detail'[sn'[d]] = items'[d]
    BY DEF ClaimedGoods
  <2>1. Ordering(d) /\ Claims(d)
    BY <1>1, <1>2
  <2>2. sn'[d] = sn[d] /\ items'[d] = items[d] /\ sn[d] \in Orders
    BY <2>1, <1>1, <1>2, <1>3
  <2>3. status[sn[d]] # 0 /\ detail[sn[d]] = items[d]
    BY <2>1 DEF Core, ClaimsDeducted, ClaimedGoods
  <2> QED
    BY <2>2, <2>3 DEF LedgerKept
<1>7. ClaimsExclude'
  BY <1>1 DEF Core, ClaimsExclude
<1> QED
  BY <1>4, <1>5, <1>6, <1>7 DEF Core, UnsoldByFault

(* A step that leaves the calls alone. *)
LEMMA StillStep ==
    ASSUME Core, TypeOK', LedgerKept, UNCHANGED <<pc, sn, unsold, items, verdict, orderinfo>>
    PROVE  Core'
<1>1. CASE Calls = {}
  BY <1>1 DEF Core, CallShape, UnsoldByFault, ClaimsDeducted, ClaimedGoods, ClaimsExclude
<1>2. CASE Calls # {}
  <2>1. PICK c \in Calls : TRUE
    BY <1>2
  <2> QED
    BY <2>1, MoveStep DEF Core, CallShape, Alone, Claims, Ordering
<1> QED
  BY <1>1, <1>2

-----------------------------------------------------------------------------
(* The actions of CreateOrder.                                                *)

(* A call that starts, whether or not its half message reaches the listener. *)
LEMMA StartStep ==
    ASSUME Core, TypeOK', LedgerKept, NEW c \in Calls, Alone(c), pc[c] = "idle",
           UNCHANGED <<orderinfo, unsold>>,
           pc'[c] \in {"cart", "done", "end"},
           verdict'[c] \in {verdict[c], "rollback"},
           pc'[c] = "cart" => verdict'[c] = verdict[c]
    PROVE  Core'
<1>1. orderinfo'[c] = None /\ verdict[c] = None
  BY DEF Core, CallShape
<1>2. ~Ordering(c)' /\ ~Claims(c)'
  BY <1>1, NoValue DEF Claims, Ordering, Sold
<1> QED
  BY <1>1, <1>2, MoveStep DEF Sold

LEMMA CreateOrderStep ==
    ASSUME Core, NEW c \in Calls, NEW u \in Users, NEW o \in Orders, CreateOrder(c, u, o)
    PROVE  Core'
<1> USE DEF CreateOrder, Advance
<1>1. TypeOK'
  BY NoValue DEF Core, TypeOK, ledger, States
<1>2. /\ Alone(c)
      /\ pc'[c] \in {"cart", "done", "end"}
      /\ verdict'[c] \in {verdict[c], "rollback"}
      /\ pc'[c] = "cart" => verdict'[c] = verdict[c]
  BY DEF Core, TypeOK, Alone
<1>3. pc[c] = "idle" /\ UNCHANGED <<orderinfo, unsold>> /\ LedgerKept
  BY SameKeeps DEF Core
<1> QED
  BY <1>1, <1>2, <1>3, StartStep

LEMMA CreateOrderFailsStep ==
    ASSUME Core, NEW c \in Calls, NEW u \in Users, NEW o \in Orders, CreateOrderFails(c, u, o)
    PROVE  Core'
<1> USE DEF CreateOrderFails
<1>0. PICK stored \in BOOLEAN : half' = [half EXCEPT ![c] = stored]
  OBVIOUS
<1>1. TypeOK'
  BY <1>0, NoValue DEF Core, TypeOK, ledger, States
<1>2. /\ Alone(c)
      /\ pc'[c] \in {"cart", "done", "end"}
      /\ verdict'[c] \in {verdict[c], "rollback"}
      /\ pc'[c] = "cart" => verdict'[c] = verdict[c]
  BY DEF Core, TypeOK, Alone
<1>3. pc[c] = "idle" /\ UNCHANGED <<orderinfo, unsold>> /\ LedgerKept
  BY SameKeeps DEF Core
<1> QED
  BY <1>1, <1>2, <1>3, StartStep

LEMMA CreateOrderUnflushedStep ==
    ASSUME Core, NEW c \in Calls, NEW u \in Users, NEW o \in Orders, CreateOrderUnflushed(c, u, o)
    PROVE  Core'
<1> USE DEF CreateOrderUnflushed, Decide
<1>1. TypeOK'
  BY NoValue DEF Core, TypeOK, ledger, States
<1>2. /\ Alone(c)
      /\ pc'[c] \in {"cart", "done", "end"}
      /\ verdict'[c] \in {verdict[c], "rollback"}
      /\ pc'[c] = "cart" => verdict'[c] = verdict[c]
  BY DEF Core, TypeOK, Alone
<1>3. pc[c] = "idle" /\ UNCHANGED <<orderinfo, unsold>> /\ LedgerKept
  BY SameKeeps DEF Core
<1> QED
  BY <1>1, <1>2, <1>3, StartStep

-----------------------------------------------------------------------------
(* The actions of ExecuteLocalTransaction.                                    *)

Early == {"cart", "goods", "sell"}

(* The listener returns, with an error. *)
LEMMA DecideStep ==
    ASSUME Core, LedgerKept, NEW c \in Calls,
           NEW v \in {"commit", "rollback"}, NEW code \in {"ok", "error"}, Decide(c, v, code),
           pc[c] \in Early \cup Sold, v = "commit" => pc[c] \in Sold,
           delayed' \subseteq Calls,
           UNCHANGED <<cart, request, items, orderinfo, half, rebacks, fired, expired>>
    PROVE  Core'
<1> USE DEF Decide, request
<1>1. TypeOK'
  BY DEF Core, TypeOK, LedgerKept, States, Early, Sold
<1>2. Alone(c)
  BY DEF Core, TypeOK, Alone
<1>3. /\ pc'[c] = "end"
      /\ verdict'[c] = v
      /\ orderinfo'[c] = None
  BY DEF Core, TypeOK, CallShape, Early
<1>4. Claims(c)' => Claims(c)
  BY <1>3 DEF Claims, Ordering, Sold
<1>5. ~Ordering(c)'
  BY <1>3 DEF Ordering, Sold
<1> QED
  BY <1>1, <1>2, <1>3, <1>4, <1>5, MoveStep DEF Sold

(* The listener, or CreateOrder after it, goes on. *)
LEMMA AdvanceStep ==
    ASSUME Core, LedgerKept, NEW c \in Calls, NEW p \in States \ {"idle"}, Advance(c, p),
           pc[c] # "idle",
           p \in Early => pc[c] \in Early,
           p \in Sold => pc[c] \in Sold,
           items' \in [Calls -> ItemLists],
           \A d \in Calls : items'[d] # items[d] => d = c /\ p \in Early,
           half' \in [Calls -> BOOLEAN], delayed' \subseteq Calls, rebacks' \subseteq Message,
           UNCHANGED <<cart, request, orderinfo, fired, expired>>
    PROVE  Core'
<1> USE DEF Advance, request
<1>1. TypeOK'
  BY DEF Core, TypeOK, LedgerKept
<1>2. Alone(c) /\ pc'[c] = p
  BY DEF Core, TypeOK, Alone, Early
<1>3. pc'[c] \in {"idle", "cart", "goods", "sell"} \cup Sold =>
            orderinfo'[c] = None /\ verdict'[c] = None
  BY <1>2 DEF Core, CallShape, Early
<1>4. orderinfo'[c] # None => verdict'[c] = "rollback"
  BY DEF Core, CallShape
<1>5. Ordering(c)' => Ordering(c) /\ items'[c] = items[c]
  BY <1>2, <1>3 DEF Ordering, Sold, Early
<1>6. Claims(c)' => Claims(c)
  BY <1>5 DEF Claims
<1> QED
  BY <1>1, <1>2, <1>3, <1>4, <1>5, <1>6, MoveStep

LEMMA SellOkStep ==
    ASSUME Core, NEW c \in Calls, SellOk(c)
    PROVE  Core'
<1> USE DEF SellOk, Advance, request, Broker
<1>1. sn[c] \in Orders /\ items[c] \in ItemLists
  BY DEF Core, TypeOK
<1>2. /\ LedgerKept
      /\ status[sn[c]] = 0 /\ status'[sn[c]] = 1 /\ detail'[sn[c]] = items[c]
  BY <1>1, SellKeeps DEF Core
<1>3. TypeOK'
  BY <1>2 DEF Core, TypeOK, LedgerKept, States
<1>4. /\ UNCHANGED <<sn, unsold, items, verdict, orderinfo>>
      /\ pc[c] = "sell"
      /\ \A d \in Calls \ {c} : pc'[d] = pc[d]
      /\ pc'[c] = "save"
  BY DEF Core, TypeOK
<1>5. CallShape'
  BY <1>4 DEF Core, CallShape, Sold
<1>6. \A d \in Calls : Claims(d)' => d = c \/ Claims(d)
  BY <1>4 DEF Claims, Ordering
<1>7. \A d \in Calls : Ordering(d)' => d = c \/ Ordering(d)
  BY <1>4 DEF Ordering
<1>8. \A d \in Calls : Claims(d) => sn[d] \in Orders /\ status[sn[d]] # 0 /\ sn[d] # sn[c]
  <2>1. \A d \in Calls : Claims(d) => pc[d] # "idle"
    BY NoValue DEF Core, CallShape, Claims, Ordering, Sold
  <2> QED
    BY <1>2, <2>1 DEF Core, TypeOK, ClaimsDeducted
<1>9. ClaimsDeducted'
  BY <1>2, <1>4, <1>6, <1>8 DEF ClaimsDeducted, LedgerKept
<1>10. ClaimedGoods'
  BY <1>2, <1>4, <1>7, <1>8 DEF Core, ClaimedGoods, LedgerKept, Claims
<1>11. ClaimsExclude'
  BY <1>4, <1>6, <1>8 DEF Core, ClaimsExclude
<1> QED
  BY <1>3, <1>4, <1>5, <1>9, <1>10, <1>11 DEF Core, UnsoldByFault

(* A sale confirmed without its deduction claims nothing. *)
LEMMA SellUncommittedStep ==
    ASSUME Core, NEW c \in Calls, SellUncommitted(c)
    PROVE  Core'
<1> USE DEF SellUncommitted, Advance, Broker
<1>1. TypeOK'
  BY DEF Core, TypeOK, ledger, States
<1>2. /\ UNCHANGED <<ledger, sn, items, verdict, orderinfo>>
      /\ pc[c] = "sell" /\ pc'[c] = "save"
      /\ \A d \in Calls \ {c} : pc'[d] = pc[d]
      /\ unsold' = unsold \cup {c}
  BY DEF Core, TypeOK
<1>3. CallShape' /\ UnsoldByFault'
  BY <1>2 DEF Core, CallShape, Sold, UnsoldByFault
<1>4. \A d \in Calls : /\ Claims(d)' => Claims(d)
                       /\ Ordering(d)' /\ Claims(d)' => Ordering(d)
  BY <1>2 DEF Claims, Ordering
<1>5. ClaimsDeducted' /\ ClaimedGoods' /\ ClaimsExclude'
  BY <1>2, <1>4 DEF Core, ClaimsDeducted, ClaimedGoods, ClaimsExclude, ledger
<1> QED
  BY <1>1, <1>3, <1>5 DEF Core

LEMMA CommitOrderStep ==
    ASSUME Core, NEW c \in Calls, CommitOrder(c)
    PROVE  Core'
<1> USE DEF CommitOrder, Decide, request, Broker
<1>1. TypeOK'
  BY DEF Core, TypeOK, ledger, States, ItemLists
<1>2. LedgerKept
  BY SameKeeps DEF Core
<1>3. Alone(c)
  BY DEF Core, TypeOK, Alone
<1>4. pc'[c] = "end" /\ verdict'[c] = "rollback" /\ UNCHANGED <<sn, items>>
  BY DEF Core, TypeOK
<1>5. Ordering(c) /\ (Claims(c)' => Claims(c)) /\ UNCHANGED unsold
  BY DEF Ordering, Claims, Sold
<1> QED
  BY <1>1, <1>2, <1>3, <1>4, <1>5, MoveStep DEF Sold

-----------------------------------------------------------------------------
(* Every step of a call.                                                      *)

LEMMA ProceedStep ==
    ASSUME Core, NEW c \in Calls, Proceed(c)
    PROVE  Core'
<1> USE DEF Broker
<1>0. /\ UNCHANGED ledger => LedgerKept
      /\ pc[c] # "idle" => sn[c] \in Orders /\ user[c] \in Users
  BY SameKeeps DEF Core, TypeOK
<1> DEFINE Fixed == /\ items \in [Calls -> ItemLists]
                    /\ half \in [Calls -> BOOLEAN]
                    /\ delayed \subseteq Calls
                    /\ rebacks \subseteq Message
<1>t. Fixed
  BY DEF Core, TypeOK
<1>1. CASE ReadCart(c)
  <2>1. cart[user[c]] \in ItemLists
    BY <1>0, <1>1 DEF ReadCart, Core, TypeOK
  <2> QED
    BY <1>0, <1>t, <1>1, <2>1, AdvanceStep DEF ReadCart, Early, Sold, States
<1>2. CASE QueryGoods(c)
  <2>1. Known(items[c]) \in ItemLists
    BY <1>t, KnownLists
  <2> QED
    BY <1>0, <1>t, <1>2, <2>1, AdvanceStep DEF QueryGoods, Early, Sold, States
<1>3. CASE SellOk(c)
  BY <1>3, SellOkStep
<1>4. CASE SellUnanswered(c)
  <2>1. LedgerKept
    BY <1>0, <1>t, <1>4, SellKeeps DEF SellUnanswered, Core
  <2> QED
    BY <1>t, <1>4, <2>1, DecideStep DEF SellUnanswered, Early, Sold
<1>5. CASE CommitOrder(c)
  BY <1>5, CommitOrderStep
<1>6. CASE EndTransaction(c)
  <2>1. rebacks' \subseteq Message
    BY <1>0, <1>t, <1>6 DEF EndTransaction, Message
  <2> QED
    BY <1>0, <1>t, <1>6, <2>1, AdvanceStep DEF EndTransaction, Early, Sold, States
<1>7. CASE SaveOrder(c)
  BY <1>0, <1>t, <1>7, AdvanceStep DEF SaveOrder, Early, Sold, States
<1>8. CASE ClearCart(c)
  BY <1>0, <1>t, <1>8, AdvanceStep DEF ClearCart, Early, Sold, States
<1>9. CASE SendTimeout(c)
  BY <1>0, <1>t, <1>9, AdvanceStep DEF SendTimeout, Early, Sold, States
<1>10. CASE EndTransactionLost(c)
  BY <1>0, <1>t, <1>10, AdvanceStep DEF EndTransactionLost, Early, Sold, States
<1>11. CASE ReadCartEmpty(c)
  BY <1>0, <1>t, <1>11, DecideStep DEF ReadCartEmpty, Early, Sold
<1>12. CASE QueryGoodsFails(c)
  BY <1>0, <1>t, <1>12, DecideStep DEF QueryGoodsFails, Early, Sold
<1>13. CASE SellRefused(c)
  BY <1>0, <1>t, <1>13, DecideStep DEF SellRefused, Early, Sold
<1>14. CASE SaveOrderFails(c)
  BY <1>0, <1>t, <1>14, DecideStep DEF SaveOrderFails, Early, Sold
<1>15. CASE ClearCartFails(c)
  BY <1>0, <1>t, <1>15, DecideStep DEF ClearCartFails, Early, Sold
<1>16. CASE SendTimeoutFails(c)
  BY <1>0, <1>t, <1>16, DecideStep DEF SendTimeoutFails, Early, Sold
<1>17. CASE CommitOrderFails(c)
  BY <1>0, <1>t, <1>17, DecideStep DEF CommitOrderFails, Early, Sold
<1>18. CASE SellUncommitted(c)
  BY <1>18, SellUncommittedStep
<1> QED
  BY <1>1, <1>2, <1>3, <1>4, <1>5, <1>6, <1>7, <1>8, <1>9, <1>10, <1>11, <1>12, <1>13, <1>14,
     <1>15, <1>16, <1>17, <1>18
  DEF Proceed

(* The steps of the broker's timers, of the consumers and of the carts. *)
LEMMA AroundStep ==
    ASSUME Core,
           UNCHANGED <<pc, sn, user, unsold, items, verdict, reply, orderinfo>>,
           LedgerKept,
           cart' \in [Users -> ItemLists],
           half' \in [Calls -> BOOLEAN],
           delayed' \subseteq Calls, rebacks' \subseteq Message,
           fired' \subseteq Orders, expired' \subseteq Orders
    PROVE  Core'
<1>1. TypeOK'
  BY DEF Core, TypeOK, LedgerKept
<1> QED
  BY <1>1, StillStep

LEMMA CrashStep ==
    ASSUME Core, Crash
    PROVE  Core'
<1> USE DEF Crash, request
<1>1. TypeOK'
  <2>1. pc' \in [Calls -> States] /\ \A c \in Calls : pc'[c] = "idle" <=> pc[c] = "idle"
    BY DEF Core, TypeOK, States, Running
  <2>2. reply' \in [Calls -> {None, "ok", "error", "lost"}]
    BY DEF Core, TypeOK
  <2>3. /\ UNCHANGED <<ledger, cart, request, items, verdict, orderinfo, half, delayed, rebacks,
                       fired, expired>>
    OBVIOUS
  <2> HIDE DEF Crash
  <2>4. \A c \in Calls : pc'[c] # "idle" => sn'[c] # None /\ user'[c] # None
    BY <2>1, <2>3 DEF Core, TypeOK
  <2>5. /\ stocks' \in [Goods -> Int]
        /\ status' \in [Orders -> {0, 1, 2}]
        /\ detail' \in [Orders -> ItemLists]
        /\ cart' \in [Users -> ItemLists]
    BY <2>3 DEF Core, TypeOK, ledger
  <2> QED
    BY <2>1, <2>2, <2>3, <2>4, <2>5 DEF Core, TypeOK
<1>2. LedgerKept
  BY SameKeeps DEF Core
<1>3. UNCHANGED <<ledger, sn, unsold, items, verdict, orderinfo>>
  OBVIOUS
<1>4. \A c \in Calls : pc'[c] \in {"done", pc[c]}
  BY DEF Core, TypeOK
<1>5. CallShape'
  BY <1>3, <1>4 DEF Core, CallShape, Sold
<1>6. \A c \in Calls : (Claims(c)' => Claims(c)) /\ (Ordering(c)' => Ordering(c))
  BY <1>3, <1>4 DEF Claims, Ordering, Sold
<1> QED
  BY <1>1, <1>3, <1>5, <1>6 DEF Core, UnsoldByFault, ClaimsDeducted, ClaimedGoods, ClaimsExclude,
     ledger

LEMMA CheckStep ==
    ASSUME IInv, NEW c \in Calls,
           \/ CheckLocalTransaction(c)
           \/ CheckLocalTransactionFails(c)
           \/ DiscardHalf(c)
    PROVE  Core'
<1> USE DEF request
<1>1. sn[c] \in Orders
  <2>1. half[c]
    BY DEF CheckLocalTransaction, CheckLocalTransactionFails, DiscardHalf
  <2> QED
    BY <2>1 DEF IInv, Core, TypeOK, SentByCalls
<1>2. UNCHANGED <<ledger, cart, pc, request, items, verdict, reply, orderinfo, delayed, expired>>
  BY DEF CheckLocalTransaction, CheckLocalTransactionFails, DiscardHalf
<1>3. half' = [half EXCEPT ![c] = FALSE] /\ fired' = fired \cup {sn[c]}
  BY DEF CheckLocalTransaction, CheckLocalTransactionFails, DiscardHalf
<1>4. rebacks' \in {rebacks, rebacks \cup {[sn |-> sn[c], by |-> "listener"]}}
  BY DEF CheckLocalTransaction, CheckLocalTransactionFails, DiscardHalf
<1>5. rebacks' \subseteq Message
  <2>1. [sn |-> sn[c], by |-> "listener"] \in Message
    BY <1>1 DEF Message
  <2>2. rebacks \subseteq Message
    BY DEF IInv, Core, TypeOK
  <2> QED
    BY <1>4, <2>1, <2>2
<1>6. /\ half' \in [Calls -> BOOLEAN] /\ fired' \subseteq Orders
      /\ cart' \in [Users -> ItemLists]
      /\ delayed' \subseteq Calls /\ expired' \subseteq Orders
  BY <1>1, <1>2, <1>3 DEF IInv, Core, TypeOK
<1> QED
  BY <1>2, <1>5, <1>6, SameKeeps, AroundStep DEF IInv, Core

LEMMA TimeoutStep ==
    ASSUME IInv, NEW c \in Calls, NEW d \in Calls,
           TimeoutNoOrder(c) \/ TimeoutClose(c, d) \/ TimeoutSendFails(c, d)
    PROVE  Core'
<1> USE DEF request
<1>1. sn[c] \in Orders
  <2>1. c \in delayed
    BY DEF TimeoutNoOrder, TimeoutClose, TimeoutSendFails
  <2> QED
    BY <2>1 DEF IInv, Core, TypeOK, SentByCalls
<1>2. UNCHANGED <<ledger, cart, pc, request, items, verdict, reply, orderinfo, half>>
  BY DEF TimeoutNoOrder, TimeoutClose, TimeoutSendFails
<1>3. /\ delayed' \in {delayed, delayed \ {c}}
      /\ fired' = fired \cup {sn[c]}
      /\ expired' \in {expired, expired \cup {sn[c]}}
      /\ rebacks' \in {rebacks, rebacks \cup {[sn |-> sn[c], by |-> "timeout"]}}
  BY DEF TimeoutNoOrder, TimeoutClose, TimeoutSendFails
<1>4. rebacks' \subseteq Message
  <2>1. [sn |-> sn[c], by |-> "timeout"] \in Message
    BY <1>1 DEF Message
  <2>2. rebacks \subseteq Message
    BY DEF IInv, Core, TypeOK
  <2> QED
    BY <1>3, <2>1, <2>2
<1>5. /\ delayed' \subseteq Calls
      /\ fired' \subseteq Orders /\ expired' \subseteq Orders
      /\ half' \in [Calls -> BOOLEAN]
      /\ cart' \in [Users -> ItemLists]
  BY <1>1, <1>2, <1>3 DEF IInv, Core, TypeOK
<1> QED
  BY <1>2, <1>4, <1>5, SameKeeps, AroundStep DEF IInv, Core

LEMMA RebackStep ==
    ASSUME IInv, NEW m \in rebacks, RebackReturn(m) \/ RebackNothing(m)
    PROVE  Core'
<1> USE DEF request
<1>1. m \in Message /\ m.sn \in Orders
  BY DEF IInv, Core, TypeOK, Message
<1>2. LedgerKept
  BY <1>1, ReturnKeeps, SameKeeps DEF IInv, Core, RebackReturn, RebackNothing
<1>3. UNCHANGED <<cart, pc, request, items, verdict, reply, orderinfo, half, delayed,
                  fired, expired>>
  BY DEF RebackReturn, RebackNothing
<1>4. rebacks' \subseteq rebacks
  BY DEF RebackReturn, RebackNothing
<1>5. /\ cart' \in [Users -> ItemLists] /\ half' \in [Calls -> BOOLEAN]
      /\ delayed' \subseteq Calls /\ rebacks' \subseteq Message
      /\ fired' \subseteq Orders /\ expired' \subseteq Orders
  BY <1>3, <1>4 DEF IInv, Core, TypeOK
<1> QED
  BY <1>2, <1>3, <1>5, AroundStep DEF IInv

LEMMA ChangeCartStep ==
    ASSUME IInv, NEW u \in Users, NEW r \in ItemLists, ChangeCart(u, r)
    PROVE  Core'
<1> USE DEF request, Broker
<1>1. UNCHANGED <<ledger, pc, request, items, verdict, reply, orderinfo, Broker>>
  BY DEF ChangeCart
<1>2. /\ cart' \in [Users -> ItemLists] /\ half' \in [Calls -> BOOLEAN]
      /\ delayed' \subseteq Calls /\ rebacks' \subseteq Message
      /\ fired' \subseteq Orders /\ expired' \subseteq Orders
  BY <1>1 DEF ChangeCart, IInv, Core, TypeOK
<1> QED
  BY <1>1, <1>2, SameKeeps, AroundStep DEF IInv, Core

-----------------------------------------------------------------------------
(* Messages on their way.                                                     *)

LEMMA SentStep ==
    ASSUME IInv, [Next]_vars
    PROVE  SentByCalls'
<1> USE DEF IInv, Core, TypeOK, SentByCalls
<1>1. CASE UNCHANGED vars
  BY <1>1 DEF vars
<1>2. CASE \E c \in Calls, u \in Users, o \in Orders :
              CreateOrder(c, u, o) \/ CreateOrderFails(c, u, o) \/ CreateOrderUnflushed(c, u, o)
  <2>1. PICK c \in Calls, u \in Users, o \in Orders :
            CreateOrder(c, u, o) \/ CreateOrderFails(c, u, o) \/ CreateOrderUnflushed(c, u, o)
    BY <1>2
  <2>2. /\ pc'[c] # "idle"
        /\ \A d \in Calls \ {c} : pc'[d] = pc[d] /\ half'[d] = half[d]
        /\ delayed' = delayed
    BY <2>1 DEF CreateOrder, CreateOrderFails, CreateOrderUnflushed, Advance, Decide
  <2> QED
    BY <2>2
<1>3. CASE \E c \in Calls : Proceed(c)
  <2>1. PICK c \in Calls : Proceed(c)
    BY <1>3
  <2>2. pc[c] # "idle" /\ pc'[c] # "idle" /\ \A d \in Calls \ {c} : pc'[d] = pc[d]
    BY <2>1 DEF Proceed, Advance, Decide, ReadCart, ReadCartEmpty, QueryGoods, QueryGoodsFails,
       SellOk, SellUncommitted, SellRefused, SellUnanswered, SaveOrder, SaveOrderFails,
       ClearCart, ClearCartFails, SendTimeout, SendTimeoutFails, CommitOrder, CommitOrderFails,
       EndTransaction, EndTransactionLost
  <2>3. /\ \A d \in Calls : half'[d] => half[d]
        /\ delayed' \subseteq delayed \cup {c}
    BY <2>1 DEF Proceed, Broker, Advance, Decide, ReadCart, ReadCartEmpty, QueryGoods,
       QueryGoodsFails, SellOk, SellUncommitted, SellRefused, SellUnanswered, SaveOrder,
       SaveOrderFails, ClearCart, ClearCartFails, SendTimeout, SendTimeoutFails, CommitOrder,
       CommitOrderFails, EndTransaction, EndTransactionLost
  <2> QED
    BY <2>2, <2>3
<1>4. CASE \E c \in Calls :
              CheckLocalTransaction(c) \/ CheckLocalTransactionFails(c) \/ DiscardHalf(c)
  BY <1>4 DEF CheckLocalTransaction, CheckLocalTransactionFails, DiscardHalf
<1>5. CASE \E c, d \in Calls : TimeoutNoOrder(c) \/ TimeoutClose(c, d) \/ TimeoutSendFails(c, d)
  BY <1>5 DEF TimeoutNoOrder, TimeoutClose, TimeoutSendFails
<1>6. CASE \E m \in rebacks : RebackReturn(m) \/ RebackNothing(m)
  BY <1>6 DEF RebackReturn, RebackNothing
<1>7. CASE \E u \in Users, r \in Requests \cup {<<>>} : ChangeCart(u, r)
  BY <1>7 DEF ChangeCart, Broker
<1>8. CASE Crash
  <2>1. \A c \in Calls : pc'[c] \in {"done", pc[c]}
    BY <1>8 DEF Crash
  <2> QED
    BY <1>8, <2>1 DEF Crash
<1> QED
  BY <1>1, <1>2, <1>3, <1>4, <1>5, <1>6, <1>7, <1>8 DEF Next

-----------------------------------------------------------------------------
(* The invariant.                                                             *)

LEMMA NextStep ==
    ASSUME IInv, [Next]_vars
    PROVE  IInv'
<1>1. CASE UNCHANGED vars
  <2>1. Core'
    BY <1>1 DEF vars, ledger, request, IInv, Core, TypeOK, CallShape, UnsoldByFault, ClaimsDeducted,
       ClaimedGoods, ClaimsExclude, Claims, Ordering
  <2> QED
    BY <2>1, SentStep DEF IInv
<1>2. CASE Next
  <2>1. CASE \E c \in Calls, u \in Users, o \in Orders :
                CreateOrder(c, u, o) \/ CreateOrderFails(c, u, o) \/ CreateOrderUnflushed(c, u, o)
    BY <2>1, CreateOrderStep, CreateOrderFailsStep, CreateOrderUnflushedStep, SentStep DEF IInv
  <2>2. CASE \E c \in Calls : Proceed(c)
    BY <2>2, ProceedStep, SentStep DEF IInv
  <2>3. CASE \E c \in Calls :
                CheckLocalTransaction(c) \/ CheckLocalTransactionFails(c) \/ DiscardHalf(c)
    BY <2>3, CheckStep, SentStep DEF IInv
  <2>4. CASE \E c, d \in Calls : TimeoutNoOrder(c) \/ TimeoutClose(c, d) \/ TimeoutSendFails(c, d)
    BY <2>4, TimeoutStep, SentStep DEF IInv
  <2>5. CASE \E m \in rebacks : RebackReturn(m) \/ RebackNothing(m)
    BY <2>5, RebackStep, SentStep DEF IInv
  <2>6. CASE \E u \in Users, r \in Requests \cup {<<>>} : ChangeCart(u, r)
    BY <2>6, ChangeCartStep, SentStep DEF IInv, ItemLists
  <2>7. CASE Crash
    BY <2>7, CrashStep, SentStep DEF IInv
  <2> QED
    BY <1>2, <2>1, <2>2, <2>3, <2>4, <2>5, <2>6, <2>7 DEF Next
<1> QED
  BY <1>1, <1>2

LEMMA InitIInv == Init => IInv
<1>1. Init => SentByCalls
  BY DEF Init, SentByCalls
<1> QED
  BY <1>1, InitCore DEF IInv

THEOREM Invariant == Spec => []IInv
<1>1. Init => IInv
  BY InitIInv
<1>2. IInv /\ [Next]_vars => IInv'
  BY NextStep
<1> QED
  BY <1>1, <1>2, PTL DEF Spec

(* Every variable of Checkout keeps its type. *)
THEOREM TypeCorrect == Spec => []TypeOK
<1>1. IInv => TypeOK
  BY DEF IInv, Core
<1> QED
  BY <1>1, Invariant, PTL

(* Whatever fails, the goods of a saved order were deducted (rockermq.go:91   *)
(* before 107), exactly as the order lists them, but for an order whose Sell  *)
(* was confirmed though its commit had failed (inventory.go:85): no other     *)
(* failure, no reused number and no other call makes one more exception.      *)
THEOREM SavedOrdersAreDeducted == Spec => []OrderWasDeducted
<1>1. IInv => OrderWasDeducted
  BY DEF IInv, Core, ClaimsDeducted, ClaimedGoods, Claims, Ordering, OrderWasDeducted
<1> QED
  BY <1>1, Invariant, PTL

(* No two saved orders share an order number, though orderinfo has no unique  *)
(* index and GenerateOrderSn can repeat itself, unless one of them is an      *)
(* order whose Sell was confirmed though its commit had failed.               *)
THEOREM NumbersAreUnique == Spec => []OneOrderPerNumber
<1>1. IInv => OneOrderPerNumber
  BY DEF IInv, Core, ClaimsExclude, Claims, Ordering, OneOrderPerNumber
<1> QED
  BY <1>1, Invariant, PTL

-----------------------------------------------------------------------------
(* What the client is told.                                                   *)

LEMMA ReplyStep ==
    ASSUME IInv, ReplyMatchesOrder, "commit" \notin Faults, "flush" \notin Faults, [Next]_vars
    PROVE  ReplyMatchesOrder'
<1> USE DEF ReplyMatchesOrder
<1>1. CASE UNCHANGED <<reply, orderinfo>>
  BY <1>1
<1>2. CASE \E c \in Calls :
              /\ \A d \in Calls \ {c} : reply'[d] = reply[d] /\ orderinfo'[d] = orderinfo[d]
              /\ \/ reply'[c] \in {"error", reply[c]} /\ orderinfo'[c] = orderinfo[c] /\ orderinfo[c] = None
                 \/ reply'[c] = "ok" /\ orderinfo'[c] # None
  BY <1>2, NoValue
<1>3. ASSUME NEW c \in Calls, NEW v \in {"commit", "rollback"}, Decide(c, v, "error"),
             UNCHANGED orderinfo, pc[c] \in Early \cup Sold
      PROVE  ReplyMatchesOrder'
  BY <1>2, <1>3 DEF Decide, IInv, Core, TypeOK, CallShape, Early
<1>4. ASSUME NEW c \in Calls, Proceed(c)
      PROVE  ReplyMatchesOrder'
  <2>1. CASE \/ ReadCart(c) \/ QueryGoods(c) \/ SellOk(c) \/ SellUncommitted(c) \/ SaveOrder(c)
             \/ ClearCart(c) \/ SendTimeout(c) \/ EndTransaction(c) \/ EndTransactionLost(c)
    BY <2>1, <1>1 DEF ReadCart, QueryGoods, SellOk, SellUncommitted, SaveOrder, ClearCart,
       SendTimeout, EndTransaction, EndTransactionLost, Advance
  <2>2. CASE \/ ReadCartEmpty(c) \/ QueryGoodsFails(c) \/ SellRefused(c) \/ SellUnanswered(c)
             \/ SaveOrderFails(c) \/ ClearCartFails(c) \/ SendTimeoutFails(c)
    BY <2>2, <1>3 DEF ReadCartEmpty, QueryGoodsFails, SellRefused, SellUnanswered,
       SaveOrderFails, ClearCartFails, SendTimeoutFails, Early, Sold
  <2>3. CASE CommitOrder(c)
    BY <2>3, <1>2, NoValue DEF CommitOrder, Decide, IInv, Core, TypeOK
  <2> QED
    BY <1>4, <2>1, <2>2, <2>3 DEF Proceed, CommitOrderFails
<1>5. CASE \E c \in Calls, u \in Users, o \in Orders :
              CreateOrder(c, u, o) \/ CreateOrderFails(c, u, o) \/ CreateOrderUnflushed(c, u, o)
  <2>1. PICK c \in Calls, u \in Users, o \in Orders :
            CreateOrder(c, u, o) \/ CreateOrderFails(c, u, o) \/ CreateOrderUnflushed(c, u, o)
    BY <1>5
  <2>2. orderinfo[c] = None /\ UNCHANGED orderinfo
    BY <2>1 DEF CreateOrder, CreateOrderFails, CreateOrderUnflushed, IInv, Core, CallShape
  <2>3. reply' = reply \/ reply' = [reply EXCEPT ![c] = "error"]
    BY <2>1 DEF CreateOrder, CreateOrderFails, CreateOrderUnflushed, Advance
  <2> QED
    BY <2>2, <2>3, <1>2 DEF IInv, Core, TypeOK
<1>6. CASE Crash
  <2>1. \A c \in Calls : reply'[c] \in {"lost", reply[c]}
    BY <1>6 DEF Crash
  <2>2. UNCHANGED orderinfo
    BY <1>6 DEF Crash
  <2> QED
    BY <2>1, <2>2
<1>7. CASE UNCHANGED vars
  BY <1>7, <1>1 DEF vars
<1>8. CASE \/ \E c \in Calls :
                CheckLocalTransaction(c) \/ CheckLocalTransactionFails(c) \/ DiscardHalf(c)
           \/ \E c, d \in Calls : TimeoutNoOrder(c) \/ TimeoutClose(c, d) \/ TimeoutSendFails(c, d)
           \/ \E m \in rebacks : RebackReturn(m) \/ RebackNothing(m)
           \/ \E u \in Users, r \in Requests \cup {<<>>} : ChangeCart(u, r)
  BY <1>8, <1>1 DEF CheckLocalTransaction, CheckLocalTransactionFails, DiscardHalf,
     TimeoutNoOrder, TimeoutClose, TimeoutSendFails, RebackReturn, RebackNothing, ChangeCart
<1> QED
  BY <1>4, <1>5, <1>6, <1>7, <1>8 DEF Next

(* When no commit fails and the listener is always called, CreateOrder says   *)
(* OK exactly for the orders that are saved (rockermq.go:28-177,              *)
(* order.go:124-131), whatever else fails.                                    *)
THEOREM RepliesAreTrue ==
    ASSUME "commit" \notin Faults, "flush" \notin Faults
    PROVE  Spec => []ReplyMatchesOrder
<1>1. Init => ReplyMatchesOrder
  BY NoValue DEF Init, ReplyMatchesOrder
<1>2. IInv /\ ReplyMatchesOrder /\ [Next]_vars => ReplyMatchesOrder'
  BY ReplyStep
<1> QED
  BY <1>1, <1>2, Invariant, PTL DEF Spec

(* One call's reply changes, and not to an error beside an order.             *)
LEMMA ErrorStep ==
    ASSUME IInv, ErrorMeansNoOrder, [Next]_vars
    PROVE  ErrorMeansNoOrder'
<1> USE DEF ErrorMeansNoOrder
<1>1. CASE UNCHANGED <<reply, orderinfo>>
  BY <1>1
<1>2. CASE \E c \in Calls :
              /\ \A d \in Calls \ {c} : reply'[d] = reply[d] /\ orderinfo'[d] = orderinfo[d]
              /\ reply'[c] = "error" => orderinfo'[c] = None
  BY <1>2
<1>3. ASSUME NEW c \in Calls, NEW v \in {"commit", "rollback"}, NEW code \in {"ok", "error"},
             Decide(c, v, code), UNCHANGED orderinfo, pc[c] \in {"idle"} \cup Early \cup Sold
      PROVE  ErrorMeansNoOrder'
  <2>1. orderinfo'[c] = None
    BY <1>3 DEF IInv, Core, CallShape, Early
  <2>2. \A d \in Calls \ {c} : reply'[d] = reply[d] /\ orderinfo'[d] = orderinfo[d]
    BY <1>3 DEF Decide, IInv, Core, TypeOK
  <2> QED
    BY <2>1, <2>2, <1>2
<1>4. ASSUME NEW c \in Calls, Proceed(c)
      PROVE  ErrorMeansNoOrder'
  <2>1. CASE \/ ReadCart(c) \/ QueryGoods(c) \/ SellOk(c) \/ SellUncommitted(c) \/ SaveOrder(c)
             \/ ClearCart(c) \/ SendTimeout(c) \/ EndTransaction(c) \/ EndTransactionLost(c)
    BY <2>1, <1>1 DEF ReadCart, QueryGoods, SellOk, SellUncommitted, SaveOrder, ClearCart,
       SendTimeout, EndTransaction, EndTransactionLost, Advance
  <2>2. CASE \/ ReadCartEmpty(c) \/ QueryGoodsFails(c) \/ SellRefused(c) \/ SellUnanswered(c)
             \/ SaveOrderFails(c) \/ ClearCartFails(c) \/ SendTimeoutFails(c)
             \/ CommitOrderFails(c)
    BY <2>2, <1>3 DEF ReadCartEmpty, QueryGoodsFails, SellRefused, SellUnanswered,
       SaveOrderFails, ClearCartFails, SendTimeoutFails, CommitOrderFails, Early, Sold
  <2>3. CASE CommitOrder(c)
    BY <2>3, <1>2 DEF CommitOrder, Decide, IInv, Core, TypeOK
  <2> QED
    BY <1>4, <2>1, <2>2, <2>3 DEF Proceed
<1>5. CASE \E c \in Calls, u \in Users, o \in Orders :
              CreateOrder(c, u, o) \/ CreateOrderFails(c, u, o) \/ CreateOrderUnflushed(c, u, o)
  <2>1. PICK c \in Calls, u \in Users, o \in Orders :
            CreateOrder(c, u, o) \/ CreateOrderFails(c, u, o) \/ CreateOrderUnflushed(c, u, o)
    BY <1>5
  <2>2. orderinfo[c] = None /\ UNCHANGED orderinfo
    BY <2>1 DEF CreateOrder, CreateOrderFails, CreateOrderUnflushed, IInv, Core, CallShape
  <2>3. \A d \in Calls \ {c} : reply'[d] = reply[d]
    BY <2>1 DEF CreateOrder, CreateOrderFails, CreateOrderUnflushed, Advance, Decide,
       IInv, Core, TypeOK
  <2> QED
    BY <2>2, <2>3, <1>2
<1>6. CASE Crash
  <2>1. \A c \in Calls : reply'[c] \in {"lost", reply[c]}
    BY <1>6 DEF Crash
  <2>2. UNCHANGED orderinfo
    BY <1>6 DEF Crash
  <2> QED
    BY <2>1, <2>2
<1>7. CASE UNCHANGED vars
  BY <1>7, <1>1 DEF vars
<1>8. CASE \/ \E c \in Calls :
                CheckLocalTransaction(c) \/ CheckLocalTransactionFails(c) \/ DiscardHalf(c)
           \/ \E c, d \in Calls : TimeoutNoOrder(c) \/ TimeoutClose(c, d) \/ TimeoutSendFails(c, d)
           \/ \E m \in rebacks : RebackReturn(m) \/ RebackNothing(m)
           \/ \E u \in Users, r \in Requests \cup {<<>>} : ChangeCart(u, r)
  BY <1>8, <1>1 DEF CheckLocalTransaction, CheckLocalTransactionFails, DiscardHalf,
     TimeoutNoOrder, TimeoutClose, TimeoutSendFails, RebackReturn, RebackNothing, ChangeCart
<1> QED
  BY <1>4, <1>5, <1>6, <1>7, <1>8 DEF Next

(* Whatever fails, the call that is answered with an error has saved no order *)
(* and never will (rockermq.go rolls back before each such return).           *)
THEOREM ErrorsLeaveNoOrder == Spec => []ErrorMeansNoOrder
<1>1. Init => ErrorMeansNoOrder
  BY NoValue DEF Init, ErrorMeansNoOrder
<1>2. IInv /\ ErrorMeansNoOrder /\ [Next]_vars => ErrorMeansNoOrder'
  BY ErrorStep
<1> QED
  BY <1>1, <1>2, Invariant, PTL DEF Spec

-----------------------------------------------------------------------------
(* Orders keep their stock, when no commit of Sell and no check of the broker *)
(* fails and no call outlasts a timer.                                        *)

(* No call with this number has an order, is about to have one, or can still  *)
(* come to deduct the number's goods.                                         *)
Dead(o) ==
    /\ \A c \in Calls : sn[c] = o =>
            /\ ~Ordering(c)
            /\ status[o] = 0 => pc[c] \notin Running
    /\ status[o] = 0 => o \in fired

(* A message that asks for the stock of a number that has not timed out is    *)
(* about a dead number.                                                       *)
MessagesAreOfDead == \A m \in rebacks : m.sn \notin expired => Dead(m.sn)

OrderingHolds == \A c \in Calls : Ordering(c) /\ sn[c] \notin expired => status[sn[c]] = 1

(* What a step may do to the parts of the state that deadness is about.       *)
CallMoves(c) ==
    /\ \/ pc[c] = "idle" /\ Fresh(sn'[c]) /\ ~Ordering(c)'
       \/ sn'[c] = sn[c] /\ (pc'[c] \in Running => pc[c] \in Running)
    /\ Ordering(c)' /\ ~Ordering(c) =>
            pc[c] = "sell" /\ status[sn[c]] = 0 /\ status'[sn[c]] = 1
CallsMove == \A c \in Calls : CallMoves(c)
StatusMoves ==
    \A o \in Orders :
        \/ status'[o] = status[o]
        \/ status[o] = 0 /\ status'[o] = 1 /\ \E c \in Calls : pc[c] = "sell" /\ sn[c] = o
        \/ status[o] = 1 /\ status'[o] = 2 /\ \E m \in rebacks : m.sn = o
MessagesAppear ==
    \A m \in rebacks' :
        \/ m \in rebacks
        \/ m.sn \in expired'
        \/ ~HasOrder(m.sn) /\ Due(m.sn) /\ m.sn \in fired' /\ UNCHANGED <<pc, sn, status, orderinfo>>
        \/ \E c \in Calls : /\ pc[c] = "end" /\ verdict[c] = "commit" /\ sn[c] = m.sn
                            /\ pc' = [pc EXCEPT ![c] = "done"]
                            /\ UNCHANGED <<sn, status, orderinfo>>
StepFacts ==
    /\ fired \subseteq fired' /\ expired \subseteq expired'
    /\ CallsMove
    /\ StatusMoves
    /\ MessagesAppear

LEMMA StartFacts ==
    ASSUME IInv, NEW c \in Calls, NEW u \in Users, NEW o \in Orders,
           CreateOrder(c, u, o) \/ CreateOrderFails(c, u, o) \/ CreateOrderUnflushed(c, u, o)
    PROVE  StepFacts
<1>1. /\ pc[c] = "idle" /\ Fresh(o)
      /\ sn' = [sn EXCEPT ![c] = o]
      /\ UNCHANGED <<ledger, orderinfo, rebacks, fired, expired>>
  BY DEF CreateOrder, CreateOrderFails, CreateOrderUnflushed
<1>2. /\ pc'[c] \in {"cart", "done", "end"}
      /\ \A d \in Calls \ {c} : pc'[d] = pc[d]
  BY DEF CreateOrder, CreateOrderFails, CreateOrderUnflushed, Advance, Decide, IInv, Core, TypeOK
<1>3. orderinfo[c] = None
  BY <1>1 DEF IInv, Core, CallShape
<1>4. CallsMove
  <2>1. \A d \in Calls \ {c} : Ordering(d)' => Ordering(d)
    BY <1>1, <1>2 DEF Ordering
  <2>2. ~Ordering(c)'
    BY <1>1, <1>2, <1>3 DEF Ordering, Sold
  <2>3. sn'[c] = o /\ \A d \in Calls \ {c} : sn'[d] = sn[d]
    BY <1>1 DEF IInv, Core, TypeOK
  <2> QED
    BY <1>1, <1>2, <2>1, <2>2, <2>3 DEF CallsMove, CallMoves, Running
<1>5. StatusMoves /\ MessagesAppear
  BY <1>1 DEF StatusMoves, MessagesAppear, ledger
<1> QED
  BY <1>1, <1>4, <1>5 DEF StepFacts

(* A call's own step, but for the two that add a message or sell. *)
LEMMA OwnFacts ==
    ASSUME IInv, NEW c \in Calls,
           pc[c] \in Running,
           \A d \in Calls \ {c} : pc'[d] = pc[d] /\ orderinfo'[d] = orderinfo[d],
           Ordering(c)' /\ ~Ordering(c) =>
                pc[c] = "sell" /\ status[sn[c]] = 0 /\ status'[sn[c]] = 1,
           UNCHANGED <<sn, fired, expired>>,
           StatusMoves,
           MessagesAppear
    PROVE  StepFacts
<1>1. \A d \in Calls \ {c} : Ordering(d)' => Ordering(d)
  BY DEF Ordering
<1>2. CallsMove
  <2> SUFFICES ASSUME NEW d \in Calls
               PROVE  CallMoves(d)
    BY DEF CallsMove
  <2>1. CASE d = c
    BY <2>1 DEF CallMoves
  <2>2. CASE d # c
    BY <1>1, <2>2 DEF CallMoves
  <2> QED
    BY <2>1, <2>2
<1> QED
  BY <1>2 DEF StepFacts

LEMMA ProceedFacts ==
    ASSUME IInv, "sellcommit" \notin Faults, NEW c \in Calls, Proceed(c)
    PROVE  StepFacts
<1> USE DEF Broker
<1>1. /\ sn[c] \in Orders /\ items[c] \in ItemLists
      /\ pc[c] \in Running /\ pc[c] # "idle"
      /\ UNCHANGED <<sn, fired, expired>>
  <2>1. pc[c] \in Running
    BY DEF Proceed, ReadCart, ReadCartEmpty, QueryGoods, QueryGoodsFails, SellOk,
       SellUncommitted, SellRefused, SellUnanswered, SaveOrder, SaveOrderFails, ClearCart,
       ClearCartFails, SendTimeout, SendTimeoutFails, CommitOrder, CommitOrderFails,
       EndTransaction, EndTransactionLost, Running
  <2>2. UNCHANGED <<sn, fired, expired>>
    BY DEF Proceed, ReadCart, ReadCartEmpty, QueryGoods, QueryGoodsFails, SellOk,
       SellUncommitted, SellRefused, SellUnanswered, SaveOrder, SaveOrderFails, ClearCart,
       ClearCartFails, SendTimeout, SendTimeoutFails, CommitOrder, CommitOrderFails,
       EndTransaction, EndTransactionLost, request
  <2> QED
    BY <2>1, <2>2 DEF IInv, Core, TypeOK, Running
<1>2. \A d \in Calls \ {c} : pc'[d] = pc[d] /\ orderinfo'[d] = orderinfo[d]
  <2>0. pc \in [Calls -> States] /\ orderinfo \in [Calls -> {None, "", "TRADE_CLOSED"}]
    BY DEF IInv, Core, TypeOK
  <2>1. \A d \in Calls \ {c} : pc'[d] = pc[d]
    BY <2>0 DEF Proceed, ReadCart, ReadCartEmpty, QueryGoods, QueryGoodsFails, SellOk,
       SellUncommitted, SellRefused, SellUnanswered, SaveOrder, SaveOrderFails, ClearCart,
       ClearCartFails, SendTimeout, SendTimeoutFails, CommitOrder, CommitOrderFails,
       EndTransaction, EndTransactionLost, Advance, Decide
  <2>2. orderinfo' = orderinfo \/ orderinfo' = [orderinfo EXCEPT ![c] = ""]
    BY DEF Proceed, ReadCart, ReadCartEmpty, QueryGoods, QueryGoodsFails, SellOk,
       SellUncommitted, SellRefused, SellUnanswered, SaveOrder, SaveOrderFails, ClearCart,
       ClearCartFails, SendTimeout, SendTimeoutFails, CommitOrder, CommitOrderFails,
       EndTransaction, EndTransactionLost
  <2> QED
    BY <2>0, <2>1, <2>2
<1>3. UNCHANGED status => StatusMoves
  BY DEF StatusMoves
<1>4. UNCHANGED rebacks => MessagesAppear
  BY DEF MessagesAppear
<1>5. ASSUME Ledger!Sell(sn[c], items[c]), pc[c] = "sell"
      PROVE  StatusMoves /\ status[sn[c]] = 0 /\ status'[sn[c]] = 1
  <2>1. /\ status[sn[c]] = 0 /\ status'[sn[c]] = 1
        /\ \A o \in Orders \ {sn[c]} : status'[o] = status[o]
    BY <1>1, <1>5, SellKeeps DEF IInv, Core
  <2> QED
    BY <1>5, <2>1 DEF StatusMoves
<1>6. CASE SellOk(c)
  <2>1. UNCHANGED rebacks /\ pc[c] = "sell" /\ Ledger!Sell(sn[c], items[c])
    BY <1>6 DEF SellOk
  <2> QED
    BY <1>1, <1>2, <1>4, <1>5, <2>1, OwnFacts
<1>7. CASE SellUnanswered(c)
  <2>1. /\ UNCHANGED <<rebacks, orderinfo>>
        /\ pc[c] = "sell" /\ Ledger!Sell(sn[c], items[c])
        /\ pc'[c] = "end"
    BY <1>7 DEF SellUnanswered, Decide, IInv, Core, TypeOK
  <2> QED
    BY <1>1, <1>2, <1>4, <1>5, <2>1, OwnFacts DEF Ordering, Sold
<1>8. CASE EndTransaction(c)
  <2>1. /\ pc[c] = "end" /\ pc' = [pc EXCEPT ![c] = "done"]
        /\ UNCHANGED <<sn, status, orderinfo>>
        /\ rebacks' # rebacks => /\ verdict[c] = "commit"
                                 /\ rebacks' = rebacks \cup {[sn |-> sn[c], by |-> "listener"]}
    BY <1>8 DEF EndTransaction, Advance, ledger, request
  <2>2. MessagesAppear
    <3> SUFFICES ASSUME NEW m \in rebacks', m \notin rebacks
                 PROVE  /\ pc[c] = "end" /\ verdict[c] = "commit" /\ sn[c] = m.sn
                        /\ pc' = [pc EXCEPT ![c] = "done"]
                        /\ UNCHANGED <<sn, status, orderinfo>>
      BY DEF MessagesAppear
    <3> QED
      BY <2>1
  <2>3. Ordering(c)' => Ordering(c)
    BY <2>1 DEF Ordering, Sold, IInv, Core, TypeOK
  <2> QED
    BY <1>1, <1>2, <1>3, <2>1, <2>2, <2>3, OwnFacts
<1>9. CASE \/ ReadCart(c) \/ ReadCartEmpty(c) \/ QueryGoods(c) \/ QueryGoodsFails(c)
           \/ SellRefused(c) \/ SaveOrder(c) \/ SaveOrderFails(c) \/ ClearCart(c)
           \/ ClearCartFails(c) \/ SendTimeout(c) \/ SendTimeoutFails(c) \/ CommitOrderFails(c)
           \/ EndTransactionLost(c)
  <2>1. UNCHANGED <<status, rebacks, orderinfo>>
    BY <1>9 DEF ReadCart, ReadCartEmpty, QueryGoods, QueryGoodsFails, SellRefused, SaveOrder,
       SaveOrderFails, ClearCart, ClearCartFails, SendTimeout, SendTimeoutFails,
       CommitOrderFails, EndTransactionLost, ledger
  <2>2. pc'[c] \in Sold => pc[c] \in Sold
    BY <1>9 DEF ReadCart, ReadCartEmpty, QueryGoods, QueryGoodsFails, SellRefused, SaveOrder,
       SaveOrderFails, ClearCart, ClearCartFails, SendTimeout, SendTimeoutFails,
       CommitOrderFails, EndTransactionLost, Advance, Decide, Sold, IInv, Core, TypeOK
  <2> QED
    BY <1>1, <1>2, <1>3, <1>4, <2>1, <2>2, OwnFacts DEF Ordering
<1>10. CASE CommitOrder(c)
  <2>1. UNCHANGED <<status, rebacks>> /\ Ordering(c)
    BY <1>10 DEF CommitOrder, ledger, Ordering, Sold
  <2> QED
    BY <1>1, <1>2, <1>3, <1>4, <2>1, OwnFacts
<1> QED
  BY <1>6, <1>7, <1>8, <1>9, <1>10 DEF Proceed, SellUncommitted

(* The steps that leave the calls where they are. *)
LEMMA AroundFacts ==
    ASSUME IInv, UNCHANGED <<pc, sn, orderinfo>>,
           fired \subseteq fired', expired \subseteq expired', StatusMoves, MessagesAppear
    PROVE  StepFacts
<1>1. CallsMove
  BY DEF CallsMove, CallMoves, Ordering
<1> QED
  BY <1>1 DEF StepFacts

LEMMA NextFacts ==
    ASSUME IInv, "sellcommit" \notin Faults, "slow" \notin Faults, "check" \notin Faults,
           [Next]_vars
    PROVE  StepFacts
<1>1. UNCHANGED status => StatusMoves
  BY DEF StatusMoves
<1>2. rebacks' \subseteq rebacks => MessagesAppear
  BY DEF MessagesAppear
<1>3. ASSUME NEW c \in Calls, CheckLocalTransaction(c)
      PROVE  StepFacts
  <2>1. /\ UNCHANGED <<pc, sn, status, orderinfo, expired>>
        /\ Due(sn[c]) /\ fired' = fired \cup {sn[c]}
        /\ rebacks' # rebacks => /\ ~HasOrder(sn[c])
                                 /\ rebacks' = rebacks \cup {[sn |-> sn[c], by |-> "listener"]}
    BY <1>3 DEF CheckLocalTransaction, ledger, request
  <2>2. MessagesAppear
    <3> SUFFICES ASSUME NEW m \in rebacks', m \notin rebacks
                 PROVE  ~HasOrder(m.sn) /\ Due(m.sn) /\ m.sn \in fired'
      BY <2>1 DEF MessagesAppear
    <3>1. m.sn = sn[c] /\ ~HasOrder(sn[c])
      BY <2>1
    <3> QED
      BY <2>1, <3>1
  <2> QED
    BY <1>1, <2>1, <2>2, AroundFacts
<1>4. ASSUME NEW c \in Calls, DiscardHalf(c)
      PROVE  StepFacts
  <2>1. /\ UNCHANGED <<pc, sn, orderinfo, status, rebacks, expired>>
        /\ fired' = fired \cup {sn[c]}
    BY <1>4 DEF DiscardHalf, ledger, request
  <2> QED
    BY <1>1, <1>2, <2>1, AroundFacts
<1>5. ASSUME NEW c \in Calls, NEW d \in Calls,
             TimeoutNoOrder(c) \/ TimeoutClose(c, d) \/ TimeoutSendFails(c, d)
      PROVE  StepFacts
  <2>1. /\ UNCHANGED <<pc, sn, orderinfo, status>>
        /\ fired' = fired \cup {sn[c]}
        /\ expired' \in {expired, expired \cup {sn[c]}}
        /\ rebacks' # rebacks =>
                /\ rebacks' = rebacks \cup {[sn |-> sn[c], by |-> "timeout"]}
                /\ sn[c] \in expired'
    BY <1>5 DEF TimeoutNoOrder, TimeoutClose, TimeoutSendFails, ledger, request
  <2>2. MessagesAppear
    BY <2>1 DEF MessagesAppear
  <2> QED
    BY <1>1, <2>1, <2>2, AroundFacts
<1>6. ASSUME NEW m \in rebacks, RebackReturn(m) \/ RebackNothing(m)
      PROVE  StepFacts
  <2>1. /\ UNCHANGED <<pc, sn, orderinfo, fired, expired>>
        /\ rebacks' \subseteq rebacks
    BY <1>6 DEF RebackReturn, RebackNothing, request
  <2>2. m.sn \in Orders
    BY DEF IInv, Core, TypeOK, Message
  <2>3. StatusMoves
    <3>1. CASE UNCHANGED status
      BY <1>1, <3>1
    <3>2. CASE Ledger!Return(m.sn)
      BY <2>2, <3>2 DEF Ledger!Return, StatusMoves, IInv, Core, TypeOK
    <3> QED
      BY <1>6, <3>1, <3>2 DEF RebackReturn, RebackNothing, ledger
  <2> QED
    BY <1>2, <2>1, <2>3, AroundFacts
<1>7. ASSUME NEW u \in Users, NEW r, ChangeCart(u, r)
      PROVE  StepFacts
  BY <1>1, <1>2, <1>7, AroundFacts DEF ChangeCart, Broker, request, ledger
<1>8. CASE Crash
  <2>1. UNCHANGED <<status, sn, orderinfo, rebacks, fired, expired>>
    BY <1>8 DEF Crash, ledger, request
  <2>2. \A c \in Calls : pc'[c] \in {"done", pc[c]}
    BY <1>8 DEF Crash
  <2>3. CallsMove
    BY <2>1, <2>2 DEF CallsMove, CallMoves, Ordering, Sold, Running
  <2> QED
    BY <1>1, <1>2, <2>1, <2>3 DEF StepFacts
<1>9. CASE UNCHANGED vars
  BY <1>1, <1>2, <1>9, AroundFacts DEF vars, ledger, request
<1>10. ASSUME NEW c \in Calls
       PROVE  ~CheckLocalTransactionFails(c)
  BY DEF CheckLocalTransactionFails
<1> QED
  BY <1>3, <1>4, <1>5, <1>6, <1>7, <1>8, <1>9, <1>10, StartFacts, ProceedFacts DEF Next

-----------------------------------------------------------------------------
(* A number stays dead as long as a message about it is on its way.           *)
LEMMA DeadStays ==
    ASSUME IInv, StepFacts, NEW m \in rebacks, NEW o \in Orders, o = m.sn, Dead(o)
    PROVE  Dead(o)'
<1> USE DEF Running
<1>1. status'[o] = 0 => status[o] = 0
  BY DEF StepFacts, StatusMoves
<1>2. status'[o] = 0 => o \in fired'
  BY <1>1 DEF Dead, StepFacts
<1>3. ASSUME NEW c \in Calls, sn'[c] = o
      PROVE  ~Ordering(c)' /\ (status'[o] = 0 => pc'[c] \notin Running)
  <2>1. CallMoves(c)
    BY DEF StepFacts, CallsMove
  <2>2. CASE sn[c] = o
    <3>1. ~Ordering(c) /\ (status[o] = 0 => pc[c] \notin Running /\ o \in fired)
      BY <2>2 DEF Dead
    <3> QED
      BY <1>3, <2>1, <2>2, <3>1, <1>1 DEF CallMoves, Fresh
  <2>3. CASE sn[c] # o
    BY <1>3, <2>1, <2>3, <1>1 DEF CallMoves, Dead, Fresh
  <2> QED
    BY <2>2, <2>3
<1> QED
  BY <1>2, <1>3 DEF Dead

HInv == IInv /\ MessagesAreOfDead /\ OrderingHolds

LEMMA MessagesStep ==
    ASSUME HInv, "sellcommit" \notin Faults, "slow" \notin Faults, StepFacts, IInv'
    PROVE  MessagesAreOfDead'
<1> SUFFICES ASSUME NEW m \in rebacks', m.sn \notin expired'
             PROVE  Dead(m.sn)'
  BY DEF MessagesAreOfDead
<1>1. m.sn \in Orders
  BY DEF IInv, Core, TypeOK, Message
<1>2. m.sn \notin expired
  BY DEF StepFacts
<1>3. CASE m \in rebacks
  BY <1>1, <1>2, <1>3, DeadStays DEF HInv, MessagesAreOfDead
<1>4. CASE /\ ~HasOrder(m.sn) /\ Due(m.sn) /\ m.sn \in fired'
           /\ UNCHANGED <<pc, sn, status, orderinfo>>
  <2>1. \A c \in Calls : sn[c] = m.sn => pc[c] \notin Running /\ ~Ordering(c)
    BY <1>4 DEF HasOrder, Due, Ordering, Sold, Running
  <2> QED
    BY <1>4, <2>1 DEF Dead, Ordering
<1>5. ASSUME NEW c \in Calls,
             pc[c] = "end", verdict[c] = "commit", sn[c] = m.sn,
             pc' = [pc EXCEPT ![c] = "done"],
             UNCHANGED <<sn, status, orderinfo>>
      PROVE  Dead(m.sn)'
  <2>0. unsold = {}
    BY DEF HInv, IInv, Core, UnsoldByFault
  <2>1. status[m.sn] # 0
    BY <1>5, <2>0 DEF HInv, IInv, Core, ClaimsDeducted, Claims
  <2>2. ~Ordering(c)
    BY <1>5 DEF HInv, IInv, Core, CallShape, Ordering, Sold
  <2>3. \A d \in Calls : sn[d] = m.sn => ~Ordering(d)
    BY <1>5, <2>0, <2>2 DEF HInv, IInv, Core, ClaimsExclude, Claims
  <2>4. \A d \in Calls : Ordering(d)' => Ordering(d)
    BY <1>5 DEF Ordering, Sold, HInv, IInv, Core, TypeOK
  <2> QED
    BY <1>5, <2>1, <2>3, <2>4 DEF Dead
<1> QED
  BY <1>3, <1>4, <1>5 DEF StepFacts, MessagesAppear

LEMMA HoldsStep ==
    ASSUME HInv, StepFacts
    PROVE  OrderingHolds'
<1> SUFFICES ASSUME NEW c \in Calls, Ordering(c)', sn'[c] \notin expired'
             PROVE  status'[sn'[c]] = 1
  BY DEF OrderingHolds
<1>1. CallMoves(c) /\ expired \subseteq expired'
  BY DEF StepFacts, CallsMove
<1>2. sn'[c] = sn[c]
  BY <1>1 DEF CallMoves
<1>3. CASE ~Ordering(c)
  BY <1>1, <1>2, <1>3 DEF CallMoves
<1>4. CASE Ordering(c)
  <2>1. status[sn[c]] = 1
    BY <1>1, <1>2, <1>4 DEF HInv, OrderingHolds
  <2>2. sn[c] \in Orders
    <3>1. pc[c] # "idle"
      BY <1>4 DEF HInv, IInv, Core, CallShape, Ordering, Sold
    <3> QED
      BY <3>1 DEF HInv, IInv, Core, TypeOK
  <2>3. \A m \in rebacks : m.sn # sn[c]
    BY <1>1, <1>2, <1>4 DEF HInv, MessagesAreOfDead, Dead
  <2> QED
    BY <1>2, <2>1, <2>2, <2>3 DEF StepFacts, StatusMoves
<1> QED
  BY <1>3, <1>4

(* When no commit of Sell and no check of the broker fails and no call        *)
(* outlasts a timer, an order that has not timed out keeps its stock,         *)
(* whatever else fails: the rollback of rockermq.go:173-176 protects it from  *)
(* AutoReback.                                                                *)
THEOREM StandingOrdersHoldStock ==
    ASSUME "sellcommit" \notin Faults, "slow" \notin Faults, "check" \notin Faults
    PROVE  Spec => []OrderHoldsStock
<1>1. Init => HInv
  <2>1. Init => MessagesAreOfDead /\ OrderingHolds
    BY DEF Init, MessagesAreOfDead, OrderingHolds, Ordering, Sold
  <2> QED
    BY <2>1, InitIInv DEF HInv
<1>2. HInv /\ [Next]_vars => HInv'
  BY NextStep, NextFacts, MessagesStep, HoldsStep DEF HInv
<1>3. HInv => OrderHoldsStock
  BY DEF HInv, IInv, Core, UnsoldByFault, ClaimedGoods, Claims, OrderingHolds, Ordering,
     OrderHoldsStock
<1> QED
  BY <1>1, <1>2, <1>3, PTL DEF Spec

-----------------------------------------------------------------------------
(* Whatever is deducted has somebody to give it back.                         *)

(* A half message that will give the goods back: its call has failed after    *)
(* the deduction, or has died.                                                *)
HalfAsks(c) ==
    /\ half[c]
    /\ \/ pc[c] = "end" /\ verdict[c] = "commit"
       \/ pc[c] = "done" /\ verdict[c] # "rollback"

Accounts(c)   == Ordering(c) \/ HalfAsks(c)
HasMessage(o) == \E m \in rebacks : m.sn = o

Accounted ==
    \A o \in Orders : status[o] = 1 =>
        (\E c \in Calls : sn[c] = o /\ Accounts(c)) \/ HasMessage(o)

(* The half message of a running call is still there. *)
RunningIsHalf == \A c \in Calls : pc[c] \in Running => half[c]

AInv == IInv /\ RunningIsHalf /\ Accounted

(* What a step may do to those who account for a number. *)
AccountMoves ==
    /\ \A o \in Orders : status'[o] = 1 =>
            status[o] = 1 \/ \E c \in Calls : sn'[c] = o /\ Accounts(c)'
    /\ \A c \in Calls : Accounts(c) =>
            /\ sn'[c] = sn[c]
            /\ HasMessage(sn[c])' \/ \E d \in Calls : sn'[d] = sn[c] /\ Accounts(d)'
    /\ \A m \in rebacks : m \in rebacks' \/ status'[m.sn] # 1

LEMMA AccountedStep ==
    ASSUME Accounted, AccountMoves
    PROVE  Accounted'
<1> SUFFICES ASSUME NEW o \in Orders, status'[o] = 1
             PROVE  (\E c \in Calls : sn'[c] = o /\ Accounts(c)') \/ HasMessage(o)'
  BY DEF Accounted
<1>1. CASE \E c \in Calls : sn'[c] = o /\ Accounts(c)'
  BY <1>1
<1>2. CASE status[o] = 1
  <2>1. CASE HasMessage(o)
    BY <2>1 DEF HasMessage, AccountMoves
  <2>2. CASE \E c \in Calls : sn[c] = o /\ Accounts(c)
    <3>1. PICK c \in Calls : sn[c] = o /\ Accounts(c)
      BY <2>2
    <3>2. sn'[c] = o /\ (HasMessage(sn[c])' => HasMessage(o)')
      BY <3>1 DEF AccountMoves, HasMessage
    <3> QED
      BY <3>1, <3>2 DEF AccountMoves
  <2> QED
    BY <1>2, <2>1, <2>2 DEF Accounted
<1> QED
  BY <1>1, <1>2 DEF AccountMoves

(* A step of call c that neither sells nor touches a message.                 *)
LEMMA QuietMoves ==
    ASSUME IInv, RunningIsHalf, NEW c \in Calls,
           UNCHANGED <<status, rebacks, half>>,
           \A d \in Calls \ {c} : /\ sn'[d] = sn[d] /\ pc'[d] = pc[d]
                                  /\ orderinfo'[d] = orderinfo[d] /\ verdict'[d] = verdict[d],
           Accounts(c) => sn'[c] = sn[c] /\ Accounts(c)',
           pc'[c] \in Running => half[c]
    PROVE  AccountMoves /\ RunningIsHalf'
<1>1. \A d \in Calls \ {c} : Accounts(d) => Accounts(d)'
  BY DEF Accounts, Ordering, HalfAsks
<1>2. AccountMoves
  BY <1>1 DEF AccountMoves
<1> QED
  BY <1>2 DEF RunningIsHalf

LEMMA StartMoves ==
    ASSUME AInv, NEW c \in Calls, NEW u \in Users, NEW o \in Orders,
           CreateOrder(c, u, o) \/ CreateOrderFails(c, u, o) \/ CreateOrderUnflushed(c, u, o)
    PROVE  AccountMoves /\ RunningIsHalf'
<1> USE DEF AInv
<1>1. /\ pc[c] = "idle" /\ sn' = [sn EXCEPT ![c] = o]
      /\ UNCHANGED <<status, orderinfo, rebacks>>
  BY DEF CreateOrder, CreateOrderFails, CreateOrderUnflushed, ledger
<1>2. ~Accounts(c)
  BY <1>1 DEF Accounts, Ordering, HalfAsks, Sold, IInv, Core, CallShape
<1>3. \A d \in Calls \ {c} : /\ sn'[d] = sn[d] /\ pc'[d] = pc[d] /\ half'[d] = half[d]
                             /\ orderinfo'[d] = orderinfo[d] /\ verdict'[d] = verdict[d]
  BY DEF CreateOrder, CreateOrderFails, CreateOrderUnflushed, Advance, Decide, IInv, Core, TypeOK
<1>4. pc'[c] \in Running => half'[c]
  BY DEF CreateOrder, CreateOrderFails, CreateOrderUnflushed, Advance, Decide, Running,
     IInv, Core, TypeOK
<1>5. \A d \in Calls \ {c} : Accounts(d) => Accounts(d)'
  BY <1>3 DEF Accounts, Ordering, HalfAsks
<1>6. AccountMoves
  BY <1>1, <1>2, <1>3, <1>5 DEF AccountMoves
<1> QED
  BY <1>3, <1>4, <1>6 DEF RunningIsHalf

LEMMA ProceedMoves ==
    ASSUME AInv, "rpc" \notin Faults, "commit" \notin Faults, NEW c \in Calls, Proceed(c)
    PROVE  AccountMoves /\ RunningIsHalf'
<1> USE DEF AInv, Broker
<1>1. /\ pc \in [Calls -> States] /\ verdict \in [Calls -> {None, "commit", "rollback"}]
      /\ orderinfo \in [Calls -> {None, "", "TRADE_CLOSED"}]
      /\ half \in [Calls -> BOOLEAN]
      /\ sn[c] \in Orders
  <2>1. pc[c] # "idle"
    BY DEF Proceed, ReadCart, ReadCartEmpty, QueryGoods, QueryGoodsFails, SellOk,
       SellUncommitted, SellRefused, SellUnanswered, SaveOrder, SaveOrderFails, ClearCart,
       ClearCartFails, SendTimeout, SendTimeoutFails, CommitOrder, CommitOrderFails,
       EndTransaction, EndTransactionLost
  <2> QED
    BY <2>1 DEF IInv, Core, TypeOK
<1>2. CASE \/ ReadCart(c) \/ ReadCartEmpty(c) \/ QueryGoods(c) \/ SellRefused(c)
           \/ SellUncommitted(c)
  <2>1. /\ pc[c] \in {"cart", "goods", "sell"}
        /\ UNCHANGED <<status, rebacks, half, sn, orderinfo>>
        /\ \A d \in Calls \ {c} : pc'[d] = pc[d] /\ verdict'[d] = verdict[d]
    BY <1>1, <1>2 DEF ReadCart, ReadCartEmpty, QueryGoods, SellRefused, SellUncommitted,
       Advance, Decide, ledger, request
  <2>2. ~Accounts(c) /\ half[c]
    BY <2>1 DEF Accounts, Ordering, HalfAsks, Sold, Running, RunningIsHalf, IInv, Core, CallShape
  <2> QED
    BY <2>1, <2>2, QuietMoves
<1>3. CASE SaveOrder(c) \/ ClearCart(c) \/ SendTimeout(c)
  <2>1. /\ pc[c] \in Sold /\ pc'[c] \in Sold
        /\ UNCHANGED <<status, rebacks, half, sn, orderinfo, verdict>>
        /\ \A d \in Calls \ {c} : pc'[d] = pc[d]
    BY <1>1, <1>3 DEF SaveOrder, ClearCart, SendTimeout, Advance, ledger, request, Sold
  <2>2. Accounts(c)' /\ half[c]
    BY <2>1 DEF Accounts, Ordering, Sold, Running, RunningIsHalf
  <2> QED
    BY <2>1, <2>2, QuietMoves
<1>4. CASE SaveOrderFails(c) \/ ClearCartFails(c) \/ SendTimeoutFails(c)
  <2>1. /\ pc[c] \in Sold /\ pc'[c] = "end" /\ verdict'[c] = "commit"
        /\ UNCHANGED <<status, rebacks, half, sn, orderinfo>>
        /\ \A d \in Calls \ {c} : pc'[d] = pc[d] /\ verdict'[d] = verdict[d]
    BY <1>1, <1>4 DEF SaveOrderFails, ClearCartFails, SendTimeoutFails, Decide, ledger, request, Sold
  <2>2. half[c]
    BY <2>1 DEF Sold, Running, RunningIsHalf
  <2>3. Accounts(c)'
    BY <2>1, <2>2 DEF Accounts, HalfAsks
  <2> QED
    BY <2>1, <2>2, <2>3, QuietMoves
<1>5. CASE CommitOrder(c)
  <2>1. /\ pc[c] = "commit" /\ orderinfo' = [orderinfo EXCEPT ![c] = ""]
        /\ UNCHANGED <<status, rebacks, half, sn>>
        /\ \A d \in Calls \ {c} : pc'[d] = pc[d] /\ verdict'[d] = verdict[d]
    BY <1>1, <1>5 DEF CommitOrder, Decide, ledger, request
  <2>2. half[c]
    BY <2>1 DEF Running, RunningIsHalf
  <2>3. Accounts(c)' /\ \A d \in Calls \ {c} : orderinfo'[d] = orderinfo[d]
    BY <1>1, <2>1, NoValue DEF Accounts, Ordering
  <2> QED
    BY <2>1, <2>2, <2>3, QuietMoves
<1>6. CASE EndTransactionLost(c)
  <2>1. /\ pc[c] = "end" /\ pc'[c] = "done"
        /\ UNCHANGED <<status, rebacks, half, sn, orderinfo, verdict>>
        /\ \A d \in Calls \ {c} : pc'[d] = pc[d]
    BY <1>1, <1>6 DEF EndTransactionLost, Advance, ledger, request
  <2>2. Accounts(c) => Accounts(c)'
    BY <2>1, NoValue DEF Accounts, Ordering, HalfAsks, Sold
  <2> QED
    BY <2>1, <2>2, QuietMoves DEF Running
<1>7. CASE SellOk(c)
  <2>1. /\ pc[c] = "sell" /\ pc'[c] = "save"
        /\ UNCHANGED <<rebacks, half, sn, orderinfo, verdict>>
        /\ \A d \in Calls \ {c} : pc'[d] = pc[d]
        /\ Ledger!Sell(sn[c], items[c])
    BY <1>1, <1>7 DEF SellOk, Advance, request
  <2>2. Accounts(c)' /\ half[c]
    BY <2>1 DEF Accounts, Ordering, Sold, Running, RunningIsHalf
  <2>3. \A d \in Calls : Accounts(d) => Accounts(d)'
    BY <2>1, <2>2 DEF Accounts, Ordering, HalfAsks
  <2>4. \A o \in Orders \ {sn[c]} : status'[o] = status[o]
    BY <2>1 DEF Ledger!Sell, IInv, Core, TypeOK
  <2>5. AccountMoves
    BY <2>1, <2>2, <2>3, <2>4 DEF AccountMoves
  <2> QED
    BY <2>1, <2>2, <2>5 DEF RunningIsHalf, Running
<1>8. CASE EndTransaction(c)
  <2>1. /\ pc[c] = "end" /\ pc'[c] = "done"
        /\ half' = [half EXCEPT ![c] = FALSE]
        /\ UNCHANGED <<status, sn, orderinfo, verdict>>
        /\ \A d \in Calls \ {c} : pc'[d] = pc[d]
        /\ rebacks \subseteq rebacks'
    BY <1>1, <1>8 DEF EndTransaction, Advance, ledger, request
  <2>2. verdict[c] = "commit" => HasMessage(sn[c])'
    <3>1. verdict[c] = "commit" => [sn |-> sn[c], by |-> "listener"] \in rebacks'
      BY <1>8 DEF EndTransaction
    <3> QED
      BY <3>1, <2>1 DEF HasMessage
  <2>3. Accounts(c) => Accounts(c)' \/ HasMessage(sn[c])'
    BY <2>1, <2>2 DEF Accounts, Ordering, HalfAsks, Sold
  <2>4. \A d \in Calls \ {c} : Accounts(d) => Accounts(d)'
    BY <1>1, <2>1 DEF Accounts, Ordering, HalfAsks
  <2>5. AccountMoves
    BY <2>1, <2>3, <2>4 DEF AccountMoves
  <2> QED
    BY <1>1, <2>1, <2>5 DEF RunningIsHalf, Running
<1> QED
  BY <1>2, <1>3, <1>4, <1>5, <1>6, <1>7, <1>8
  DEF Proceed, QueryGoodsFails, SellUnanswered, CommitOrderFails

LEMMA BrokerMoves ==
    ASSUME AInv, "slow" \notin Faults, "check" \notin Faults, NEW c \in Calls,
           CheckLocalTransaction(c)
    PROVE  AccountMoves /\ RunningIsHalf'
<1> USE DEF AInv
<1>1. /\ half' = [half EXCEPT ![c] = FALSE]
      /\ UNCHANGED <<status, pc, sn, orderinfo, verdict>>
      /\ rebacks \subseteq rebacks'
  BY DEF CheckLocalTransaction, ledger, request
<1>2. half \in [Calls -> BOOLEAN]
  BY DEF IInv, Core, TypeOK
<1>3. pc[c] \notin Running
  BY DEF CheckLocalTransaction, Due
<1>4. HasOrder(sn[c]) => \E d \in Calls : sn'[d] = sn[c] /\ Accounts(d)'
  BY <1>1 DEF HasOrder, Accounts, Ordering
<1>5. ~HasOrder(sn[c]) => HasMessage(sn[c])'
  <2>1. ~HasOrder(sn[c]) => [sn |-> sn[c], by |-> "listener"] \in rebacks'
    BY DEF CheckLocalTransaction
  <2> QED
    BY <1>1, <2>1 DEF HasMessage
<1>6. \A d \in Calls \ {c} : Accounts(d) => Accounts(d)'
  BY <1>1, <1>2 DEF Accounts, Ordering, HalfAsks
<1>7. AccountMoves
  BY <1>1, <1>4, <1>5, <1>6 DEF AccountMoves
<1> QED
  BY <1>1, <1>2, <1>3, <1>7 DEF RunningIsHalf

(* A step that leaves the calls alone, sells nothing and takes no message of  *)
(* a deducted number.                                                         *)
LEMMA OutsideMoves ==
    ASSUME AInv, UNCHANGED <<pc, sn, orderinfo, verdict, half>>,
           \A o \in Orders : status'[o] = 1 => status[o] = 1,
           \A m \in rebacks : m \in rebacks' \/ status'[m.sn] # 1
    PROVE  AccountMoves /\ RunningIsHalf'
<1>1. \A c \in Calls : Accounts(c) => Accounts(c)'
  BY DEF Accounts, Ordering, HalfAsks
<1>2. AccountMoves
  BY <1>1 DEF AccountMoves
<1> QED
  BY <1>2 DEF AInv, RunningIsHalf

LEMMA RebackMoves ==
    ASSUME AInv, "check" \notin Faults, NEW m \in rebacks, RebackReturn(m) \/ RebackNothing(m)
    PROVE  AccountMoves /\ RunningIsHalf'
<1>1. /\ UNCHANGED <<pc, sn, orderinfo, verdict, half>>
      /\ \A n \in rebacks \ {m} : n \in rebacks'
  BY DEF RebackReturn, RebackNothing, request
<1>2. CASE RebackNothing(m)
  <2>1. status' = status /\ status[m.sn] # 1
    BY <1>2 DEF RebackNothing, ledger
  <2> QED
    BY <1>1, <2>1, OutsideMoves
<1>3. CASE RebackReturn(m)
  <2>1. m.sn \in Orders /\ status \in [Orders -> {0, 1, 2}]
    BY DEF AInv, IInv, Core, TypeOK, Message
  <2>2. status' = [status EXCEPT ![m.sn] = 2]
    BY <1>3 DEF RebackReturn, Ledger!Return
  <2>3. /\ status'[m.sn] # 1
        /\ \A o \in Orders : status'[o] = 1 => status[o] = 1
    BY <2>1, <2>2
  <2> QED
    BY <1>1, <2>3, OutsideMoves
<1> QED
  BY <1>2, <1>3

(* A crash leaves the half message of a call that has deducted.               *)
LEMMA CrashMoves ==
    ASSUME AInv, Crash
    PROVE  AccountMoves /\ RunningIsHalf'
<1>1. /\ UNCHANGED <<status, rebacks, half, sn, orderinfo, verdict>>
      /\ \A c \in Calls : pc'[c] = IF pc[c] \in Running THEN "done" ELSE pc[c]
  BY DEF Crash, ledger, request
<1>2. \A c \in Calls : pc'[c] \notin Running
  BY <1>1 DEF Running
<1>3. ASSUME NEW c \in Calls, Accounts(c)
      PROVE  Accounts(c)'
  <2>1. CASE orderinfo[c] # None
    BY <1>1, <2>1 DEF Accounts, Ordering
  <2>2. CASE pc[c] \in Sold
    <3>1. pc[c] \in Running
      BY <2>2 DEF Sold, Running
    <3>2. half[c] /\ verdict[c] = None
      BY <2>2, <3>1 DEF AInv, RunningIsHalf, IInv, Core, CallShape
    <3> QED
      BY <1>1, <3>1, <3>2, NoValue DEF Accounts, HalfAsks
  <2>3. CASE HalfAsks(c)
    BY <1>1, <2>3 DEF Accounts, HalfAsks, Running
  <2> QED
    BY <1>3, <2>1, <2>2, <2>3 DEF Accounts, Ordering
<1>4. AccountMoves
  BY <1>1, <1>3 DEF AccountMoves
<1> QED
  BY <1>2, <1>4 DEF RunningIsHalf

LEMMA AccountingMoves ==
    ASSUME AInv, [Next]_vars,
           "rpc" \notin Faults, "commit" \notin Faults, "slow" \notin Faults,
           "check" \notin Faults, "discard" \notin Faults
    PROVE  AccountMoves /\ RunningIsHalf'
<1>1. CASE UNCHANGED vars
  BY <1>1, OutsideMoves DEF vars, ledger, request
<1>2. CASE \E c \in Calls, u \in Users, o \in Orders :
               CreateOrder(c, u, o) \/ CreateOrderFails(c, u, o) \/ CreateOrderUnflushed(c, u, o)
  BY <1>2, StartMoves
<1>3. CASE \E c \in Calls : Proceed(c)
  BY <1>3, ProceedMoves
<1>4. CASE \E c \in Calls : CheckLocalTransaction(c)
  BY <1>4, BrokerMoves
<1>5. CASE \/ \E c \in Calls : TimeoutNoOrder(c)
           \/ \E c, d \in Calls : TimeoutClose(c, d) \/ TimeoutSendFails(c, d)
  <2>1. UNCHANGED <<status, pc, sn, orderinfo, verdict, half>> /\ rebacks \subseteq rebacks'
    BY <1>5 DEF TimeoutNoOrder, TimeoutClose, TimeoutSendFails, ledger, request
  <2> QED
    BY <2>1, OutsideMoves
<1>6. CASE \E m \in rebacks : RebackReturn(m) \/ RebackNothing(m)
  BY <1>6, RebackMoves
<1>7. CASE \E u \in Users, r \in Requests \cup {<<>>} : ChangeCart(u, r)
  <2>1. UNCHANGED <<status, pc, sn, orderinfo, verdict, half, rebacks>>
    BY <1>7 DEF ChangeCart, ledger, request, Broker
  <2> QED
    BY <2>1, OutsideMoves
<1>8. CASE Crash
  BY <1>8, CrashMoves
<1> QED
  BY <1>1, <1>2, <1>3, <1>4, <1>5, <1>6, <1>7, <1>8
  DEF Next, CheckLocalTransactionFails, DiscardHalf

(* Unless an answer of Sell, the commit of an order or a query of the broker  *)
(* is lost, a call outlasts a timer or the broker gives up, what a number has *)
(* deducted is always somebody's to give back, also after a crash, a lost     *)
(* verdict or a failing send.                                                 *)
THEOREM DeductionsAreAccountedFor ==
    ASSUME "rpc" \notin Faults, "commit" \notin Faults, "slow" \notin Faults,
           "check" \notin Faults, "discard" \notin Faults
    PROVE  Spec => []StockIsAccountedFor
<1>1. Init => AInv
  <2>1. Init => RunningIsHalf /\ Accounted
    BY DEF Init, RunningIsHalf, Running, Accounted
  <2> QED
    BY <2>1, InitIInv DEF AInv
<1>2. AInv /\ [Next]_vars => AInv'
  <2> SUFFICES ASSUME AInv, [Next]_vars
               PROVE  AInv'
    OBVIOUS
  <2>1. IInv'
    BY NextStep DEF AInv
  <2>2. AccountMoves /\ RunningIsHalf'
    BY AccountingMoves
  <2>3. Accounted'
    BY <2>2, AccountedStep DEF AInv
  <2> QED
    BY <2>1, <2>2, <2>3 DEF AInv
<1>3. AInv => StockIsAccountedFor
  BY DEF AInv, Accounted, Accounts, Ordering, HalfAsks, HasMessage, StockIsAccountedFor
<1> QED
  BY <1>1, <1>2, <1>3, PTL DEF Spec
-----------------------------------------------------------------------------
(* The shop never owes more than it has.                                      *)

(* What is on the shelf and what the ledger's orders hold is the first stock. *)
Shelf ==
    /\ IsFiniteSet(HeldOrders(status))
    /\ \A g \in Goods :
        stocks[g] >= 0 /\ stocks[g] + HeldOf(g, status, detail) = Stock

(* Goods move by a sale or a return of the ledger and in no other way.        *)
LEMMA LedgerSteps ==
    ASSUME IInv, [Next]_vars
    PROVE  \/ UNCHANGED ledger
           \/ \E o \in Orders, l \in ItemLists : Ledger!Sell(o, l)
           \/ \E o \in Orders : Ledger!Return(o)
<1>1. CASE UNCHANGED vars
  BY <1>1 DEF vars
<1>2. CASE \E c \in Calls : Proceed(c)
  <2> PICK c \in Calls : Proceed(c)
    BY <1>2
  <2>1. CASE SellOk(c) \/ SellUnanswered(c)
    <3>1. sn[c] \in Orders /\ items[c] \in ItemLists /\ Ledger!Sell(sn[c], items[c])
      BY <2>1 DEF SellOk, SellUnanswered, IInv, Core, TypeOK
    <3> QED
      BY <3>1
  <2> QED
    BY <2>1 DEF Proceed, ReadCart, ReadCartEmpty, QueryGoods, QueryGoodsFails, SellUncommitted,
       SellRefused, SaveOrder, SaveOrderFails, ClearCart, ClearCartFails, SendTimeout,
       SendTimeoutFails, CommitOrder, CommitOrderFails, EndTransaction, EndTransactionLost
<1>3. CASE \E m \in rebacks : RebackReturn(m) \/ RebackNothing(m)
  <2>1. \A m \in rebacks : m.sn \in Orders
    BY DEF IInv, Core, TypeOK, Message
  <2> QED
    BY <1>3, <2>1 DEF RebackReturn, RebackNothing
<1>4. CASE \/ \E c \in Calls, u \in Users, o \in Orders :
                CreateOrder(c, u, o) \/ CreateOrderFails(c, u, o) \/ CreateOrderUnflushed(c, u, o)
           \/ \E c \in Calls : \/ CheckLocalTransaction(c) \/ CheckLocalTransactionFails(c)
                               \/ DiscardHalf(c) \/ TimeoutNoOrder(c)
           \/ \E c, d \in Calls : TimeoutClose(c, d) \/ TimeoutSendFails(c, d)
           \/ \E u \in Users, r \in Requests \cup {<<>>} : ChangeCart(u, r)
           \/ Crash
  BY <1>4 DEF CreateOrder, CreateOrderFails, CreateOrderUnflushed, CheckLocalTransaction,
     CheckLocalTransactionFails, DiscardHalf, TimeoutNoOrder, TimeoutClose, TimeoutSendFails,
     ChangeCart, Crash
<1> QED
  BY <1>1, <1>2, <1>3, <1>4 DEF Next

(* No request asks for a negative amount, which no handler checks. *)
NaturalAmounts == \A r \in Requests : IsItemList(r, Goods, Nat)

(* The amounts that orders hold are then natural numbers. *)
LEMMA HeldAmounts ==
    ASSUME TypeOK, NaturalAmounts
    PROVE  /\ \A l \in ItemLists, g \in Goods : NumOf(l, g) \in Nat
           /\ IsFiniteSet(HeldOrders(status)) => HeldIsSum(Goods, status, detail)
<1>1. ASSUME NEW l \in ItemLists, NEW g \in Goods PROVE NumOf(l, g) \in Nat
  <2>1. IsItemList(l, Goods, Nat)
    <3>1. CASE l \in Requests
      BY <3>1 DEF NaturalAmounts
    <3>2. CASE l = <<>>
      BY <3>2 DEF IsItemList, Distinct
    <3> QED
      BY <3>1, <3>2 DEF ItemLists
  <2> QED
    BY <2>1, GoodsOfType DEF NumOf
<1>2. \A o \in HeldOrders(status) : detail[o] \in ItemLists
  BY LedgerType DEF HeldOrders
<1> QED
  BY <1>1, <1>2 DEF HeldIsSum

LEMMA ShelfInit == Init => Shelf
<1> SUFFICES ASSUME Init PROVE Shelf
  OBVIOUS
<1>1. HeldOrders(status) = {}
  BY DEF Init, HeldOrders
<1>2. \A g \in Goods : HeldOf(g, status, detail) = 0
  BY <1>1, SumOfNone DEF HeldOf
<1>3. Stock \in Nat
  BY CheckoutAssumption
<1>4. \A g \in Goods : stocks[g] = Stock
  BY DEF Init
<1> QED
  BY <1>1, <1>2, <1>3, <1>4, FS_EmptySet DEF Shelf

LEMMA SellShelf ==
    ASSUME IInv, NaturalAmounts, Shelf, NEW o \in Orders, NEW l \in ItemLists, Ledger!Sell(o, l)
    PROVE  Shelf'
<1>0. TypeOK
  BY DEF IInv, Core
<1>1. /\ status[o] = 0 /\ status' = [status EXCEPT ![o] = 1]
      /\ detail' = [detail EXCEPT ![o] = l]
      /\ \A g \in GoodsOf(l) : stocks[g] >= NumOf(l, g)
      /\ \A g \in Goods : stocks'[g] = IF g \in GoodsOf(l) THEN stocks[g] - NumOf(l, g) ELSE stocks[g]
  BY SameLists DEF Ledger!Sell, Ledger!Available
<1>2. /\ HeldIsSum(Goods, status', detail')
      /\ \A g \in Goods : /\ HeldOf(g, status, detail) \in Int
                          /\ HeldOf(g, status', detail') = HeldOf(g, status, detail) + NumOf(l, g)
  <2>1. DOMAIN status = Orders /\ DOMAIN detail = Orders /\ status[o] # 1
    BY <1>0, <1>1, LedgerType
  <2>2. HeldIsSum(Goods, status, detail) /\ \A g \in Goods : NumOf(l, g) \in Int
    BY <1>0, HeldAmounts DEF Shelf
  <2>3. Deducts(Goods, status, detail, o, l, status', detail')
    BY <1>1, <2>1, <2>2 DEF Deducts
  <2> QED
    BY <2>3, HeldGrows
<1>3. ASSUME NEW g \in Goods
      PROVE  stocks'[g] >= 0 /\ stocks'[g] + HeldOf(g, status', detail') = Stock
  <2>1. NumOf(l, g) \in Nat /\ (g \notin GoodsOf(l) => NumOf(l, g) = 0)
    BY <1>0, HeldAmounts DEF NumOf
  <2>2. stocks[g] \in Int /\ stocks[g] >= 0 /\ stocks[g] + HeldOf(g, status, detail) = Stock
    BY <1>0 DEF Shelf, TypeOK
  <2>3. stocks'[g] = stocks[g] - NumOf(l, g) /\ stocks'[g] >= 0
    BY <1>1, <2>1, <2>2
  <2>4. /\ HeldOf(g, status, detail) \in Int
        /\ HeldOf(g, status', detail') = HeldOf(g, status, detail) + NumOf(l, g)
    BY <1>2
  <2> QED
    BY <2>1, <2>2, <2>3, <2>4
<1> QED
  BY <1>2, <1>3 DEF Shelf, HeldIsSum

LEMMA ReturnShelf ==
    ASSUME IInv, NaturalAmounts, Shelf, NEW o \in Orders, Ledger!Return(o)
    PROVE  Shelf'
<1>0. TypeOK
  BY DEF IInv, Core
<1> DEFINE l == detail[o]
<1>1. /\ status[o] = 1 /\ status' = [status EXCEPT ![o] = 2] /\ detail' = detail
      /\ \A g \in Goods : stocks'[g] = IF g \in GoodsOf(l) THEN stocks[g] + NumOf(l, g) ELSE stocks[g]
  BY SameLists DEF Ledger!Return
<1>2. /\ HeldIsSum(Goods, status', detail)
      /\ \A g \in Goods : /\ HeldOf(g, status', detail) \in Int
                          /\ HeldOf(g, status, detail) = HeldOf(g, status', detail) + NumOf(l, g)
  <2>1. DOMAIN status = Orders
    BY <1>0 DEF TypeOK
  <2>2. HeldIsSum(Goods, status, detail)
    BY <1>0, HeldAmounts DEF Shelf
  <2>3. GivesBack(Goods, status, detail, o, status')
    BY <1>1, <2>1, <2>2 DEF GivesBack
  <2> QED
    BY <2>3, HeldShrinks
<1>3. l \in ItemLists
  BY <1>0 DEF TypeOK
<1> HIDE DEF l
<1>4. ASSUME NEW g \in Goods
      PROVE  stocks'[g] >= 0 /\ stocks'[g] + HeldOf(g, status', detail') = Stock
  <2>1. NumOf(l, g) \in Nat /\ (g \notin GoodsOf(l) => NumOf(l, g) = 0)
    BY <1>0, <1>3, HeldAmounts DEF NumOf
  <2>2. stocks[g] \in Int /\ stocks[g] >= 0 /\ stocks[g] + HeldOf(g, status, detail) = Stock
    BY <1>0 DEF Shelf, TypeOK
  <2>3. stocks'[g] = stocks[g] + NumOf(l, g)
    BY <1>1, <2>1, <2>2
  <2>4. /\ HeldOf(g, status', detail') \in Int
        /\ HeldOf(g, status, detail) = HeldOf(g, status', detail') + NumOf(l, g)
    <3>1. detail' = detail
      BY <1>1
    <3> QED
      BY <1>2, <3>1
  <2> QED
    BY <2>1, <2>2, <2>3, <2>4
<1> QED
  BY <1>1, <1>2, <1>4 DEF Shelf, HeldIsSum

LEMMA ShelfStep == IInv /\ NaturalAmounts /\ Shelf /\ [Next]_vars => Shelf'
<1> SUFFICES ASSUME IInv, NaturalAmounts, Shelf, [Next]_vars PROVE Shelf'
  OBVIOUS
<1>1. CASE UNCHANGED ledger
  BY <1>1 DEF ledger, Shelf
<1> QED
  BY <1>1, LedgerSteps, SellShelf, ReturnShelf

(* The orders that stand, one for one, are orders the ledger holds goods for, *)
(* so that their goods are among those that have left the shelf.              *)
LEMMA StandingFit ==
    ASSUME IInv, "sellcommit" \notin Faults, NaturalAmounts, Shelf, OrderHoldsStock
    PROVE  OrdersFitStock
<1> DEFINE C == {c \in Calls : orderinfo[c] # None /\ sn[c] \notin expired}
           D == HeldOrders(status)
           f == [c \in C |-> sn[c]]
<1>0. TypeOK /\ OneOrderPerNumber
  BY DEF IInv, Core, UnsoldByFault, ClaimsExclude, Claims, Ordering, OneOrderPerNumber
<1> SUFFICES ASSUME NEW g \in Goods PROVE GoodsSum(g, items, C) <= Stock
  BY DEF OrdersFitStock, GoodsSum
<1> DEFINE w == [c \in C |-> NumOf(items[c], g)]
           v == [o \in DOMAIN status |-> NumOf(detail[o], g)]
<1>1. \A c \in C : sn[c] \in Orders /\ status[sn[c]] = 1 /\ detail[sn[c]] = items[c]
  <2>1. \A c \in C : pc[c] # "idle"
    BY DEF IInv, Core, CallShape
  <2> QED
    BY <1>0, <2>1 DEF OrderHoldsStock, TypeOK
<1>2. f \in Injection(C, D)
  <2>1. \A c \in C : sn[c] \in D
    BY <1>0, <1>1 DEF HeldOrders, TypeOK
  <2>2. \A c, d \in C : sn[c] = sn[d] => c = d
    BY <1>0 DEF OneOrderPerNumber, IInv, Core, UnsoldByFault
  <2> HIDE DEF C, D
  <2> QED
    BY <2>1, <2>2 DEF Injection, IsInjective
<1>3. \A o \in D : v[o] \in Nat
  BY <1>0, HeldAmounts DEF HeldOrders, TypeOK
<1>4. \A c \in C : w[c] = v[f[c]]
  BY <1>0, <1>1 DEF TypeOK
<1>5. IsFiniteSet(D) /\ stocks[g] \in Int /\ stocks[g] >= 0 /\ stocks[g] + SumOf(v, D) = Stock
  BY <1>0 DEF Shelf, HeldOf, TypeOK
<1> HIDE DEF C, D, f, v
<1>6. IsPartOf(w, C, v, D, f)
  BY <1>2, <1>3, <1>4, <1>5 DEF IsPartOf
<1>7. IsFiniteSet(C) /\ SumOf(w, C) \in Int /\ SumOf(v, D) \in Int /\ SumOf(w, C) <= SumOf(v, D)
  BY <1>6, PartOfSum
<1>8. GoodsSum(g, items, C) = SumOf(w, C)
  BY <1>7, GoodsSumIsSumOf
<1> QED
  BY <1>5, <1>7, <1>8

(* When amounts are natural numbers, no commit of Sell and no check of the    *)
(* broker fails and no call outlasts a timer, the orders that stand never ask *)
(* for more than the stock there was, for any number of calls, users, order   *)
(* numbers and goods and whatever else fails.                                 *)
THEOREM ShopNeverOwesMore ==
    ASSUME \A r \in Requests : IsItemList(r, Goods, Nat),
           "sellcommit" \notin Faults, "slow" \notin Faults, "check" \notin Faults
    PROVE  Spec => []OrdersFitStock
<1>0. NaturalAmounts
  BY DEF NaturalAmounts
<1>1. Init => Shelf
  BY ShelfInit
<1>2. IInv /\ Shelf /\ [Next]_vars => Shelf'
  BY <1>0, ShelfStep
<1>3. IInv /\ Shelf /\ OrderHoldsStock => OrdersFitStock
  BY <1>0, StandingFit
<1>4. Spec => []OrderHoldsStock
  BY StandingOrdersHoldStock
<1> QED
  BY <1>1, <1>2, <1>3, <1>4, Invariant, PTL DEF Spec
=============================================================================
