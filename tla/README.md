# mxshop_srvs in TLA+

mxshop_srvs is the back end of a shop: five Go services that talk gRPC, each with
its own MySQL schema (gorm), two of them joined by RocketMQ topics, one with an
Elasticsearch index. This directory models it, checks the models with TLC on
small instances, and proves the main results with TLAPS for every value of the
constants. Every definition stands for lines of the source; `PROJECT.json`
(`map`) names them.

## 1. The system

| Component | State | Operations | Talks to |
|---|---|---|---|
| `inventory_srv` stock (`handler/inventory.go`) | tables `inventory` (a row per goods: stocks), `stockselldetail` (a row per order: status 1 deducted, 2 returned, and the list) | `SetInv`, `InvDetail`, `Sell` over gRPC; `AutoReback`, consumer of `order_reback` | MySQL (row locks, transactions, a limited number of connections) |
| `order_srv` checkout (`handler/order.go`, `handler/rockermq.go`) | tables `orderinfo`, `ordergoods`, `shoppingcart`; the half messages and delayed messages the broker keeps for it | `CreateOrder`; the listener's `ExecuteLocalTransaction` and `CheckLocalTransaction`; `OrderTimeout`, consumer of `order_timeout` | `goods_srv.BatchGetGoods`, `inventory_srv.Sell`, RocketMQ |
| `order_srv` cart (`handler/order.go`) | `shoppingcart` | `CartItemList`, `CreateCartItem`, `UpdateCartItem`, `DeleteCartItem` | checkout, through the table |
| `order_srv` queries, `UpdateOrderStatus` | `orderinfo` | reads; one `UPDATE` | - |
| `order_srv` order numbers (`handler/base.go`) | none | `GenerateOrderSn`: the time to the second, the user, two random digits, unpadded | checkout |
| `goods_srv` goods, categories, brands, banners | `goods`, `category`, `brands`, `goodscategorybrand`, `banner`; index `goods` | create, update, delete, list, batch get | MySQL, Elasticsearch (gorm hooks) |
| `user_srv` | `user` | create, update, list, find, check password | MySQL |
| `userop_srv` | `address`, `leavingmessages`, `userfav` | create, update, delete, list | MySQL |
| tracing interceptors (`order_srv/utils/otgrpc`) | a span per call or stream | unary and stream, client and server | every gRPC call |
| start-up, consul registration, configuration | - | `main`, `initialize`, `utils/register` | consul, nacos |

How an order is placed, which is the program's core:

1. `CreateOrder` sends a **half message** to `order_reback`. The broker stores
   and hides it. Committing it means *give the stock back*; rolling it back means
   *the order stands*.
2. The client library calls the listener in the same call: read the checked cart
   rows, ask `goods_srv` for the goods, `Sell` at `inventory_srv`, then in one
   transaction save the order and its goods and delete the cart rows, send a
   **delayed message** to `order_timeout`, and commit. A failure before `Sell`
   rolls the half message back, one after it commits it.
3. The verdict goes to the broker one way. If it does not arrive, the broker asks
   `CheckLocalTransaction`, which looks for the order row.
4. `OrderTimeout` looks at an order a delay later and, unless it is paid, sends
   its number to `order_reback`.
5. `AutoReback` in `inventory_srv` gives the goods of a number back.

What is hard in it, and what makes it correct:

* **inventory_srv** - handlers of any number of requests and deliveries
  interleave at SQL statements; rows are locked in the order a request lists
  them; messages are delivered twice and at once; errors of `Commit` are dropped;
  `AutoReback` leaks a transaction on one path. Correct means: nothing oversold,
  no update lost, an order deducted whole and once, returned at most once, every
  handler returns.
* **checkout** - two databases, one broker and no distributed transaction. The
  process can die between any two steps; a verdict or an acknowledgement can be
  lost; timers of the broker race the call; order numbers collide. Correct means:
  an order that stands has its goods, one that failed gives them back, the client
  is told the truth, two orders never share a number.
* **cart** - read-then-save without a transaction. Correct means: no addition is
  lost, one row per goods, nothing is deleted that was not ordered.
* **goods_srv** - MySQL and Elasticsearch written without a common commit; rows of
  one table checked before another is written, with no lock and no foreign key.
  Correct means: the index shows the goods the table has, a search shows goods of
  the category it asks for, what was checked still holds at the write.
* **user_srv, userop_srv** - read-then-create against unique indexes; rows read,
  edited and saved whole. Correct means: a mobile registers once, edits do not undo
  each other.
* **otgrpc** - several goroutines finish one span. Correct means: once, and always.
* **processes** - a process serves, is checked and dies at any point of its start and
  its shutdown. Correct means: consul lists those that run and no others for long.

The full list of hazards, line by line, is `hazards` in `PROJECT.json`.

## 2. The modules

```
SellItems              item lists (GoodsDetailList, SellInfo.GoodsInfo)
  StockLedger          what inventory_srv promises, one atomic step per promise
  Inventory            inventory_srv: statements, locks, transactions, faults
    InventoryMC        instances for TLC
    InventoryProofs    theorems
  Checkout             order_srv + broker + AutoReback; uses StockLedger's actions
    CheckoutMC         instances for TLC
    CheckoutProofs     theorems
  SellItemsProofs      lemmas on item lists, and on sums of them over finite sets
Gorm                   tables with AUTO_INCREMENT, First, Save and soft delete
  CartPromise          what the cart promises, one atomic step per call
  Cart                 the cart's handlers and an order, read by read and write by write
    CartMC, CartProofs
  Taxonomy             categories, brands and their links
    GoodsIndex         goods, the Elasticsearch hooks, Mysql2Es, GoodsList
    CatalogProofs      theorems about both
  EditPromise          what the handlers that edit a row promise
  Editing              UpdateCategory, UpdateBanner, UpdateAddress, UpdateUser
  Accounts             CreateUser, AddUserFav, DeleteUserFav
Pages                  Paginate
    RowsProofs         theorems about Editing, Accounts and Pages
Service                a process, its port and its entry in consul
  ServiceProofs
ClientSpan             the span of a client stream
  SpanProofs
ShopMC                 one instance of the parts from Taxonomy to ClientSpan
```

`Inventory` implements `StockLedger` (`ImplementsLedger`, checked and proved), and
`Checkout` takes `StockLedger`'s `Sell` and `Return` for `inventory_srv`: the
composition is modular, and what `Checkout` shows holds over the detailed model
as far as the refinement goes. `GoodsIndex` extends `Taxonomy`: a goods call looks a
category and a brand up in tables that the calls of `Taxonomy` write. The other parts
share no state (separate schemas, separate processes) and no run composes them
beyond being checked together. `Checkout` takes what a cart may hold from outside
(`ChangeCart`) and `Cart` models how it comes to hold it.

### Inventory

One step is one SQL statement with the code that handles its result. `pc[s]` is
where a handler's goroutine is, `items[s]` and `next[s]` its loop, `writes[s]` the
row images its transaction has written and not committed. A row with an
uncommitted image is locked (`RowFree`); so is the `stockselldetail` row a
transaction has inserted or updated (`DetailFree`). `Blockers` and `Deadlocked` are
the lock wait graph, `DeadlockVictim` InnoDB's choice. `leaked` counts the
transactions that `AutoReback` begins and never ends (`inventory.go:128`); each
takes one of `MaxConns` connections. `twins` are the goods for which `SetInv` has
inserted a second row. `confirmed` is a history variable: the orders some caller
was told OK for.

Sell is `SellBegin`, `SellItem` / `SellNoRow` / `SellShort` per item, `SellRecord` /
`SellDuplicate`, `SellCommit` / `SellCommitFails`; AutoReback is `RebackFind` /
`RebackNotFound`, `RebackItem` / `RebackItemFails`, `RebackMark` / `RebackLate`,
`RebackCommit` / `RebackCommitFails`; SetInv is `SetRead` / `SetReadFails`,
`SetInsert` / `SetUpdate` / `SetSaveFails`.

Two points that the code's text does not show. `RebackLate`: `UPDATE ... SET
status = 2` on a row that already has 2 changes nothing, MySQL reports zero rows
(the DSN does not set `clientFoundRows`) and `stockselldetail` has no
`update_time`, so the second of two racing deliveries rolls back: this is what
keeps a return from being applied twice. And `SellDuplicate`: only the unique
index `idx_order_sn` keeps an order number from being deducted twice.

Faults: `statement` (a statement fails), `commit` (a commit fails), `crash`.

### Checkout

`pc[c]` walks one call of `CreateOrder` through the listener: `cart`, `goods`, `sell`,
`save`, `clear`, `timeout`, `commit`, `end`. The rows the transaction of lines 102-172
writes become visible at `CommitOrder` (`orderinfo`, `cart`). `half`, `delayed` and
`rebacks` are the broker: half messages, delayed messages, messages a consumer of
`order_reback` can see. `fired` and `expired` are history: numbers a timer has fired
for, and numbers OrderTimeout has sent back. `unsold` is history too: calls whose `Sell` was
confirmed although its commit had failed. It is needed because a refinement of tables says
nothing of replies: `StockLedger`'s `Sell` is a `Sell` that deducts, and `SellUncommitted` is
the step in which the listener goes on (`rockermq.go:91`) with a reply that no deduction stands
behind.

| Faults | What it adds |
|---|---|
| `rpc` | `BatchGetGoods` or `Sell` fails, or `Sell` succeeds and its answer is lost |
| `sellcommit` | `Sell`'s own commit fails: nothing is deducted, and the answer is OK (`inventory.go:85`) |
| `db` | a statement of the listener fails |
| `commit` | `tx.Commit()` at line 172 fails |
| `mq` | a send fails, with or without the message being stored |
| `flush` | the broker answers the half message with a flush or replication timeout; the library then does not call the listener |
| `end` | the verdict is lost |
| `check` | a query made for the broker (check-back, `OrderTimeout`, `AutoReback`) fails, which the code takes for an empty answer |
| `crash` | `order_srv` dies (also the `panic`s of lines 152, 157, 212, 216) |
| `slow` | a call takes longer than the broker's timers |
| `discard` | the broker gives up asking about a half message |

Redelivery needs no fault: every consumer's acknowledgement may be lost.
Without `slow`, `Due` says that a timer fires only when no call with that number is
running: the broker's first check and the delay (`WithDelayTimeLevel(5)`, a minute)
are long against a call, but no deadline in the code makes it so.
`Fresh` lets `GenerateOrderSn` repeat a number while an earlier call that has it is
running (the same second), or later, when nothing of its first use is on its way
(the format is not padded, so it recurs).

### Gorm

What the handlers' one-liners do to a table. `First` finds the lowest live id,
`Delete` only marks, an insert takes the next id. `Save` is the one to know: it
writes every column of the struct it is given, and when the row was deleted since it
was read its `UPDATE` finds nothing and gorm falls back to an upsert under the old id,
which brings the row back. `Cart` and `Editing` show what follows from that.

### Cart

One user's rows of `shoppingcart`; every statement names the user. `pc[c]`, `at[c]`,
`image[c]` are a handler between its read and its `Save`; `ordered[c]` is an order's
`goodsNumsMap` between its read and its `Delete`. `touched[c]` (goods other calls have
written since `c` read, or that a failed read of `c` missed) and `torn` (goods on which
such a call saved) are history variables: they name exactly the overlap the code's todo
(`order.go:49`) asks about. `CartPromise` promises nothing of a torn goods, and an atomic
step per call of every other; deleting or ordering all its rows heals a goods.
`PlaceOrderCommits` is the whole transaction of `rockermq.go:102-172`, as the cart sees it.

### Taxonomy and GoodsIndex

`session[s]` is a handler after its checks, with the row it is about to write.
`overtaken` marks calls during which another wrote a category or a brand, or whose
check itself failed. Code that reads surprisingly is modelled as it runs: `CreateBrand`
refuses whenever *any* brand exists (`First` of an empty struct has no condition),
`UpdateBrand` deletes the brand and inserts a deleted copy (gorm has noted the deletion
time in the struct), `UpdateGoods` puts every goods under the first brand (its condition
is an unloaded struct), and `DeleteGoods` never deletes (`AfterDelete` asks
Elasticsearch for document 0, and its 404 rolls the statement back) and answers OK.

A transaction that inserts or updates a goods writes the document in gorm's hook and
commits later: `CreateGoodsInserts`, `UpdateGoodsWrites`, then `...Commits` or
`...CommitFails` (whose error the code drops; a crash at that point is the same). The
hook may fail before or after Elasticsearch wrote. `Locked(i)` is the row lock of an
uncommitted `UPDATE`. `blurred` is a history variable: goods whose last document came
from no commit or from a copy of `Mysql2Es` that another call overtook.

### Editing, Accounts, Pages

`Editing` is one model of four handlers: `kind` says which, and `Merged` which fields
each takes from the request. `UpdateCategory` and `UpdateBanner` keep what the request
leaves out, `UpdateUser` overwrites, `UpdateAddress` looks at the *stored* field.
`shaken` and `tornEntries` play the parts of `touched` and `torn`.
`Accounts` has the two unique indexes that `CreateUser` and `AddUserFav` lean on; the
favourites' index covers deleted rows too, which is why `DeleteUserFav` is `Unscoped`.
`AddUserFav` drops every error: of a row that is there (harmless) and of an INSERT that
fails otherwise (`AddUserFavFails`), after which the client is told OK of nothing.
`Pages` has no behaviour, only operators over all list lengths and page sizes given.

### Service and ClientSpan

`Service` walks `main` from `net.Listen` to `DeRegister`: `start`, `listening`,
`registered`, `notified`, `waiting`, `stopping`, `exited` or `dead`; `serving` is the
goroutine in `Serve`. `quit` has no buffer, so a signal between `signal.Notify` and the
receive is dropped, and before `Notify` it kills (`Die`). consul checks the *port* of an
entry, whoever answers there. `dead` stands for every end that leaves the entry behind: also
that of `goods_srv` and `user_srv`, which log a failed deregistration and return where the
other three panic.
`ClientSpan` has one step per statement of `finishFunc` for each goroutine that may
call it. A method of a stream that is over may be called again and fail again.

## 3. The runs

| Run | Instance | Shows |
|---|---|---|
| `inventory_safety` | 3 handlers, 2 orders, 2 goods requested in both orders (one for 2 units of a stock of 2), symmetry | `TypeOK`, `NoOversell`, `RowImagesFresh`, `HeldRowsExist`, `ConfirmedIsDeducted`, `WaitsEnd` with no faults |
| `inventory_ledger` | 2 handlers, an amount of -1 and the empty request too, statement and commit failures, crashes | `ImplementsLedger` (refinement), `Conservation` |
| `inventory_live` | 2 handlers, opposite lock orders, fair | `HandlersReturn` |
| `inventory_setinv` | 1 handler, a read that fails | violation of `SetInvSetsStocks` (finding) |
| `inventory_sell_lost` | the instance of `inventory_safety`, commits that fail | violation of `ConfirmedIsDeducted` (finding) |
| `checkout_safety` | 2 calls, 2 users, 2 order numbers, 1 unit, a cart with an unknown goods; `db`, `mq`, `end`, `crash` | `TypeOK`, `OrderHoldsStock`, `ReplyMatchesOrder`, `OrdersFitStock`, `StockIsAccountedFor` |
| `checkout_faults` | the same with all faults | `OrderWasDeducted`, `OneOrderPerNumber`, `ErrorMeansNoOrder` |
| `checkout_live` | 2 calls of 1 user, a cart of which nothing is known; `db`, `mq`, fair | `StockComesBack` |
| `checkout_check_race` | `slow` only | violation of `OrderHoldsStock` (finding) |
| `checkout_closed` | no faults | violation of `TimedOutIsClosed` (finding) |
| `cart` | 2 calls at a time, 2 goods, 3 rows, amounts up to 2, symmetry | `CartTypeOK`, `OneRowPerGoods`, `OrdersWhatItTakes`, `CartKeepsPromise` (refinement) |
| `shop` | one part at a time, see below | the 14 properties of the other modules |

The parts of `shop` share no variable, so their product would multiply states and show
nothing. Its variable `part` picks one at the start and the others rest in one state.

| Part | Instance | Shows |
|---|---|---|
| `goods` | 2 calls, 2 goods ids, 1 goods at the start, 2 categories, 2 brands of which the first may be deleted | `CatalogTypeOK`, `IndexAgrees`, `SearchIsTrue`, `ChecksHold` |
| `taxonomy` | 2 calls, 2 ids of each table, any rows at the start | `ChecksHold`, `OnlyCreateBrandAddsBrands`, `CatalogTypeOK` |
| `editing` | 4 tables, 2 calls, 2 rows, 2 fields, any rows at the start | `EditsKeepPromise` (refinement) |
| `accounts` | 3 registrations, 2 mobiles, 2 favourites | `RegisteredOnce`, `FavsAsAsked` |
| `pages` | 9 list lengths up to 205, 10 page sizes from -1 to 250 | `PagesPartition` |
| `service` | 2 processes, 2 ports, fair consul | `OneEntryPerPort`, `RunningIsListed`, `EntriesLeave` |
| `span` | 2 users of the stream, watcher, finalizer, fair | `FinishedOnce`, `SpanFinishes` |

Why the bounds are enough. Two goods are the least for a deadlock and three
handlers the least for a cycle with a bystander; two orders let a duplicate number
and a free one meet; a stock of 2 against requests for 1 and 2 units makes both
refusals and the exact last unit happen; `MaxConns = 3` lets all handlers run and
lets leaked transactions empty the pool. An amount of -1 in `inventory_ledger` is one that no
handler refuses: the ledger and `Conservation` hold with it, `NoOversell` does not, and so is
checked, and proved, for amounts that are not negative. Two calls are the least for a shared
order number, a shared cart or a shared last unit, and each hazard of the
checkout involves at most two calls; two numbers let both calls succeed. The
theorems do without bounds. `leaked` is bounded by `MaxConns` through `HasConn`; no
other variable counts without end. The symmetry sets permute sessions, calls,
orders and users, among which nothing is chosen; the liveness runs use none.

In `cart` three rows let a goods have twins while the other has a row; a row id is used
once, so a behaviour has up to three insertions, and the fourth waits (or fails). Amounts
1 and 2 tell an addition that is lost from one that is not. In `shop` a goods created and
one that was there are two ids; the part `goods` starts with a goods under the second
brand, so that `UpdateGoods` really moves it, and may delete the first category and
brand, which are the ones it looks for. Three registrations let a second one lose and a
third one come late. Two processes are the least that can follow one another on a port.
The page sizes and lengths are those around the limits 10 and 100 and around whole pages.
The theorems do without these bounds too.

Deadlock is checked in every run but `shop`: a process that has exited, a span that is
finished and a list of pages really stop.

Findings (`findings` in `PROJECT.json`):

* `SetInv` drops the error of its read; a failed read adds a second row that
  nobody reads, and the caller is told OK.
* `Sell` drops the error of its commit: the caller is told OK and nothing is deducted. The
  order that follows stands without stock, under a number that is still free.
* The broker's check-back takes an uncommitted order for a failed one and gives
  its stock back; the order then commits, and stands without its goods. The same
  happens when the query of the check fails (fault `check`).
* `OrderTimeout` never commits: no order is ever `TRADE_CLOSED`, its row stays locked
  and a connection is lost per timed-out order until the process dies.

Met while modelling, and shown by no run. Except for the first, one call on its own shows
each of them, so that an exploration of interleavings adds nothing:

* Two overlapping `CreateCartItem` of one goods leave it in the cart twice, against the
  handler's own comment (`order.go:45`); so does one whose read fails. `OneRowPerGoods` says
  that nothing else does, and names such a goods `torn`.
* `GoodsList` takes the number of a page for the number of hits to skip (`goods.go:115`): the
  first hit is on no page, and pages repeat each other's hits. `Pages` is about `Paginate`,
  which cuts every other list, and leaves this expression out.
* `DeleteGoods` says OK and deletes nothing (`goods.go:217`, `model/goods.go:128`).
* `UpdateBrand` loses the brand it is to modify (`brand.go:68`), with the goods and links that
  name it; `OnlyCreateBrandAddsBrands` holds all the same, as the saved row is deleted too.
* `UpdateAddress` cannot fill an empty field: it tests the stored field and not the request's
  (`address.go:69`). `EditPromise` takes that for what an edit of an address does, and speaks
  of edits that overlap.

Further limits show in which faults a run leaves out. With `sellcommit` an order stands
without stock and a number can be used twice (`inventory.go:85`): `OrderHoldsStock` and
`OrdersFitStock` fail under it, and `OrderWasDeducted` and `OneOrderPerNumber` except by name the
orders whose `Sell` was confirmed so (`unsold`), and no others. With `rpc`, a lost
answer of `Sell` leaves goods deducted for ever (the code's own todo,
`rockermq.go:93`); with `commit` a client is told OK of an order that is not there
(`rockermq.go:172`); with `flush` likewise, for an order that was never tried
(`order.go:129`). `ReplyMatchesOrder` fails under `commit` and `flush`, `StockIsAccountedFor`
under `rpc`, `commit`, `check`, `slow` and `discard`, so their run has none of these;
`OrderWasDeducted` and `OneOrderPerNumber`, with that exception, and `ErrorMeansNoOrder` hold
under all.

### Fairness

* `Inventory!FairSpec`: strong fairness of `Continue(s)` for each session. A goroutine
  is never abandoned (no handler has a deadline), and InnoDB grants a row's lock in
  order of arrival, so a session whose lock becomes free again and again gets it;
  weak fairness would let others pass it for ever. Calls and deliveries that start
  handlers are not fair.
* `Checkout!FairSpec`: weak fairness of each running call (nothing but the call
  disables its next step for good); strong fairness of a delivery that closes an
  order and of one that returns stock: the broker delivers until a consumer
  acknowledges, so a delivery that can succeed again and again does. Strong, because
  a failing send (`mq`) or a lost acknowledgement puts the message back each time.
  Check-backs, the cart and new calls are not fair. No fairness is assumed under
  faults that would make it a claim about luck (`crash`, `end`, `slow`): those are not
  in the liveness run.

* `Service!ServiceFairness`: consul goes on checking every entry, and removes the ones that
  stay critical; both are periodic tasks of the agent. Nothing is asked of the process:
  it need not get anywhere, or stop. `EntriesLeave` excepts an entry whose port another
  process answers, for which a check may pass and keep it.
* `ClientSpan!SpanFairness`: goroutines that can run do. Nothing is asked of the garbage
  collector, so `SpanFinishes` starts from the end of the stream or of its context; a
  stream that is dropped unread is finished only if a finalizer runs.

## 4. The proofs

`InventoryProofs` (from `InventoryAssumption`: requests name each goods once, amounts
are integers of any sign, `None` is no number):

* `TypeCorrect`, `ImagesAreFresh`, `RowsExist` hold under all faults; `ConfirmedSales` when no
  commit fails.
* `NeverOversold` holds under all faults when no request and no `SetInv` names a negative
  amount, which nothing in the code checks. It follows from `Refinement`'s step lemma: a step
  of the ledger leaves the stocks at zero or above (`LedgerStepAboveZero`).
* `Refinement`: `Spec => Ledger!Spec`, under all faults. A commit maps to the ledger's
  atomic `Sell` or `Return`, `SetInsert` / `SetUpdate` to `Set`, everything else stutters.
* `NothingIsLost` (`Conservation`: a sale or a return leaves the sum of what is in stock and
  what unreturned sales hold of every goods; any other step changes it for one goods at most)
  and `SomebodyGoesOn` (`WaitsEnd`), under all faults.

None of these is inductive: a commit writes an image computed several steps
before. The inductive invariant adds what ties an image to the present:
`RowImagesFresh` with the lock discipline (an image's row has one owner, and only
rows the loop has passed have images), that a session about to commit has an image for every item, that the session's
order number is still free (or still deducted) while it holds the row, and that
the goods of recorded orders have rows. The lemmas of `SellItemsProofs` (`NumOfItem`,
`GoodsOfType`) turn a position of a distinct list into a goods' amount.

Two results add an invariant each.

* `NothingIsLost` speaks of a sum over orders. `MapThenSumSet` is a recursive function whose
  value for an arbitrary finite set TLAPS cannot compute; `SellItemsProofs` proves what is
  needed of it by least counterexample (`LeastBad`: strict inclusion of finite sets is well
  founded): the sum exists (`SumExists`), does not depend on the element taken first
  (`SumTakes`), grows by a term with an element (`SumOfAdd`), and depends on the terms alone
  (`SumOfSame`). `HeldGrows` and `HeldShrinks` say this of the orders that hold goods. The
  invariant is that these are finitely many at any moment (`HeldFinite`), however many order
  numbers there are. Each step is then one of the ledger's (`StepRefines`).
* `SomebodyGoesOn` needs that handlers at work are finitely many (`FewWork`), that whoever
  blocks one is at work itself (`BlockersWork`), and for the rest is a statement about
  graphs: if everybody waits, take the least non-empty set whose members all wait for a
  member; none can be spared, so each of them blocks another, which is what `Deadlocked`
  looks for (`AllWaitingIsDeadlock`). `NobodyInTheWay` says what it means for a handler to
  wait for nobody: the rows and locks of its next statement are free.

`CheckoutProofs` (from `CheckoutAssumption` and `CatalogAssumption`):

* `TypeCorrect`, `SavedOrdersAreDeducted` (`OrderWasDeducted`) and `NumbersAreUnique`
  (`OneOrderPerNumber`) hold under **all** faults, with the exception their properties state:
  an order whose `Sell` was confirmed though its commit had failed.
* `RepliesAreTrue` assumes no failing commit and no `flush`; its half that matters for a
  client that tries again, `ErrorsLeaveNoOrder` (`ErrorMeansNoOrder`), holds under all faults.
* `StandingOrdersHoldStock` assumes that there is no `sellcommit`, `slow` or `check`, and
  nothing else: it holds with crashes, lost verdicts, lost answers and failing commits of
  orders.
* `ShopNeverOwesMore` (`OrdersFitStock`) assumes the same three, which it inherits, and that
  amounts are naturals: a negative order is room for another one.
* `DeductionsAreAccountedFor` (`StockIsAccountedFor`) assumes no `rpc`, `commit`, `check`,
  `slow` or `discard`; statements and sends may fail, verdicts may be lost and the
  process may crash.

The invariant `IInv` says that a call past `Sell`, unless it is `unsold`, has its number's row,
with its own goods, in the ledger (`ClaimsDeducted`, `ClaimedGoods`), that such a claim, running or
saved, is the only one of its number (`ClaimsExclude`, which rests on the unique
index: `Sell` needs status 0 and no action resets it), and that half and delayed
messages belong to calls that were started (`SentByCalls`). `StandingOrdersHoldStock`
adds `MessagesAreOfDead`: a message to AutoReback for a number that has not expired
is about a dead number, of which no call has an order or can still come to deduct;
this needs that timers do not overtake a running call. `DeductionsAreAccountedFor`
follows a deduction from hand to hand (`Accounted`): a call that orders, then a half
message that asks for the goods (`HalfAsks`: its call failed after `Sell` or died), then
a message to AutoReback. `RunningIsHalf` says that the half message of a running call
is still there for the crash that needs it. `ShopNeverOwesMore` joins three results: the
orders that stand hold their goods in the ledger (`StandingOrdersHoldStock`), each under a
number of its own (`OneOrderPerNumber`), and what the shelf has and what the ledger's orders
hold is always the first stock, under all faults (`Shelf`, by `HeldGrows` and
`HeldShrinks`). So `sn` maps the standing orders one to one into the orders that hold
goods, and their sum is part of that one (`PartOfSum`).

Without `sellcommit` no call is ever `unsold` (`UnsoldByFault`).

`CartProofs` (from `CartAssumption`): `CartTypeCorrect`, `OneRow`, `OrdersTake` and
`CartImplementsPromise`. The invariant `CartInv` adds to the first two what a call still
knows: as long as no other call has touched its goods, the struct it holds is the first
row of that goods plus what the request adds or sets, or a new row when there is none
(`FreshImage`); an order's amounts are those of the last checked rows (`GoodsNums`); and
two calls holding one id hold it for one goods. The refinement maps a goods to what
`First` finds of it; `SaveItem` of an untouched goods is the promise's `Add` or `Set`, of a
touched one its `Tear`; `DeleteCartItem` is `Remove`, a committed order `Settle`, all else
stutters.

`CatalogProofs` (from `TaxonomyAssumption` and `GoodsAssumption`): `IndexAgrees` is not
inductive, because a commit makes a row what a hook wrote into the index some steps
before. `CatalogInv` adds that an uncommitted call's document is its own (`Hooked`), that
an open or locked row has one owner (`OwnRow`), that copies of `Mysql2Es` are of goods that
stay (`CopiedStay`), that everything known of a goods names the category of its row
(`SameCategory`, from which `SearchIsTrueAlways` follows under all failures), and that what
a call not overtaken looked up is still there (`StillThere`). `BrandsComeFromCreateBrand`
follows from the actions and the types.

`RowsProofs` (from `EditingAssumption`, `AccountsAssumption` and `PagesAssumption`): `EditsAreAtomic` is a
refinement like the cart's, with the invariant that a call that is not shaken holds what
`Merged` makes of the row as it is.
`OneUserPerMobile` rests on the index alone, not on the read; `FavouritesAsAsked` needs
that no row of the favourites is ever in state deleted. `PagesArePartition` holds for every
number of rows and every page size: a later page starts where an earlier one has ended (`PagesApart`), and row *k* is on page
*(k - 1) div limit + 1* (`EveryRowHasAPage`).

`ServiceProofs`: two entries on one port need a dead process (`EntriesOfLivingProcesses`),
from the port's exclusiveness and that an exited process has no entry;
`LivingProcessesAreListed`. `SpanProofs`: `OneFinish`, from the fact that once the flag is
set exactly one goroutine is past its swap or the span is finished. Both for any number
of processes and goroutines.

Only model-checked: the liveness properties (`HandlersReturn`, `StockComesBack`,
`EntriesLeave`, `SpanFinishes`); TLAPS does not reason about ENABLED, which fairness is made
of. `SomebodyGoesOn` and `DeductionsAreAccountedFor` are the safe half of the first two:
somebody can go on, and somebody will give the goods back. Every other property of the
passing runs is proved.

## 5. What is left out, and why

* The width of amounts: they are `int32` in the code (`Num`, `Stocks`), and unbounded integers
  here. No amount in a request is checked, so one near 2^31 can wrap a stock around
  (`inventory.go:75` and 134); the models say nothing of such amounts.
* Prices, names, addresses, amounts of an order: no control depends on them.
* An empty or unparsable message body, and `Sell` / `AutoReback` with no connection to
  begin a transaction on: no state changes.
* A consumer callback is given one message (the client's batch size is 1); the loops
  of `AutoReback` and `OrderTimeout` return in their first round anyway.
* `Begin` is one step with the first read; a lock is taken by the statement, on the
  rows it names. Gap locks, which lock more, are not modelled: they add waits and
  deadlock victims, not outcomes.
* The error of `Save` at `inventory.go:76` is dropped. Its row is locked and its value
  fits, so it fails with the connection, and then line 80 fails too and the handler
  rolls back (`StatementFails`).
* `CreateInBatches` in more than one batch (over 100 goods): `stockselldetail.detail` is
  `varchar(200)` and refuses lists a tenth as long before.
* `ChangeCart` replaces the checked rows of a cart in one step and waits for a call
  that has deleted them and not committed (their rows are locked).
* The connections `OrderTimeout` leaks are not counted in `Checkout`.
* The broker moves a message to a dead-letter queue after 16 failed deliveries. The
  models let it be delivered for as long as it is not acknowledged.
* Lists, details and searches only read: `InvDetail`, `OrderList`, `OrderDetail`,
  `CartItemList`, the lists of goods_srv, user_srv and userop_srv, the password check. Of
  `GoodsList` the search by category and the second query are modelled, its other filters and
  its paging are not.
* `UpdateOrderStatus` binds no value (`order.go:213`) and always fails: a model of it has
  no step.
* The digits of an order number: numbers are compared for equality only.
* The fields of a category other than that it exists (`Taxonomy`): the parent is checked
  by nobody and no handler that writes looks at it. `CreateCategory` names no `url`; a
  database in strict mode refuses it, which is the action not happening.
* A read that fails, where the code answers "not found" and stops: nothing changes.
  Where it goes on (`CreateCartItem`, `CreateBrand`, `CreateUser`, `SetInv`, the check-back) it
  is modelled.
* A document Elasticsearch wrote though its answer was lost is written when the hook
  fails, not at an arbitrary later time.
* A signal, a panic and a crash of a process are one action (`Die`) in `Service`; what they
  do to calls under way is in `Inventory` and `Checkout` (`Crash`).
* The stream interceptor is library code of the repository that `order_srv` does not
  install (it has unary calls only). The unary client interceptor shares a variable between
  calls (`client.go:53`), but writes it only for a context with a gin context, which no
  service here makes. Both, and the server interceptor, start and finish a span in one
  goroutine.
* Messages of userop_srv (inserted and listed), migrations, start-up I/O, manual test
  clients: nothing in them interleaves or fails in a way that a model would show.
* Generated code (`*.pb.go`) is some 13,000 of the repository's lines, and the text of
  `otgrpc`, the start-up code and the configuration of five services are most of the
  rest that no definition stands for: a share of lines that counts them says little of how
  much of the program's behaviour is modelled.

## 6. Order of work

Written in this order, the most important behaviour first: `SellItems`, `StockLedger`,
`Inventory` and its proofs, `Checkout` and its proofs, `Cart` with its promise and its
proofs, `Taxonomy` and `GoodsIndex`, `Editing`, `Accounts`, `Pages`, `Service`, `ClientSpan`, and
their proofs.

What is left would add detail rather than reach: a composition of `Cart` with `Checkout`
(the first one's rows in place of `ChangeCart`), the connections that `OrderTimeout` leaks
counted against the pool, and `Inventory` with gap locks.
