# Zdrink: models, checks and proofs

Zdrink is a multi-shop ordering system for drink shops: a Django / REST
framework backend (`src/backend`, about 7,400 lines in `apps/`), a Vue 3
frontend (`src/frontend`) and a build diary (`src/docs`). Every shop is a
PostgreSQL schema (`django_tenants`). This directory holds a TLA+ model of the
parts whose correctness depends on what several requests do to the same rows,
the TLC instances that check it, and TLAPS proofs of all safety properties the
passing runs check.

Facts about the whole system that every module rests on:

* requests are served by a pool of workers; PostgreSQL runs READ COMMITTED;
  `ATOMIC_REQUESTS` is not set, so a transaction is exactly a
  `with transaction.atomic()` block (`zdrink_core/settings.py`);
* no handler uses `select_for_update()` or `F()`: each one reads a row into a
  Python object, changes attributes and `save()`s **all** columns;
* `save()` of an object whose row is gone inserts the row again;
* a written row stays locked until its transaction ends; a wait cycle is broken
  by PostgreSQL; foreign keys are checked at the commit;
* the `tests.py` files are empty: nothing below is covered by a test.

## 1. Inventory

| Component (backend app) | State it keeps | Operations that change it | What is hard | What makes it correct |
|---|---|---|---|---|
| **stock** (`products`) | `product_skus.stock_quantity`, `inventory_logs` | `adjust_stock`, `bulk_stock_update`, SKU edits; `create`, `cancel`, `create_quick_order` of the order apps | read-then-save of whole rows; clamp at zero; multi-row lock order | stock = what the committed requests amount to; the log tells the change |
| **orders** | `orders`, `order_items`, `order_status_logs` | `create`, `cancel`, `update_status`, PUT / PATCH of an order, the payment notice | status read before the transaction; several rows per request; any status from any status; changes of status without a log row | items leave stock with the order, return once with its cancel; the log is a chain but for the unlogged changes |
| **cart** (`orders` + `stores/cart.js`) | `carts`, `cart_items`; the cart on each screen | `my_cart`, `add_item`, `clear`, PATCH / DELETE of a line, `create` | `get_or_create` without a constraint; NULL in a unique key; lines read twice; client timeouts | one cart, one line per product; an order is for what leaves the cart |
| **pos** | orders, order items, `cash_registers`, tables | `create_quick_order`, `merge_orders`, `split_order`, `apply_discount`, shifts | moving and deleting rows others hold; saving an order fetched earlier | subtotal = sum of items; no item lost; payments stay |
| **payments** | `payment_transactions`, `refund_requests`, payment columns of orders | `create_payment`, provider notice, `refund`, `process` | repeated, late and lost notices; provider and tables out of step; refund numbers made of seconds; amounts of either sign | paid once; refunds within what was paid; recorded = done |
| **users** | points, level, `points_logs`, `recharge_records` | earn, consume, sign in, recharge, profile and password saves | check-then-act on a stale copy of the user row | earned = left + spent, never negative; the log explains the balance; one sign-in a day; the level fits the total |
| **printing** | printers, `print_templates`, `print_tasks`, `print_logs` | `print_order`, `auto_print_order`, `retry`, `test_print`, `status`, `set_default`, forms and deletions | ten seconds of network I/O between read and save; lost answers; paper before record; a unique key over a flag | what is recorded was printed; printed once; the default template stays; no switch and no deletion undone |
| **promotions** | `coupons`, `user_coupons`, promotions | `claim`, edits and deletions of coupons, direct changes of claims | counters on stale copies, limits counted outside the transaction | no more claims than coupons; the count tells the claims; one per user; a deleted coupon stays deleted |
| **shops**, **core** | shops, staff, settings; permission checks | CRUD | permissions | a request acts within its shop |
| **frontend session** | token, user, route | login, logout, 401 redirect | a 401 during other requests | no page without a session |

How they interact: the apps call each other as Python functions inside one
request (`create` writes stock, cart and order; a payment notice writes the
order) and otherwise meet only in the tables. There are no queues, no tasks and
no signals. The frontend meets the backend through axios with a ten-second
timeout (`api/request.js`) and keeps a copy of the cart (`stores/cart.js`).
The provider calls the backend back, until it is answered.

### Handlers that stop early at this commit

Some handlers use a name their module does not bind and answer 500 before
their first write:

* `OrderViewSet.get_queryset` prefetches `'payments'`, which is not a relation
  of `Order`: `cancel`, `update_status`, `retrieve`, PUT and PATCH of an order
  (`orders/api.py:137`);
* `create_quick_order` and `split_order` use `time` without importing it, and
  insert an order without its NOT NULL subtotal (`pos/services.py:25`, `:114`);
  `create_payment` and refund numbers call
  `datetime.time.time()` (`payments/models.py`); `refund`, `process` and the
  statistics of `payments/api.py` use unimported names; the sign-in uses
  `timezone` of `datetime`; `print_order` and the statistics of
  `printing/api.py` use `time`. A `retry` that succeeds needs `timezone`: it ends
  **after** printing and before its save.
* `apply_coupon` calls `Decimal`, which `promotions/api.py` does not import, and
  `available_coupons` filters by a field that does not exist. The app itself has
  its URLs but is not installed (`settings.py:131`): its tables do not exist.

The models describe what these handlers are written to do and take the set of
kinds that run as a constant: `OrderStock!Runnable`. A kind outside it is
received and ends in the action `NameError`. The runs take everything as runnable
(more behaviours), but for `stock_race`, in which the PUT of an order
(`edit_status`) stops. At this commit the kinds `create`, `notice` and those about
SKUs run to their end: the complement of `{"cancel", "update_status", "edit_status",
"edit_order", "quick_order"}`. `Payments` and `Points` have `Offered` for the same purpose: at
this commit only the notices run to their end in the first, spending,
profile saves and recharges below 100 (which give no points) in the second.
`Printing!Bound` says which of the names `time` and `timezone` are bound; the
run has both, this commit neither. `Coupons` describes the app once installed.

## 2. Modules

| Module | What it is |
|---|---|
| `StockBook` | abstract: an order takes its items from stock in one step, a cancel returns them in one step; of SKUs that are `loose` and orders that are `unsure` it promises less |
| `OrderStock` | the handlers that change the stock of a SKU or the status of an order, statement by statement, for a pool of workers; not the merge (`OrderMerge`), `split_order`, the DELETE of an order and the Django admin |
| `MCOrderStock` | its instances: kinds offered, symmetry |
| `OrderStockProofs` | theorems about `OrderStock` |
| `CartBook` | abstract: a cart, and orders that take exactly what it holds |
| `Checkout` | a customer's sessions (screen, timeout, retry) and the cart handlers, query by query |
| `MCCheckout` | its instances |
| `CheckoutProofs` | theorems about `Checkout` |
| `OrderMerge` | merging orders at the till against payment notices, with row locks and deferred foreign keys |
| `MCOrderMerge` | its instance |
| `OrderMergeProofs` | theorems about `OrderMerge` |
| `Payments` | transactions and refunds of orders against a provider that repeats notices, with the two saves of a notice apart |
| `MCPayments` | its instance |
| `PaymentsProofs` | theorems about `Payments` |
| `Points` | points, levels and sign-ins on a copy of the user, for users of several shops |
| `MCPoints` | its instance |
| `PointsProofs` | theorems about `Points` |
| `Printing` | printers, templates and tasks against a print cloud whose answers may be lost |
| `MCPrinting` | its instance |
| `PrintingProofs` | theorems about `Printing` |
| `Coupons` | coupons and their claims, with the row locks and unique keys of a claim |
| `MCCoupons` | its instance |
| `CouponsProofs` | theorems about `Coupons` |
| `Sums` | lemmas on sums over finite sets and greatest indices, as the folds of the community modules compute them; the proofs about totals cite them |

### OrderStock

`pc[w]` is where worker `w` is in its handler; `job[w]` the request it serves;
`oldStatus`, `line`, `seen` the Python locals; `savedOrder`, `holds`, `row`,
`entries` its open transaction: the locks it has and the rows it wrote. A read
returns `Visible(w, s)`, a write takes a lock, `Commit` publishes. Five kinds of
request are about an order that is there: `cancel`, `update_status`, `notice` (the
provider's notice, which makes it "paid" whatever it is), `edit_status` (a PUT or PATCH
with a status) and `edit_order` (a save of the whole row for another of its columns,
which writes back the status it was read with). Only the first two log. The kinds
share their steps:

| Step | Code |
|---|---|
| `Receive` | routing and validation of the request |
| `NameError` | see above |
| `Load` | `get_object()`, or `transaction.order` of a notice, **before** the transaction, with cancel's check of the status |
| `SaveOrder` | `order.save()` of these five: takes the row lock |
| `Read`, `Write` | for each line: fetch of the SKU, `stock_quantity` changed, `save()`, `InventoryLog` row if the kind logs |
| `Commit` | end of `atomic()`: stock, order, status log and inventory log become visible together |
| `DeadlockAbort`, `Fail` | PostgreSQL ends a wait cycle; process, connection or a later lookup fails |

Six history variables say what should have happened. `ledger` is the stock had
each committed request been applied, whole, to the one before; `due` is the
same for a transaction in progress. `contended` holds the SKUs that some commit
changed while another worker had read them and was still to save them, `raced`
the orders in the same position, `marked` the orders that a status change, and not
`cancel`, made "cancelled", `unlogged` the status changes that left no row in the
log. No action reads them for its guard.

`Quantities` are naturals, zero included: `OrderItem.quantity` is a
`PositiveIntegerField`. `Amounts`, what an edit of a SKU or a bulk update writes, are
any integers: `stock_quantity` is an `IntegerField` without a validator
(`products/models.py:180`). `Settable` are the statuses that forms are used to set.

Abstracted: names, prices, addresses, images; `create`'s lines from the cart
and from data are the same steps on stock; an edit of a SKU's other columns is
`edit_price`. Order numbers are unique and never collide.

### Checkout

`ask[s]` is the request session `s` waits for, `view[s]` the cart it shows.
`Wishes` is what the screens let a customer do; `FollowUp` is what the store
sends on its own after an answer (`fetchCart` after a change, `clear` after an
order); `GiveUp` is the axios timeout, after which the handler goes on for nobody.
On the server `FindCart`/`NewCart` are the two queries of `get_or_create`,
`FindLine`/`InsertLine` those of `CartItem.get_or_create` with the retry on
`IntegrityError` (`again`), `SaveLine` the whole-row save that may insert a
deleted line again, `ReadOrder`/`Collect`/`DeleteLines` the two readings of the
cart in `create`. `Clashes` is the unique key with a NULL in it, `Imageless`
the products for which the answer raises and rolls the line back.

Two histories, read by no guard: `rushed` says that a cart was made after another
handler had found none, too; `contended` holds the products whose lines a step
changed (`Touched`) while another handler had looked at them and was still to insert,
save, or take an order out of the cart (`InHand`).

### OrderMerge

`orders` and `items` are the committed tables, `orderRows[w]` and `itemRows[w]`
what an open transaction has written (`None`: deleted). `Fetch` reads the main
order before the transaction; `NextOrder`, `Move`, `Wipe`, `Drop` are one turn of
the loop (get, move its items, cascade, delete); `Sum` and `Save` are
`_recalculate_order_amount`; `Commit` checks foreign keys. `Store` is the
payment notice's `order.save()`, its own transaction. `Deleters` is the wait of a
foreign key check for a transaction that is deleting the referenced row. A
payment notice may come for every order; every item costs 1, discounts stay.

Two histories, read by no guard, say which orders were committed in somebody else's
hands (`Crossed(w, v)`): an order whose row or items `w` commits while `v` has read it
and is still to use it, or an order to which `w` commits an item that `v` has fetched
for moving and not yet saved. Both are conditions on the interleaving at the moment of
`w`'s commit, whatever comes of it later. `contended` collects these orders for good,
since what a lost update leaves in a row stays there; `overtaken[v]` only those of the
request `v` is serving.

### Payments

The provider has variables of its own: `open` (payments it has been asked for),
`captured` (paid by the customer), `notices` (captured payments it still reports)
and `back` (what it refunded) and `used`. A refund carries the second it is asked for in
as its number (`payments/services.py:197`), and a provider pays one refund of a
number: `used` says that a refund has the number of this second, `Tick` is the next
second, and a refund in a second that is used may be answered with the one before or
refused (`Repeats`). The tables are `paid` (the order column), `txns`
and `requests`; `pc`, `job`, `row` are a handler's place, request and the
transaction it fetched. A kind of request is a path through the steps, given by
`FirstStep` and `After`:

| Kind | Steps | Code |
|---|---|---|
| `pay` | `Check`, `Prepay`, `CommitPayment` | `create_payment`: an order with a paid transaction is refused; the provider is asked; the row is inserted at the commit |
| `notice` | `FindTransaction`, `MarkTransaction`, `SettleOrder`, then `Acknowledge` | the callback: `get(out_trade_no=...)` raises unless there is one; two saves, no transaction |
| `request` | `InsertRequest` | a refund request |
| `refund` | `Load`, `Call`, `Record`, `LogRefund` | `refund`: checks `Refundable` on the fetched row, calls the provider, then saves the sum |
| `approve`, `reject` | `Load`, `SaveRequest`, `Call`, `CompleteRequest`, `Record` | `process`: any status, no check of the amount |

`Refundable` checks the amount from above only, as the code does, and `Refunds` may
hold negative amounts: WeChat refuses them, the till records them and hands out
nothing.

`out_trade_no` is the order number, so `TransactionsOf(o)` may be two rows. The
customer can pay (`Capture`) only once the answer of `create_payment` has arrived.
Cash refunds have no provider and always succeed. `Fail` ends a handler between any
two steps; `MaxFailures` bounds it. Histories: `slipped` holds transactions
refunded while another handler had their row in hand, or whose refund was cut off
before its save; `unchecked` those paid out by `process`; `shared` those refunded
under a number that was used; `lowered` those refunded by a negative amount.

Simplifications: one notice of a payment at a time (WeChat waits for an answer before
it repeats one; the code does not insist), and transactions are not deleted, although
a merge at the till deletes the listed orders with theirs.

### Points

A request fetches its user when it is authenticated (`Receive`): `seen[w]` is
`request.user`. `LookUp` is the sign-in's query of the log. `Earn`, `Consume` and
`SaveProfile` change the copy and save it whole, with the log row, in one
transaction that reads nothing but level configurations: one step. `Upgrades` is
the loop over the levels of `check_membership_upgrade`. Users and logs are shared
by all shops, level configurations are a shop's. `now` counts half days:
`Local` and `Utc` are the dates Django compares in the sign-in, which agree only
from eight o'clock on (`TIME_ZONE = 'Asia/Shanghai'`, `settings.py:158`).
`contended` holds users that one request committed while another had a copy.
What a recharge gives (1.5 points per unit from 100 on) is a member of `Amounts`.

### Printing

No handler but `set_default` has a transaction: every statement commits on its
own. `read[w]` is the row fetched first, `paper` what the cloud has printed per
printer and task, whether or not anybody was told. A kind of request is a path:

| Kind | Steps | Code |
|---|---|---|
| `order`, `kitchen`, `both` | `Receive`, `Send`, `Record`, `Log` | `print_order`: prints, then inserts the task, then the log row |
| `auto` | (`NextPrinter`, `Send`, `Log`) for each printer | `auto_print_order`; a printer without a service ends the loop |
| `test` | `Send`, `Log` | `test_print` |
| `retry` | `Send`, `SaveTask` | `retry`: checks the status of the row it fetched, prints, saves that row |
| `patch_task`, `patch_printer` | `SaveTask`, `SavePrinter` | the generic forms |
| `status` | `Poll`, `SavePrinter` | asks the cloud, saves the printer it fetched |
| `set_default`, `patch_default`, `patch_active` | `SaveTemplate` | clears the others, if `set_default`, and saves, under `Unique` |
| `create_template` | `Clear`, `SaveTemplate` | `perform_create`: two statements |

`CreateTask`, `DeleteTask`, `DeletePrinter` and `DeleteTemplate` are single
statements, with `Cascade` for what goes with the row. `Send` has three outcomes:
printed, refused, or printed with the answer lost. `Blank` is the empty content
`_render_template` returns for any template, which the cloud has nothing to print
of and which NOT NULL columns refuse: **automatic printing records something only
where there is no default template**, and the first part of a print of "both"
always ends the handler. `Unique` is checked row by row, as PostgreSQL does
for a constraint that is not deferred: two rows at most, with different flags, so
`set_default` always fails once there are two.

Histories: `raced` holds rows one handler had while another wrote them, `doubted`
tasks whose print the handler could not save, `edited` tasks whose status was set
by hand, `owed` says that a default template was there and nobody took it away.
All templates are of the type `order`; the network and USB services, which the
factory never returns, are left out.

### Coupons

`read[w]` is the coupon fetched first. A claim is `ReceiveClaim` (fetch and
`is_available`), `Count` (the user's claims against `limit_per_user`), and then one
transaction: `Insert` (waits for and checks the unique key of user and coupon),
`Save` (locks the coupon's row), `Commit`. An edit is `ReceiveEdit` and `Edit`; a
coupon's `used_quantity` is read-only in its form and saved as it was read. `Delete`
takes the claims along. `Give`, `Move` and `Discard` are the POST, PATCH and DELETE
of a user's coupon, none of which looks at the coupon. `counted` is the number of claims
committed; `raced`, `given`, `lowered` hold coupons that were committed behind a
handler's back, were claimed directly, or had their total set below the count.

## 3. Runs

Bounds are constants of each module and named `Max...`; `CHECK_DEADLOCK FALSE`
everywhere because the bounds on requests let the system come to rest. `TypeOK` is
checked for `Checkout` and proved for all modules.

| Run | Instance | Checks |
|---|---|---|
| `stock_race` | 2 workers, 2 SKUs, 2 orders, all kinds, quantities 0 and 1, stock set to -1 and 1, 3 requests, 1 failure, 2 lines | `DriftNeedsContention`, `OrderMovesItsStock`, `OnlyOrdersOversell`, `LogTellsTheChange`, `ImplementsBook` |
| `requests_end` | `FairSpec`, 2 workers, 1 order, 2 SKUs, create / cancel / update_status / notice / edit_status / bulk_set, 4 requests, 2 lines, no failures; quantity 0, so that states do not differ by their stock | `CancelRestocksOnce`, `TrailIsChain`, `EveryRequestEnds` |
| `stock_lost_update` | 2 creates | violates `StockMatchesLedger` |
| `cart_one_worker` | 2 sessions, 1 worker, 3 products (a SKU, one without, one without an image), 4 requests started by the customer, 1 timeout, 1 failure | `ImplementsCart` |
| `cart_sessions` | 2 sessions, 2 workers, a SKU and a product without, no cart yet, 3 requests, 1 timeout, 1 failure, `FairSpec` | `TypeOK`, `SecondCartNeedsRush`, `SecondLineNeedsContention`, `LostLineNeedsContention`, `EverySessionRests` |
| `cart_lost_line` | 2 sessions, 2 workers | violates `OrderTakesTheCart` |
| `merges` | `FairSpec`, 2 workers, 2 orders, 2 items, lists of 2, 2 requests, 1 failure | `SubtotalsNeedContention`, `LossNeedsContention`, `PaidStaysPaid`, `EveryRequestEnds` |
| `payments` | `FairSpec`, 2 workers, 1 order, 2 transactions, 2 refund requests, price 2, refunds of -1, 1 and 2, 3 requests, 1 repeated notice, 1 failure | `RecordTellsRefunds`, `RecordIsCovered`, `CompletedWerePaid`, `RefundsWithinPrice`, `PaymentRecorded` |
| `points` | 2 workers, 1 user, 2 shops with different scales, 4 requests of any kind, 3 half days, any number of failures | `AccountsAddUp`, `LogExplainsBalance`, `OneSigninADay`, `LevelFitsTotal` |
| `printing` | 2 workers, 2 printers (one with a service), 2 templates, 2 tasks, 3 requests of any kind, 1 lost answer, 1 failure | `LogsAreCovered`, `CompletedWerePrinted`, `PrintedOnce`, `DefaultKept`, `SwitchesAreAsked`, `DeletedStaysDeleted` |
| `printing_set_default` | 1 worker, 2 templates, 3 requests about templates | violates `SetDefaultWorks` |
| `coupons` | 2 workers, 3 users, 2 coupons, totals and limits of 1 or 2, 4 requests, 1 failure | `CountTellsClaims`, `RowLooksSound`, `IssuedWithinTotal`, `DeletedLeavesNothing`, `NoSecondCoupon` |

What they show:

* **The only way stock drifts is a save over a stale read.** Multi-item orders,
  repeated SKUs, rollback, the clamp, deadlocks and crashes never do it
  (`DriftNeedsContention`), so with one worker nothing does (`StockMatchesLedger`,
  proved). With two workers two creates are enough to lose an update
  (`stock_lost_update`).
* **The handlers implement `StockBook`, however many workers there are**: an order
  and its cancel move the stock of an uncontended SKU by exactly its items, in the step
  that shows them (`OrderMovesItsStock`, `ImplementsBook`). The abstraction lets go of
  the stock of contended SKUs (`loose`) and of the status a cancel finds on raced orders
  (`unsure`), and of nothing else: not of the order's items, not of how often they
  went back.
* **Stock below zero** comes from orders, which take what is not there, or from a
  number somebody filled in: an edit or a bulk update takes any integer
  (`OnlyOrdersOversell`, of uncontended SKUs).
* **A cancel returns the items once** for every time the order was open, unless two
  requests about the order overlapped (`CancelRestocksOnce`). Reopening a cancelled order
  takes nothing from stock, so its second cancel adds the items a second time, and
  reopening leaves no row in the status log if a late payment notice or a PUT does it. An
  order that a status change, and not `cancel`, makes "cancelled" gives nothing back.
  The status log is a chain that ends in the order's status but for these unlogged
  changes, each of which breaks it once at most (`TrailIsChain`).
* **The inventory log** tells what a logging request did (`LogTellsTheChange`),
  but not what a decrease did that stopped at zero, and nothing of what orders do:
  `create` and `cancel` write no row (`orders/serializers.py:269`,
  `orders/api.py:255`), although `README.md:22` promises a log of stock changes.
* **The cart** is right when handlers do not overlap, whatever two sessions do
  and whatever they do not wait for (`cart_one_worker`). When they overlap, a second
  cart is made only by two first visits at once (`SecondCartNeedsRush`); after it
  every look at the cart fails. A SKU never has two lines; another product has two
  only if two handlers were at its lines at once (`SecondLineNeedsContention`). An
  order deletes a line it does not contain, or contains what it does not delete, only
  of such products (`LostLineNeedsContention`; `cart_lost_line` shows the loss). A
  late answer and a second submission lead to an order for nothing: `create`
  accepts an empty cart.
* **A merge** keeps the subtotals of orders that exist, and their record of being paid,
  except those of orders that some request has committed in another's hands (`contended`, for good): read by the other
  and still to be used, or given an item the other had fetched. Of a merge that meets
  no such commit itself (`overtaken`), items disappear only if it lists its own main
  order: the items of the main order, those already moved into it from other orders
  included, are deleted with it and the order is inserted again, empty. A merge that
  deletes a paid order deletes its payment with it; `PaidStaysPaid` is about orders
  that are still there.
* **Payments**: two refunds in one second have one number. The provider pays one of
  them and both may be recorded and completed, and this is the only way in which the
  record comes to say more than the provider did: without it (`shared`) no overlap,
  crash or negative amount does it (`RecordIsCovered`, `CompletedWerePaid`). The record
  says less when handlers of a transaction overlap, when one dies between the provider's
  answer and the save, or when a negative amount is recorded (`RecordTellsRefunds` is
  about the others). The check in `refund` keeps what goes back within the price
  except across an overlap, a `process`, which checks nothing, or a negative amount,
  which makes room for more (`RefundsWithinPrice`).
  A captured payment is recorded in the end although a crash separates
  transaction and order, because the notice is repeated; unless the order has a
  second transaction, on which `get()` raises each time. (Fairness takes WeChat to
  repeat for ever; it gives up after a day.)
* **Points**: a stale save loses points but never unbalances an account: a copy is
  checked, changed and saved as a whole (`AccountsAddUp`, proved). A save of the
  changed columns alone, the usual repair, would break this (the mutant
  `SavedColumns`); it has to come with `F()` or a lock. Before eight in the
  morning the sign-in looks for yesterday's date in vain: it can be
  repeated, or is refused for yesterday's.
* **Printing**: what is on record was printed, whatever overlaps or is lost
  (`LogsAreCovered`, `CompletedWerePrinted`). The converse is false: paper comes
  first, so a crash, a lost answer or a deleted row leaves paper nobody knows of, and
  a second retry prints it again. `PrintedOnce` says that nothing else does. A
  deletion or a switch of automatic printing is undone only by a handler that had
  the row across its network call. `unique_together` (`printing/models.py:102`)
  lets at most two templates of a type exist, and of two, no request can make the
  other one the default: both ways through `set_default` break the constraint at one
  of their statements. So `set_default` does not do what its comments say
  (`printing_set_default`; `DefaultIsStuck`, proved, is the reason).
* **Coupons**: a stale count loses claims, so more coupons may be out than issued, but
  the row never looks wrong (`RowLooksSound`): it shows that there are still some left.
  The unique key, not the check of `limit_per_user`, is what keeps a user from
  a second coupon, and it keeps every limit above one from being reached. A deleted
  coupon takes its claims along and comes back, without them, only if a claim or an
  edit had it in hand (`DeletedLeavesNothing`). A coupon of which all are out is
  labelled available to those who hold it (`promotions/models.py:94`), but
  `is_available` is false of it, so that it gives no discount; the discount is not
  modelled.
* **Nothing hangs**: with deadlock detection every request ends, every
  session comes to rest.

Why the bounds are enough: each hazard involves two overlapping handlers, so
two workers; lock cycles and partial writes need two rows, so two SKUs or
lines; a drift needs two commits, of an order and its cancel three, and `stock_race` has
three requests.
Merges race when they list each other's main order, their own, or the same one, so
two orders and lists of two. Reopening an order and cancelling it again takes four
requests, which `requests_end` has. A cart that goes wrong needs two first visits or two adds, and has keys for
three lines, as many as the customer can ask for. A refund race, and a second that has two refunds, need
two handlers and one transaction; a negative refund that makes room for too much needs
three; a refused notice two transactions of one order. A lost or doubled point needs two
requests of one user, a level that is taken away two shops. A double print needs
two requests after the one that made the task, and tasks are there initially; the
unique key of templates admits two rows at most. More coupons than issued need two
claims of the last piece, a third user one more. Symmetry is used for safety only; the
sets it permutes enter the modules only through equality and quantifiers.

Fairness: `WF(Serve(w))`, a worker process that can execute its next statement
does so (the operating system schedules it; an `Idle` worker is not obliged to
receive in `OrderStock` and `OrderMerge`). `SF` on the steps that need a row
lock: PostgreSQL queues lock waiters, so a lock that is free again and again is
obtained. `SF` on `Deliver`: WeChat repeats a notice until it is answered SUCCESS,
so one that finds a free worker again and again is taken. Nothing obliges a
customer to act, or a failure to happen. In
`Checkout` receiving is part of `Serve`: the server accepts what is sent.

Each property is paired in `PROJECT.json` with a mutation of a definition of
the model (marked `Mutant` in the modules: a forgotten clamp, a lookup by the wrong
key, a log written after the assignment, ...) under which TLC finds it violated.

## 4. Proofs

Every invariant, action property and refinement of the passing runs is a theorem:
the runs show them on small instances, the theorems for every value of the
constants. `ImplementsCart` is proved under the hypothesis that there is one worker, as its run
has it; the others for any number of workers, most of them with a history of the
overlaps in their statement. Each proof is the
same three steps: the initial states satisfy an inductive invariant, every action
keeps it, it implies the property.

`OrderStockProofs` proves, for any sets of workers, SKUs and orders, any
quantities, any kinds offered and runnable, and any bounds:

| Theorem | Statement |
|---|---|
| `TypeCorrectness` | `Spec => []TypeOK` |
| `NoDriftWithoutContention` | `Spec => []DriftNeedsContention` |
| `OneWorkerKeepsStock` | with at most one worker, `Spec => []StockMatchesLedger` |
| `TrailChained` | `Spec => []TrailIsChain` |
| `CancelledOnce` | `Spec => []CancelRestocksOnce` |
| `OrdersMoveStock` | `Spec => OrderMovesItsStock` |
| `OversellingIsByOrders` | `Spec => OnlyOrdersOversell` |
| `LogsTell` | `Spec => LogTellsTheChange` |
| `HandlersImplementBook` | `Spec => ImplementsBook` |

Assumptions: those of `OrderStock` (`QuantitiesAssumption`: quantities are
naturals; `AmountsAssumption` and `InitialStockAssumption`: numbers set by hand and
the stock at the start are integers; `SettableAssumption`: forms set statuses there
are; `NoneAssumption`: `None` is not an order; `KindsAssumption`; `BoundsAssumption`),
evaluated by TLC in every run.

* `TypeInv` is `TypeOK` and `HandlerOK`: `TypeOK` alone is not inductive
  because a step reads `job[w].lines[line[w]]`, so one needs that a worker at `read`
  or `write` has a job and that `line[w]` is in its range.
* `StockInv` adds to `DriftNeedsContention` that a SKU row is locked by one
  transaction at most (`LocksOK`), that on uncontended SKUs a read in hand equals
  what a fresh read would give (`ReadsFresh`), and that what is about to be
  committed is what the ledger is about to hold (`WritesDue`). `ReadsFresh` is
  kept by `Commit` because a commit under a read puts the SKU in `contended`.
* `OneWorkerKeepsStock` adds that `contended` stays empty: no second worker
  can have read.
* `OrderInv` is the same argument for order rows: an order being created is
  seen by its creator only (`OwnersOK`), saved orders are locked (`OrderLocksOK`),
  a status in hand is the committed one unless the order is raced (`StatusFresh`),
  targets of requests (`TargetsOK`), fresh orders are blank (`AbsentOK`). A row more in
  the log, or in `unlogged`, is one reopening more if it is one (lemma
  `ReopeningsGrow`). A change that is logged leaves the gaps of the log as they are,
  one that is not adds one at most (lemmas `GapsLogged`, `GapsSilent`).
* `EffectInv` follows a handler through its lines. `EffectOK`: its transaction has
  locked exactly the SKUs of the lines done so far (`Done`), and of an uncontended one
  it sees what these make of the committed stock: `Took` is the relation of the two for
  requests that add or take, `Sets` says that a number set by hand is that of one of the
  lines. `JobOK`: a cancel has the lines of its order, other requests about an order have
  none. At the commit all lines are done, which gives `OrderMovesItsStock` and the step
  of `StockBook`, for any number of workers: a commit is its order, its cancel, its
  change of status or its adjustment, every other step a stutter. Contended SKUs are
  `loose` in the step that makes them so, which is why the abstract step asks nothing
  of them, before or after.
* `TellInv` says the same of the log rows in a transaction: they tell what it makes
  of an uncontended SKU (`Tells`), up to the decrease that stops at zero, and it
  holds the lock of every SKU they are about.

`CheckoutProofs` proves, for any sessions, products, quantities and bounds:

| Theorem | Statement |
|---|---|
| `TypeCorrectness` | `Spec => []TypeOK`, for any workers |
| `SecondCartsExplained` | `Spec => []SecondCartNeedsRush`, for any workers |
| `SecondLinesExplained` | `Spec => []SecondLineNeedsContention`, for any workers |
| `LostLinesExplained` | `Spec => LostLineNeedsContention`, for any workers |
| `OneCartSolo` | with `Workers = {w}`, `Spec => []OneCart` |
| `OneLineEachSolo` | with `Workers = {w}`, `Spec => []OneLineEach` |
| `OrderTakesTheCartSolo` | with `Workers = {w}`, `Spec => OrderTakesTheCart` |
| `ImplementsCartSolo` | with `Workers = {w}`, `Spec => ImplementsCart` |

`TypeInv` adds what a handler has at each step (`HandlerOK`) and that requests are
well formed (`AsksOK`).

For handlers that overlap: `RushInv` says that who has found no cart finds the customer
without one until there was a rush. `OverlapInv` is about lines. `KeysInv`: keys are
drawn once, so whatever is saved under a key, also over a line that is gone, is for
the same product of the same cart. `LinesInv`: lines alike are of contended products
without a SKU. `HandFresh`: what a handler has looked at of an uncontended product, be
it that there is no line, a row or the lines of the cart, is still so. It is kept by
the steps of others because a step that changes a line of a product in somebody's
hands makes it contended (`ChangesTold`), and one that does not leaves the
product's lines and their sum as they were (`Still`, lemma `StillLines`); and every
step leaves lines that were there or one more that is allowed (`StepLines`).

The one-worker theorems need their hypothesis (section 3). It is about handlers, not
about customers: sessions still time out, repeat and send without waiting, so
requests arrive in any order. `SoloInv` says that there is one cart at most
and the lines are its lines (`CartsOK`), that no two lines have a product
(`LinesApart`), that screens and requests name carts there are (`ScreensOK`), and
that what the handler has seen is still so (`HandOK`): the line it is to save is the
row, what it has collected is what the cart holds, it never comes to `again`. The
refinement needs that tables which differ in one line hold the same but of its
product (`Differs`, lemma `HeldChanges`).

`PaymentsProofs` proves, for any workers, orders, transactions, requests, price and
amounts:

| Theorem | Statement |
|---|---|
| `TypeCorrectness` | `Spec => []TypeOK` |
| `RecordsCovered` | `Spec => []RecordIsCovered` |
| `CheckedRefundsWithinPrice` | `Spec => []RefundsWithinPrice` |
| `RecordsTell` | `Spec => []RecordTellsRefunds` |
| `CompletedPaid` | `Spec => []CompletedWerePaid` |

* `TypeInv` adds to `TypeOK` what a handler has at each step (`HandlerOK`: the
  rows its request names exist, it has fetched one exactly when it needs one) and
  that refund requests are about existing transactions (`ForeignKeys`).
* `CoverInv` adds that also the row in a handler's hands is covered by what
  the provider gave back, **with** the amount it has just obtained (`RowsCovered`), but
  for transactions that are `shared`. It survives every overlap because `back` only
  grows.
* `PriceInv` says that on transactions nobody overlapped and no negative amount was
  asked of (`Settled`) the record and the refund in flight are all that went back, or
  more than that if a number was used twice (`Tells`), that a handler past its check has
  room for its amount (`Checked`), and that no money moves before a
  transaction's row is there (`Fresh`). `RecordTellsRefunds` is this, with the sum
  in flight split off the handlers there are.
* `KeysInv` says that a handler that files a request has a key of its own, not in
  the table yet (`Unshared`, `Filed`), and that one that processes a request sends
  what its row says (`Described`).
* `PaidInv` says that for each transaction that is not `shared` some set of request keys, with an amount
  each, covers every request that is completed and every handler that has sent its
  money and is still to say so (`Claim`), and that its sum is within `back`. A set
  and not a count, because two handlers may process one request: the key is
  paid twice and claimed once.

`PointsProofs` proves, for any finite set of users (`UsersAssumption`), any level
configurations and amounts:

| Theorem | Statement |
|---|---|
| `TypeCorrectness` | `Spec => []TypeOK` |
| `AccountsKept` | `Spec => []AccountsAddUp` |
| `LogTellsBalances` | `Spec => []LogExplainsBalance` |
| `SigninsOnce` | `Spec => []OneSigninADay` |
| `LevelsFit` | `Spec => []LevelFitsTotal` |

* `AccountsInv` adds that every copy in a handler's hands adds up (`CopiesAddUp`):
  whichever copy is saved last, the row does too.
* `LogInv` is the three other properties and what keeps them: the copy of a user
  nobody overlapped is the row (`Fresh`), no row of the log is from the future
  (`Dated`), and what the sign-in's look-up found stays true until its save, from
  eight o'clock on (`Looked`). A commit with another copy about puts the user in
  `contended`. `Sound` is what a handler's change has to satisfy, `Recorded` what
  its commit does; one lemma for each property joins the two.

`PrintingProofs` proves, for any finite set of workers (`WorkersAssumption`), any
printers, templates, tasks, any names bound and kinds offered, types, the six
properties of the run `printing`, and why `set_default` fails:

| Theorem | Statement |
|---|---|
| `TypeCorrectness` | `Spec => []TypeOK` |
| `NoPhantomSuccess` | `Spec => []LogsAreCovered` |
| `NoPhantomCompletion` | `Spec => []CompletedWerePrinted` |
| `PrintedAtMostOnce` | `Spec => []PrintedOnce` |
| `DefaultStays` | `Spec => []DefaultKept` |
| `DefaultStuck` | `Spec => DefaultIsStuck` |
| `SwitchesAsked` | `Spec => SwitchesAreAsked` |
| `DeletedStays` | `Spec => DeletedStaysDeleted` |

* `TypeInv` adds to `TypeOK` what a handler has at each step (`HandlersOK`).
* `CoverInv` counts, per printer and task, the handlers that have printed and are
  still to log (`Unlogged`): log rows and those together are covered by the paper.
  Hence the finite set of workers.
* `ProvedInv` says that also a status a handler has read, or is about to write, is
  "completed" only if there is paper.
* `Unique(templates)` is an invariant because every write checks it; two rows with
  different flags leave no order in which both can change.
* `FreshInv` is the argument about stale copies: a row in a handler's hands equals
  the table's unless it was raced (`HandFresh`), and two handlers have no row
  in common unless it was raced (`Apart`). Action properties follow from it.
* `OnceInv` says that a task that may be printed again was not printed, whether its
  row (`RowOnce`) or a handler (`HandOnce`) would allow it.

`CouponsProofs` proves, for any finite set of users (`UsersAssumption`), any workers,
coupons, terms, totals and limits, types and all five properties of the run:

| Theorem | Statement |
|---|---|
| `TypeCorrectness` | `Spec => []TypeOK` |
| `RowsLookSound` | `Spec => []RowLooksSound` |
| `CountsTellClaims` | `Spec => []CountTellsClaims` |
| `IssueKept` | `Spec => []IssuedWithinTotal` |
| `DeletedGone` | `Spec => DeletedLeavesNothing` |
| `OneCouponEach` | `Spec => NoSecondCoupon` |

* `RowInv` adds that every copy of a claim has room for one more (`CopiesAvailable`).
* `CountInv` adds that a copy in hand equals the row unless the coupon was raced
  (`CopiesFresh`); `CouponInv` that no more users hold a coupon than claims were
  committed (`HoldersCounted`). With `RowInv` this gives `IssuedWithinTotal`.
* `NoClaimsOfDeleted` says that claims are of coupons there are: the foreign key of a
  claim and the cascade of a deletion.
* `KeysFree` says that keys inserted are free and one worker's only: the unique
  index as the claims use it.

`OrderMergeProofs` proves, for any workers and orders, any finite set of items
(`ItemsAssumption`) and lists of any length:

| Theorem | Statement |
|---|---|
| `TypeCorrectness` | `Spec => []TypeOK` |
| `PaymentsStay` | `Spec => PaidStaysPaid` |
| `SubtotalsStay` | `Spec => []SubtotalsNeedContention` |
| `LossesExplained` | `Spec => LossNeedsContention` |

* `TypeInv` adds that an order stands at `next[w]` of the list while it is merged.
* `PaidInv` says that a row is locked by one transaction (`LocksApart`), and that the
  order a handler fetched, and later the row it is about to commit, know of the
  payment unless the order is contended (`PaymentKnown`). A commit under a read
  makes it contended; a commit under a written row is kept off by the lock.

* `RowsInv` says that an item is written by one transaction and moved only into its
  main order; `FreshInv` that an order a handler has fetched is as it was read
  unless it is contended: so an order that is gone and uncontended is never inserted
  again (lemma `GoneForGood`).
* `VisitedInv` says that the orders of the list a merge has passed were deleted by
  it, gone already, or contended.
* `HandInv` says where the items are that a merge has fetched or written: in an order it
  lists, deleted, or in an order of `overtaken`. This is what excludes that an order
  loses an item to a merge that does not list it, unless the item was moved there
  under that merge's eyes.
* `SubtotalInv` adds that between sum and commit the sum in hand is that of the items
  the commit will leave in the main order, unless it is contended: items come to an
  order only by its own merge and leave it only with a lock on it.
* `LossInv` says of every item a transaction is about to delete where it was: in an
  order of `overtaken`, or in one of a list with its main order in it.

`Sums` is the part the proofs about totals share. The folds of the community modules
(`FoldSet`, `MapThenSumSet`) are recursive functions on the subsets of a set, and the
library's induction theorems cannot be instantiated here; `LeastSet`, a
least counterexample from the well-foundedness of the strict subset relation
(`FS_StrictSubsetOrderingWellFounded`, `WFMin`), takes their place. From it:
such a function exists (`SumExists`), is an integer or natural, does not depend on the
order in which elements are picked (`SumRemove`), and agrees where the values do
(`SumAgree`). `Pieces`, `Money` and `Moves` are these sums for quantities of lines,
amounts of refunds and changes of stock. For the same reason the modules sum over sets
of indices and do not filter sequences (`SelectSeq` is recursive).

Only model-checked:

* liveness (`EveryRequestEnds` in `requests_end` and `merges`, `EverySessionRests`,
  `PaymentRecorded`): it depends on fairness and `ENABLED`;
* that the hypotheses about overlaps are needed: `stock_lost_update` and
  `cart_lost_line` exhibit the interleavings;
* that `set_default` fails (`printing_set_default`): the theorem says why.

## 5. Not modelled

* `split_order`, which can never commit, and `apply_discount`, reached only from
  `create_quick_order`. Tables (their endpoints import a module that does not
  exist), shifts and reports of the till.
* Printing: statistics, listings, the services the factory never returns.
* Promotions: `PromotionService` and the rules for automatic coupons, which have no
  caller; creation of coupons and edits of their terms and limits; the discount of a
  coupon (`calculate_discount`, a function of the coupon and the items); listings.
* The DELETE of an order and the Django admin, which writes any row.
* PATCH of a template's type, which can take the default of a type away.
* Generic PUT, PATCH and
  DELETE of transactions and refund requests, Alipay, payment configurations;
  `process_order_points`, which has no caller; `recharge_records`, which only
  their listing reads.
* The client's session (token, 401 redirect, route guards): state of one browser tab.
* Prices and totals in `create`, delivery fees, statistics, listings, filters.
* Permissions, tenants, registration, login forms, command-line scripts,
  rendering.
* Carts: the generic POST, which no screen sends; of lines PUT, POST and attribute
  customizations.
* Points of a sign-in rule that are no numbers: the column is unvalidated JSON.

## 6. What could follow

1. A refinement of `CartBook` for any number of workers, with an abstract
   specification that says nothing of contended products, as that of `StockBook` is.
2. `Session`: the client's token, 401 handling and route guards.
