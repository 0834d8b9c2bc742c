----------------------------- MODULE OrderStock -----------------------------
(***************************************************************************)
(* Stock and order status under concurrent requests.                       *)
(*                                                                         *)
(* The handlers that change the stock of a ProductSKU or the status of an  *)
(* Order, run by a pool of server workers against one PostgreSQL schema in *)
(* READ COMMITTED.                                                         *)
(* The handlers read a row into a Python object, change an attribute and   *)
(* save() the whole object; none takes a lock when it reads.  A worker     *)
(* therefore moves statement by statement: a read sees what is committed   *)
(* (and the worker's own uncommitted writes), a write takes the row lock   *)
(* that PostgreSQL keeps until the transaction ends, and a commit makes    *)
(* all the writes of the request visible at once.                          *)
(*                                                                         *)
(* Kinds of request                                                        *)
(*   create         orders/serializers.py  CreateOrderSerializer.create    *)
(*   cancel         orders/api.py          OrderViewSet.cancel             *)
(*   update_status  orders/api.py          OrderViewSet.update_status      *)
(*   notice         payments/services.py   _process_payment_result, which  *)
(*                  saves the order of the transaction as 'paid', unlogged   *)
(*   edit_status    orders/api.py          PUT or PATCH of an order with a  *)
(*                  status among its fields (OrderDetailSerializer), unlogged*)
(*   edit_order     pos/services.py        TableManagementService           *)
(*                  .update_table_status, and a PATCH without a status: the *)
(*                  whole row is saved, its status as it was read            *)
(*   quick_order    pos/services.py        POSService.create_quick_order   *)
(*   increase, decrease  products/api.py   ProductSKUViewSet.adjust_stock  *)
(*   bulk_set       products/api.py        bulk_stock_update               *)
(*   edit_price, edit_stock  products/serializers.py                       *)
(*                           ProductSKUSerializer.update, without and with *)
(*                           a stock_quantity among the submitted fields   *)
(* Merging orders is the business of OrderMerge; split_order, the DELETE of *)
(* an order and the Django admin are left out.                             *)
(***************************************************************************)
EXTENDS Integers, FiniteSets, SequencesExt

CONSTANTS
  Workers,       \* processes that serve requests
  Skus,          \* rows of product_skus
  Orders,        \* primary keys available to the orders table
  Quantities,    \* quantities of an item or an adjustment
  Amounts,       \* stock_quantity values an edit or a bulk update may submit
  Settable,      \* bound: the statuses a form is used to set
  InitialStock,  \* stock_quantity of every SKU at the start
  Offered,       \* kinds of request the clients send
  Runnable,      \* kinds whose handler runs to its end in this build
  None,          \* no order, no job
  MaxLines,      \* bound: items of one order, updates of one bulk request
  MaxRequests,   \* bound: requests served
  MaxFailures    \* bound: requests cut off by a failure

StockKinds == {"create", "quick_order", "increase", "decrease",
               "bulk_set", "edit_price", "edit_stock"}
OrderKinds == {"cancel", "update_status", "notice", "edit_status", "edit_order"}

\* Kinds that write the number submitted, and kinds that leave no log row.
SetKinds == {"bulk_set", "edit_stock"}
SilentKinds == {"notice", "edit_status"}
Kinds == StockKinds \cup OrderKinds

\* OrderItem.quantity is a PositiveIntegerField, whose CHECK lets zero in;
\* stock_quantity is a plain IntegerField that no serializer restricts.
ASSUME QuantitiesAssumption == Quantities \subseteq Nat
ASSUME AmountsAssumption == Amounts \subseteq Int
ASSUME InitialStockAssumption == InitialStock \in Int
ASSUME NoneAssumption == None \notin Orders
ASSUME KindsAssumption == Offered \subseteq Kinds /\ Runnable \subseteq Kinds
ASSUME BoundsAssumption ==
  MaxLines \in Nat /\ MaxRequests \in Nat /\ MaxFailures \in Nat

Statuses == {"pending", "paid", "confirmed", "preparing", "ready",
             "completed", "cancelled", "refunded"}
ASSUME SettableAssumption == Settable \subseteq Statuses

\* Mutant: a cancelled order may be cancelled again.
CancellableAgain == {"pending", "paid", "confirmed", "cancelled"}

\* Statuses OrderViewSet.cancel accepts.
Cancellable == {"pending", "paid", "confirmed"}

Line == [sku : Skus, qty : Quantities]
SetLine == [sku : Skus, qty : Amounts]

\* status "absent": no row yet.  restocked counts the cancellations that put
\* the order's items back (history, no code reads it).
Order == [status : Statuses \cup {"absent"}, lines : Seq(Line), restocked : Nat]

StatusLog == [old : Statuses, new : Statuses]
InventoryLog == [sku : Skus, quantity_change : Int, current_quantity : Int]

\* order is None in a request that is about SKUs only.
Job ==
  [kind : Kinds \ SetKinds, order : Orders \cup {None}, lines : Seq(Line), status : Statuses]
    \cup [kind : SetKinds, order : {None}, lines : Seq(SetLine), status : Statuses]

VARIABLES
  stock,        \* [Skus -> Int]  committed stock_quantity
  orders,       \* [Orders -> Order]  committed order and its items
  trail,        \* [Orders -> Seq(StatusLog)]  committed OrderStatusLog rows
  inventory,    \* Seq(InventoryLog)  committed InventoryLog rows
  pc,           \* [Workers -> step of the handler]
  job,          \* [Workers -> Job \cup {None}]  the request being served
  oldStatus,    \* [Workers -> Statuses]  order.status as get_object read it
  line,         \* [Workers -> Nat]  index of the item in hand
  seen,         \* [Workers -> Int]  sku.stock_quantity of the object in hand
  savedOrder,   \* [Workers -> BOOLEAN]  holds the lock of its order's row
  holds,        \* [Workers -> SUBSET Skus]  SKU rows written, not committed
  row,          \* [Workers -> [Skus -> Int]]  the values written to them
  entries,      \* [Workers -> Seq(InventoryLog)]  log rows, not committed
  served,       \* requests received so far
  failures,     \* requests cut off so far
  ledger,       \* history: the stock had each committed request been alone
  due,          \* history: what row would be, computed from the ledger
  contended,    \* history: SKUs committed under a read another worker then saves
  raced,        \* history: orders committed under such a read of the order
  marked,       \* history: orders a status change, not cancel, made "cancelled"
  unlogged      \* history: [Orders -> Seq(StatusLog)]  status changes no row tells of

db == <<stock, orders, trail, inventory>>
txn == <<savedOrder, holds, row, entries, due>>
history == <<ledger, contended, raced, marked, unlogged>>
vars == <<db, txn, history, pc, job, oldStatus, line, seen, served, failures>>

-----------------------------------------------------------------------------
\* Mutant: the POS and adjust_stock forget max(0, ...).
NoClamp(x) == x

\* What a handler writes over the stock_quantity x it read, for quantity q.
NonNegative(x) == IF x < 0 THEN 0 ELSE x

\* Mutant: create clamps as the POS does.
NewStockClamped(kind, x, q) ==
  CASE kind \in {"create", "quick_order", "decrease"} -> NonNegative(x - q)
    [] kind \in {"cancel", "increase"}               -> x + q
    [] kind \in {"bulk_set", "edit_stock"}           -> q
    [] OTHER                                         -> x

\* Mutant: cancel closes the order and forgets its stock.
NewStockKept(kind, x, q) ==
  CASE kind = "create"                      -> x - q
    [] kind = "increase"                    -> x + q
    [] kind \in {"quick_order", "decrease"} -> NonNegative(x - q)
    [] kind \in {"bulk_set", "edit_stock"}  -> q
    [] OTHER                                -> x

NewStock(kind, x, q) ==
  CASE kind = "create"                        -> x - q
    [] kind \in {"cancel", "increase"}        -> x + q
    [] kind \in {"quick_order", "decrease"}   -> NonNegative(x - q)
    [] kind \in {"bulk_set", "edit_stock"}    -> q
    [] OTHER                                  -> x

\* Mutant: bulk_stock_update logs the new stock as the change.
LogEntriesAbsolute(kind, s, x, q) ==
  LET entry(change) == << [sku |-> s, quantity_change |-> change,
                           current_quantity |-> NewStock(kind, x, q)] >>
  IN CASE kind \in {"increase", "bulk_set"} -> entry(q)
       [] kind = "decrease"                 -> entry(-q)
       [] OTHER                             -> <<>>

\* The InventoryLog row a write adds, if any: adjust_stock always logs the
\* requested quantity, bulk_stock_update logs when the value read differs, and
\* no other handler logs.
LogEntries(kind, s, x, q) ==
  LET entry(change) == << [sku |-> s, quantity_change |-> change,
                           current_quantity |-> NewStock(kind, x, q)] >>
  IN CASE kind = "increase"               -> entry(q)
       [] kind = "decrease"               -> entry(-q)
       [] kind = "bulk_set" /\ x # q      -> entry(q - x)
       [] OTHER                           -> <<>>

CurrentLine(w) == job[w].lines[line[w]]
CurrentSku(w) == CurrentLine(w).sku

\* A SELECT inside or outside the transaction: own write, else committed.
Visible(w, s) == IF s \in holds[w] THEN row[w][s] ELSE stock[s]

\* What a save() waits for: the worker whose transaction wrote the row first.
SkuHolders(w, s) == {v \in Workers \ {w} : s \in holds[v]}
OrderHolders(w) == {v \in Workers \ {w} : savedOrder[v] /\ job[v].order = job[w].order}
WaitsFor(w) ==
  CASE pc[w] = "write" -> SkuHolders(w, CurrentSku(w))
    [] pc[w] = "save"  -> OrderHolders(w)
    [] OTHER           -> {}

\* Mutant: nothing breaks a cycle of waiting workers.
NeverDeadlocked(w) == FALSE

\* A cycle of workers each waiting for the next one's row.
Deadlocked(w) ==
  \E S \in SUBSET Workers :
    /\ w \in S
    /\ \A v \in S : WaitsFor(v) \cap S # {}
    /\ \A v \in S : \E u \in S : v \in WaitsFor(u)

-----------------------------------------------------------------------------
Blank == [s \in Skus |-> 0]

Init ==
  /\ stock = [s \in Skus |-> InitialStock]
  /\ orders = [o \in Orders |-> [status |-> "absent", lines |-> <<>>, restocked |-> 0]]
  /\ trail = [o \in Orders |-> <<>>]
  /\ inventory = <<>>
  /\ pc = [w \in Workers |-> "idle"]
  /\ job = [w \in Workers |-> None]
  /\ oldStatus = [w \in Workers |-> "pending"]
  /\ line = [w \in Workers |-> 1]
  /\ seen = [w \in Workers |-> 0]
  /\ savedOrder = [w \in Workers |-> FALSE]
  /\ holds = [w \in Workers |-> {}]
  /\ row = [w \in Workers |-> Blank]
  /\ entries = [w \in Workers |-> <<>>]
  /\ due = [w \in Workers |-> Blank]
  /\ served = 0
  /\ failures = 0
  /\ ledger = stock
  /\ contended = {}
  /\ raced = {}
  /\ marked = {}
  /\ unlogged = [o \in Orders |-> <<>>]

\* The request ends: its objects and its transaction are gone.
Finish(w) ==
  /\ pc' = [pc EXCEPT ![w] = "idle"]
  /\ job' = [job EXCEPT ![w] = None]
  /\ oldStatus' = [oldStatus EXCEPT ![w] = "pending"]
  /\ line' = [line EXCEPT ![w] = 1]
  /\ seen' = [seen EXCEPT ![w] = 0]
  /\ savedOrder' = [savedOrder EXCEPT ![w] = FALSE]
  /\ holds' = [holds EXCEPT ![w] = {}]
  /\ row' = [row EXCEPT ![w] = Blank]
  /\ entries' = [entries EXCEPT ![w] = <<>>]
  /\ due' = [due EXCEPT ![w] = Blank]

-----------------------------------------------------------------------------
\* A worker takes a request.  The INSERT of a new order draws a primary key no
\* other transaction has; the other order requests name an order that exists.
FreshOrder(o) ==
  /\ o # None
  /\ orders[o].status = "absent"
  /\ \A v \in Workers : pc[v] # "idle" => job[v].order # o

\* The lines a request of a kind brings; those of a cancel are the order's own.
RequestLines(kind) ==
  CASE kind \in {"create", "quick_order"}   -> BoundedSeq(Line, MaxLines)
    [] kind = "bulk_set"                    -> BoundedSeq(SetLine, MaxLines) \ {<<>>}
    [] kind = "edit_stock"                  -> {<<l>> : l \in SetLine}
    [] kind \in {"increase", "decrease"}    -> {<<l>> : l \in {l \in Line : l.qty # 0}}
    [] kind = "edit_price"                  -> {<<l>> : l \in Line}
    [] OTHER                                -> {<<>>}

\* The status the object will be saved with: what the form or the handler sets.
RequestStatuses(kind) ==
  CASE kind = "cancel"                            -> {"cancelled"}
    [] kind \in {"update_status", "edit_status"}  -> Settable
    [] kind \in {"quick_order", "notice"}         -> {"paid"}
    [] OTHER                                      -> {"pending"}

FirstStep(kind, lines) ==
  IF kind \in OrderKinds THEN "load" ELSE IF lines = <<>> THEN "commit" ELSE "read"

Receive(w, kind, o) ==
  /\ pc[w] = "idle"
  /\ kind \in Offered
  /\ served < MaxRequests
  /\ kind \in {"create", "quick_order"} => FreshOrder(o)
  /\ kind \in OrderKinds => o # None /\ orders[o].status # "absent"
  /\ kind \notin OrderKinds \cup {"create", "quick_order"} => o = None
  /\ \E lines \in RequestLines(kind) :
       \E status \in RequestStatuses(kind) :
         /\ job' = [job EXCEPT ![w] = [kind |-> kind, order |-> o,
                                        lines |-> lines, status |-> status]]
         /\ pc' = [pc EXCEPT ![w] = FirstStep(kind, lines)]
  /\ served' = served + 1
  /\ UNCHANGED <<db, txn, history, oldStatus, line, seen, failures>>

\* A handler that uses a name its module does not bind stops before its first
\* write: OrderViewSet.get_queryset prefetches 'payments', which is not a
\* relation of Order, and create_quick_order calls time.time() without import
\* (and would insert an order without the amounts its columns require).
NameError(w) ==
  /\ pc[w] # "idle"
  /\ job[w].kind \notin Runnable
  /\ Finish(w)
  /\ UNCHANGED <<db, history, served, failures>>

Runs(w) == job[w].kind \in Runnable

\* get_object, or transaction.order: the order row (and its prefetched items),
\* before the transaction.  A row saved for another of its columns keeps the
\* status it is read with.
Load(w) ==
  LET o == job[w].order
      kind == job[w].kind
      refused == kind = "cancel" /\ orders[o].status \notin Cancellable
  IN
  /\ pc[w] = "load"
  /\ Runs(w)
  /\ \/ /\ refused
        /\ Finish(w)
     \/ /\ ~refused
        /\ oldStatus' = [oldStatus EXCEPT ![w] = orders[o].status]
        /\ job' = [job EXCEPT
                     ![w].lines = IF kind = "cancel" THEN orders[o].lines ELSE <<>>,
                     ![w].status = IF kind = "edit_order" THEN orders[o].status ELSE @]
        /\ pc' = [pc EXCEPT ![w] = "save"]
        /\ UNCHANGED <<txn, line, seen>>
  /\ UNCHANGED <<db, history, served, failures>>

\* order.save(): the row lock of the order is taken here, not at get_object.
SaveOrder(w) ==
  /\ pc[w] = "save"
  /\ OrderHolders(w) = {}
  /\ savedOrder' = [savedOrder EXCEPT ![w] = TRUE]
  /\ pc' = [pc EXCEPT ![w] = IF job[w].lines = <<>> THEN "commit" ELSE "read"]
  /\ UNCHANGED <<db, history, job, oldStatus, line, seen, holds, row, entries, due,
                 served, failures>>

\* Mutant: the SKUs are fetched once, before the first of them is saved.
FetchedOnce(w) == stock[CurrentSku(w)]

\* The SKU object of the line in hand.
Fetched(w) == Visible(w, CurrentSku(w))

Read(w) ==
  /\ pc[w] = "read"
  /\ Runs(w)
  /\ seen' = [seen EXCEPT ![w] = Fetched(w)]
  /\ pc' = [pc EXCEPT ![w] = "write"]
  /\ UNCHANGED <<db, txn, history, job, oldStatus, line, served, failures>>

\* sku.save() and the InventoryLog row that goes with it.
Write(w) ==
  LET s == CurrentSku(w)
      kind == job[w].kind
      q == CurrentLine(w).qty
      base == IF s \in holds[w] THEN due[w][s] ELSE ledger[s]
      last == line[w] = Len(job[w].lines)
  IN
  /\ pc[w] = "write"
  /\ SkuHolders(w, s) = {}
  /\ holds' = [holds EXCEPT ![w] = @ \cup {s}]
  /\ row' = [row EXCEPT ![w][s] = NewStock(kind, seen[w], q)]
  /\ due' = [due EXCEPT ![w][s] = NewStock(kind, base, q)]
  /\ entries' = [entries EXCEPT ![w] = @ \o LogEntries(kind, s, seen[w], q)]
  /\ pc' = [pc EXCEPT ![w] = IF last THEN "commit" ELSE "read"]
  /\ line' = [line EXCEPT ![w] = IF last THEN @ ELSE @ + 1]
  /\ UNCHANGED <<db, history, job, oldStatus, seen, savedOrder, served, failures>>

\* The order row a committing request leaves.
CommittedOrder(w) ==
  LET j == job[w]
      old == orders[j.order]
  IN CASE j.kind \in {"create", "quick_order"} ->
            [status |-> j.status, lines |-> j.lines, restocked |-> 0]
       [] j.kind = "cancel" ->
            [old EXCEPT !.status = j.status, !.restocked = @ + 1]
       [] OTHER -> [old EXCEPT !.status = j.status]

\* Mutant: old_status is taken after order.status has been assigned.
StatusLogsLate(w) == {<< [old |-> job[w].status, new |-> job[w].status] >>}

\* The OrderStatusLog rows it may add.  A POS order gets none, neither does a
\* notice or an edit, and neither does an order whose cart_id names no cart of
\* the user: create returns it early, without items.
StatusLogs(w) ==
  LET log(old) == << [old |-> old, new |-> job[w].status] >>
  IN CASE job[w].kind \in {"cancel", "update_status"} -> {log(oldStatus[w])}
       [] job[w].kind = "create" ->
            {log("pending")} \cup (IF job[w].lines = <<>> THEN {<<>>} ELSE {})
       [] OTHER -> {<<>>}

\* SKUs this commit changes under another worker that has read, not yet written.
StaleReads(w) ==
  {s \in holds[w] : \E v \in Workers \ {w} : pc[v] = "write" /\ CurrentSku(v) = s}

\* The order, if another worker has read it and is still to save it.
StaleOrders(w) ==
  {o \in {job[w].order} \ {None} :
     \E v \in Workers \ {w} : pc[v] = "save" /\ job[v].order = o}

\* The order, if this request marks it as cancelled without giving its items back.
Marked(w) ==
  {o \in {job[w].order} \ {None} :
     /\ job[w].kind \in {"update_status", "edit_status"} /\ job[w].status = "cancelled"
     /\ oldStatus[w] # "cancelled"}

\* The status change it makes without a row for it.
Unlogged(w) ==
  IF job[w].kind \in SilentKinds /\ oldStatus[w] # job[w].status
  THEN << [old |-> oldStatus[w], new |-> job[w].status] >> ELSE <<>>

Commit(w) ==
  LET o == job[w].order IN
  /\ pc[w] = "commit"
  /\ Runs(w)
  /\ stock' = [s \in Skus |-> IF s \in holds[w] THEN row[w][s] ELSE stock[s]]
  /\ ledger' = [s \in Skus |-> IF s \in holds[w] THEN due[w][s] ELSE ledger[s]]
  /\ contended' = contended \cup StaleReads(w)
  /\ raced' = raced \cup StaleOrders(w)
  /\ marked' = marked \cup Marked(w)
  /\ unlogged' = [x \in Orders |-> IF x = o THEN unlogged[x] \o Unlogged(w) ELSE unlogged[x]]
  /\ orders' = [x \in Orders |-> IF x = o THEN CommittedOrder(w) ELSE orders[x]]
  /\ \E logs \in StatusLogs(w) :
       trail' = [x \in Orders |-> IF x = o THEN trail[x] \o logs ELSE trail[x]]
  /\ inventory' = inventory \o entries[w]
  /\ Finish(w)
  /\ UNCHANGED <<served, failures>>

\* PostgreSQL ends one transaction of a wait cycle; the request answers 500.
DeadlockAbort(w) ==
  /\ pc[w] \in {"save", "write"}
  /\ Deadlocked(w)
  /\ Finish(w)
  /\ UNCHANGED <<db, history, served, failures>>

\* The process or its connection dies, or a later lookup raises (a product or a
\* SKU of the request does not exist): the transaction rolls back.
Fail(w) ==
  /\ pc[w] # "idle"
  /\ failures < MaxFailures
  /\ failures' = failures + 1
  /\ Finish(w)
  /\ UNCHANGED <<db, history, served>>

Serve(w) ==
  \/ NameError(w)
  \/ Load(w)
  \/ SaveOrder(w)
  \/ Read(w)
  \/ Write(w)
  \/ Commit(w)
  \/ DeadlockAbort(w)

Next ==
  \E w \in Workers :
    \/ \E kind \in Kinds, o \in Orders \cup {None} : Receive(w, kind, o)
    \/ Serve(w)
    \/ Fail(w)

Spec == Init /\ [][Next]_vars

\* A worker that can run runs; a row lock is granted to waiters in the order
\* they queued, so one that is free again and again is obtained.
Fairness ==
  \A w \in Workers : WF_vars(Serve(w)) /\ SF_vars(SaveOrder(w)) /\ SF_vars(Write(w))

FairSpec == Spec /\ Fairness
-----------------------------------------------------------------------------
(***************************************************************************)
(* Properties                                                              *)
(***************************************************************************)
Steps == {"idle", "load", "save", "read", "write", "commit"}

TablesOK ==
  /\ stock \in [Skus -> Int]
  /\ orders \in [Orders -> Order]
  /\ trail \in [Orders -> Seq(StatusLog)]
  /\ inventory \in Seq(InventoryLog)
  /\ served \in Nat
  /\ failures \in Nat
  /\ ledger \in [Skus -> Int]
  /\ contended \subseteq Skus
  /\ raced \subseteq Orders
  /\ marked \subseteq Orders
  /\ unlogged \in [Orders -> Seq(StatusLog)]

LocalsOK ==
  /\ pc \in [Workers -> Steps]
  /\ job \in [Workers -> Job \cup {None}]
  /\ oldStatus \in [Workers -> Statuses]
  /\ line \in [Workers -> Nat \ {0}]
  /\ seen \in [Workers -> Int]
  /\ savedOrder \in [Workers -> BOOLEAN]
  /\ holds \in [Workers -> SUBSET Skus]
  /\ row \in [Workers -> [Skus -> Int]]
  /\ entries \in [Workers -> Seq(InventoryLog)]
  /\ due \in [Workers -> [Skus -> Int]]

\* The tables hold rows of their models, the handlers' locals values of theirs.
TypeOK == TablesOK /\ LocalsOK

\* The stock of a SKU departs from what the committed requests, each applied
\* whole to the one before, amount to only if one of them was committed between
\* the read and the save() of another: no multi-item order, repeated SKU, clamp,
\* rollback, deadlock or crash makes it drift (stock_quantity -= quantity;
\* save(), orders/serializers.py and its siblings).
DriftNeedsContention == \A s \in Skus : stock[s] # ledger[s] => s \in contended

\* The stock is what the committed requests amount to: each create takes its items
\* from what the one before it left ("update the stock", orders/serializers.py).
StockMatchesLedger == stock = ledger

\* How much of a SKU a sequence of lines is about.
QuantityOf(lines, s) ==
  MapThenSumSet(LAMBDA i : lines[i].qty, {i \in DOMAIN lines : lines[i].sku = s})

Named(lines, s) == \E i \in DOMAIN lines : lines[i].sku = s

Appears(o) == orders[o].status = "absent" /\ orders'[o].status # "absent"

GivesBack(o) == orders'[o].restocked > orders[o].restocked

\* An order becomes visible together with the whole of its effect on stock, and
\* so does its cancellation: in the step that commits it every uncontended SKU loses
\* exactly the sum of its items (down to zero, if a POS order names it), or gets it
\* back, and other SKUs stay (CreateOrderSerializer.create, cancel and
\* create_quick_order, which loop over the items inside transaction.atomic).
OrderMovesItsStock ==
  [][\A o \in Orders, s \in Skus \ contended :
       LET q == QuantityOf(orders'[o].lines, s)
           left == stock[s] - q
       IN /\ Appears(o) => stock'[s] = IF orders'[o].status = "paid" /\ left < 0
                                               /\ Named(orders'[o].lines, s)
                                       THEN 0 ELSE left
          /\ GivesBack(o) => stock'[s] = stock[s] + q]_vars

\* The request a worker has just committed wrote x over the stock of SKU s by hand.
SetsTo(w, s, x) ==
  /\ pc[w] = "commit" /\ pc'[w] = "idle"
  /\ job[w].kind \in SetKinds
  /\ \E i \in DOMAIN job[w].lines : job[w].lines[i] = [sku |-> s, qty |-> x]

\* The stock of an uncontended SKU falls below zero only by an order that outsells
\* it, or by an edit or a bulk update somebody filled in with that very number: an
\* adjustment, a cancel, an edit of other columns and the POS never take it there.
OnlyOrdersOversell ==
  [][\A s \in Skus \ contended : stock[s] >= 0 /\ stock'[s] < 0 =>
       \/ \E o \in Orders : Appears(o) /\ orders'[o].status = "pending"
                          /\ QuantityOf(orders'[o].lines, s) > 0
       \/ \E w \in Workers : SetsTo(w, s, stock'[s])]_vars

\* The rows in which an order leaves "cancelled".
Reopenings(rows) ==
  {i \in DOMAIN rows : rows[i].old = "cancelled" /\ rows[i].new # "cancelled"}

\* The items of an order go back to stock when it is cancelled, and once, however
\* its status changes: every further time needs a change that reopened it, which its
\* log tells or a payment notice or an edit made without a row, and they stay away
\* only if a status change marked it as cancelled.  Except for orders committed
\* between the read and the save() of another request ("restore the stock",
\* orders/api.py cancel, whose check of the status precedes its transaction).
CancelRestocksOnce ==
  \A o \in Orders \ raced :
    LET cancels == Cardinality(Reopenings(trail[o])) + Cardinality(Reopenings(unlogged[o]))
                     + (IF orders[o].status = "cancelled" THEN 1 ELSE 0)
    IN /\ orders[o].restocked <= cancels
       /\ o \notin marked => orders[o].restocked = cancels

\* The rows of its log after which an order was not left in the status they end in:
\* the next row starts from another one, or the order has another one.
Gaps(o) ==
  LET n == Len(trail[o])
  IN {i \in 1..n : trail[o][i].new # IF i = n THEN orders[o].status ELSE trail[o][i + 1].old}

\* The status log of an order is a chain that ends in its status, broken at most once
\* for each change that a payment notice or an edit made without a row
\* (payments/services.py:185, orders/api.py:120), unless the order was raced.
TrailIsChain ==
  \A o \in Orders \ raced : Cardinality(Gaps(o)) <= Len(unlogged[o])

\* The rows a step adds to the inventory log, those of some rows that are about a
\* SKU, and what these say it changed by.
NewRows == SubSeq(inventory', Len(inventory) + 1, Len(inventory'))
About(rows, s) == {i \in DOMAIN rows : rows[i].sku = s}
NetChange(rows, s) == MapThenSumSet(LAMBDA i : rows[i].quantity_change, About(rows, s))

\* The log rows a request commits tell what it did to the stock of an uncontended
\* SKU, however often the request names it: their changes sum to the difference
\* and the last one shows the result, unless a decrease stopped at zero
\* (max(0, ...) in adjust_stock, which logs the quantity that was asked for).
LogTellsTheChange ==
  [][\A s \in Skus \ contended :
       LET told == stock[s] + NetChange(NewRows, s)
       IN About(NewRows, s) # {} =>
            /\ NewRows[Max(About(NewRows, s))].current_quantity = stock'[s]
            /\ stock'[s] = told \/ (stock'[s] = 0 /\ told < 0)]_vars

\* Every request that is received ends, whatever rows the others have locked.
EveryRequestEnds == \A w \in Workers : pc[w] # "idle" ~> pc[w] = "idle"

\* However many workers serve them, the handlers implement StockBook: no step shows
\* an order without its stock or a cancel without the items it puts back, no other
\* step moves stock and orders at once, an order is cancelled from the statuses that
\* allow it and its items never change; but for the stock of contended SKUs and the
\* status a cancel finds on raced orders.
Book == INSTANCE StockBook
          WITH status <- [o \in Orders |-> orders[o].status],
               lines <- [o \in Orders |-> orders[o].lines],
               returned <- [o \in Orders |-> orders[o].restocked],
               loose <- contended,
               unsure <- raced
ImplementsBook == Book!Spec
=============================================================================
