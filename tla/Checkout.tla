------------------------------ MODULE Checkout ------------------------------
(***************************************************************************)
(* One customer's cart, from the screens to the tables.                    *)
(*                                                                         *)
(* The customer has one or more sessions (tabs, devices).  A session sends *)
(* one request at a time and waits for its answer, at most ten seconds;    *)
(* then it gives up while the handler goes on.  What it shows is what the  *)
(* last answer to my_cart said (stores/cart.js), and it lets the customer  *)
(* submit an order while that is not empty (OrderCreate.vue).              *)
(*                                                                         *)
(* The server has a pool of workers.  A handler moves query by query; the  *)
(* queries that only its own transaction can tell apart are one step.      *)
(* Stock is the business of OrderStock.                                    *)
(***************************************************************************)
EXTENDS Integers, FiniteSets, SequencesExt

CONSTANTS
  Sessions, Workers, Products,
  HasSku,       \* products bought as a SKU; the others have a NULL sku_id
  Imageless,    \* products without a main_image
  Quantities,   \* quantities a customer may ask for
  FirstCarts,   \* carts the customer has at the start: 0 or 1
  None,
  MaxItems,     \* bound: primary keys of cart_items
  MaxSends,     \* bound: requests the customer starts
  MaxTimeouts,  \* bound: answers the sessions do not wait for
  MaxFailures   \* bound: handlers cut off

ASSUME ProductsAssumption == HasSku \subseteq Products /\ Imageless \subseteq Products
ASSUME QuantitiesAssumption == Quantities \subseteq Nat \ {0}
ASSUME FirstCartsAssumption == FirstCarts \in {0, 1}
ASSUME BoundsAssumption ==
  /\ MaxItems \in Nat /\ MaxSends \in Nat
  /\ MaxTimeouts \in Nat /\ MaxFailures \in Nat

ItemIds == 1..MaxItems
Kinds == {"my_cart", "add", "set", "remove", "create", "clear"}

\* A row of cart_items, without its id.
Item == [cart : Nat \ {0}, product : Products, qty : Nat]

\* item is 0 in a request that names none, cart likewise.
Request == [kind : Kinds, product : Products \cup {None}, qty : Nat,
            item : {0} \cup ItemIds, cart : Nat]

\* A request in the hands of a worker; session is None once nobody waits for it.
Job == [session : Sessions \cup {None}, request : Request]

ASSUME NoneAssumption ==
  None \notin Sessions \cup Products /\ None \notin Item /\ None \notin Request /\ None \notin Job

VARIABLES
  carts,      \* carts of the customer; their keys are 1..carts
  items,      \* [ItemIds -> Item \cup {None}]  cart_items
  drawn,      \* keys of cart_items drawn so far
  orders,     \* Seq([Products -> Nat])  what the orders are for
  ask,        \* [Sessions -> Request \cup {None}]  request awaited
  view,       \* [Sessions -> cart and items on screen]  cartStore
  pc,         \* [Workers -> step of the handler]
  job,        \* [Workers -> Job \cup {None}]
  cart,       \* [Workers -> Nat]  key of the cart in hand, 0 if none yet
  target,     \* [Workers -> {0} \cup ItemIds]  key of the line in hand
  row,        \* [Workers -> Item \cup {None}]  the line as it was read
  taken,      \* [Workers -> [Products -> Nat]]  lines copied to the order
  picked,     \* [Workers -> SUBSET ItemIds]  lines about to be deleted
  sends, timeouts, failures,
  rushed,     \* history: a cart was made after another handler had found none
  contended   \* history: products whose lines were changed in another's hands

tables == <<carts, items, drawn, orders>>
screens == <<ask, view>>
locals == <<cart, target, row, taken, picked>>
bounds == <<sends, timeouts, failures>>
history == <<rushed, contended>>
vars == <<tables, screens, pc, job, locals, bounds, history>>

-----------------------------------------------------------------------------
Nothing == [p \in Products |-> 0]
NoView == [cart |-> 0, items |-> {}]

\* The lines of a cart, and those for a product.
LinesOf(c) == {i \in ItemIds : items[i] # None /\ items[i].cart = c}
LinesFor(c, p) == {i \in LinesOf(c) : items[i].product = p}

\* How much of each product a set of lines is for.
Amounts(ids) ==
  [p \in Products |->
     MapThenSumSet(LAMBDA i : items[i].qty, {i \in ids : items[i].product = p})]

\* unique_together over (cart, product, sku): NULL is never equal to NULL.
Clashes(c, p, i) == p \in HasSku /\ LinesFor(c, p) \ {i} # {}

Ask(kind, p, q, i, c) ==
  [kind |-> kind, product |-> p, qty |-> q, item |-> i, cart |-> c]

Init ==
  /\ carts = FirstCarts
  /\ items = [i \in ItemIds |-> None]
  /\ drawn = 0
  /\ orders = <<>>
  /\ ask = [s \in Sessions |-> None]
  /\ view = [s \in Sessions |-> NoView]
  /\ pc = [w \in Workers |-> "idle"]
  /\ job = [w \in Workers |-> None]
  /\ cart = [w \in Workers |-> 0]
  /\ target = [w \in Workers |-> 0]
  /\ row = [w \in Workers |-> None]
  /\ taken = [w \in Workers |-> Nothing]
  /\ picked = [w \in Workers |-> {}]
  /\ sends = 0 /\ timeouts = 0 /\ failures = 0
  /\ rushed = FALSE /\ contended = {}

-----------------------------------------------------------------------------
\* The customer: opens a screen, adds a product, changes or removes a line that
\* is on screen, or submits the order page.
Wishes(s) ==
  {Ask("my_cart", None, 0, 0, 0)}
  \cup {Ask("add", p, q, 0, 0) : p \in Products, q \in Quantities}
  \cup {Ask("set", None, q, i, 0) : q \in Quantities, i \in view[s].items}
  \cup {Ask("remove", None, 0, i, 0) : i \in view[s].items}
  \cup (IF view[s].cart # 0 /\ view[s].items # {}
        THEN {Ask("create", None, 0, 0, view[s].cart)} ELSE {})

Send(s) ==
  /\ ask[s] = None
  /\ sends < MaxSends
  /\ sends' = sends + 1
  /\ \E r \in Wishes(s) : ask' = [ask EXCEPT ![s] = r]
  /\ UNCHANGED <<tables, view, pc, job, locals, timeouts, failures, history>>

\* axios gives up after its timeout, or the answer is lost on the way; a handler
\* that has the request goes on.
GiveUp(s) ==
  /\ ask[s] # None
  /\ timeouts < MaxTimeouts
  /\ timeouts' = timeouts + 1
  /\ ask' = [ask EXCEPT ![s] = None]
  /\ job' = [w \in Workers |->
               IF job[w] # None /\ job[w].session = s
               THEN [job[w] EXCEPT !.session = None] ELSE job[w]]
  /\ UNCHANGED <<tables, view, pc, locals, sends, failures, history>>

\* Mutant: a refresh that fails is tried again at once.
FollowUpRetry(kind, ok) ==
  CASE ok /\ kind = "create"                   -> Ask("clear", None, 0, 0, 0)
    [] ok # (kind = "my_cart") /\ kind # "clear" -> Ask("my_cart", None, 0, 0, 0)
    [] OTHER                                   -> None

\* What a session does with an answer: the store refreshes the cart after a
\* change, the order page empties the cart after an order.
FollowUp(kind, ok) ==
  CASE ok /\ kind \in {"add", "set", "remove"} -> Ask("my_cart", None, 0, 0, 0)
    [] ok /\ kind = "create"                   -> Ask("clear", None, 0, 0, 0)
    [] OTHER                                   -> None

\* The cart on screen after an answer.
Shown(old, kind, ok, shown) ==
  CASE ok /\ kind = "my_cart" -> shown
    [] ok /\ kind = "clear"   -> NoView
    [] OTHER                  -> old

\* The handler ends and answers, if somebody still waits.
Answer(w, ok, shown) ==
  LET s == job[w].session
      kind == job[w].request.kind
  IN
  /\ pc' = [pc EXCEPT ![w] = "idle"]
  /\ job' = [job EXCEPT ![w] = None]
  /\ cart' = [cart EXCEPT ![w] = 0]
  /\ target' = [target EXCEPT ![w] = 0]
  /\ row' = [row EXCEPT ![w] = None]
  /\ taken' = [taken EXCEPT ![w] = Nothing]
  /\ picked' = [picked EXCEPT ![w] = {}]
  /\ ask' = [x \in Sessions |-> IF x = s THEN FollowUp(kind, ok) ELSE ask[x]]
  /\ view' = [x \in Sessions |->
                IF x = s THEN Shown(view[x], kind, ok, shown) ELSE view[x]]

Refuse(w) == Answer(w, FALSE, NoView)
Done(w) == Answer(w, TRUE, NoView)

-----------------------------------------------------------------------------
FirstStep(kind) ==
  CASE kind \in {"my_cart", "add", "clear"} -> "cart"
    [] kind \in {"set", "remove"}           -> "item"
    [] OTHER                                -> "order"

\* A worker takes a request that no worker has.
Receive(w, s) ==
  /\ pc[w] = "idle"
  /\ ask[s] # None
  /\ \A v \in Workers : job[v] # None => job[v].session # s
  /\ job' = [job EXCEPT ![w] = [session |-> s, request |-> ask[s]]]
  /\ pc' = [pc EXCEPT ![w] = FirstStep(ask[s].kind)]
  /\ UNCHANGED <<tables, screens, locals, bounds, history>>

Kind(w) == job[w].request.kind

\* The products whose lines a handler has looked at and is still to act upon.
InHand(v) ==
  {p \in Products : \/ pc[v] = "insert" /\ job[v].request.product = p
                    \/ pc[v] = "save" /\ row[v].product = p
                    \/ pc[v] \in {"collect", "delete"} /\ Kind(v) = "create"}

\* The products of the lines a step inserts, changes or deletes.
Touched ==
  {p \in Products :
     \E i \in ItemIds : /\ items'[i] # items[i]
                       /\ \E x \in {items[i], items'[i]} \ {None} : x.product = p}

\* Lines of these products were changed under somebody who had looked at them.
Contend(w) ==
  contended' = contended \cup (Touched \cap UNION {InHand(v) : v \in Workers \ {w}})

\* The step after the cart is in hand.
WithCart(kind) ==
  CASE kind = "my_cart" -> "items"
    [] kind = "add"     -> "line"
    [] OTHER            -> "collect"

\* Mutant: the cart is looked up by something it never has.
CartsFoundNone == 0

CartsFound == carts

\* Cart.objects.get_or_create(user=...): the SELECT.  Two rows raise
\* MultipleObjectsReturned.
FindCart(w) ==
  /\ pc[w] = "cart"
  /\ \/ /\ CartsFound = 0
        /\ pc' = [pc EXCEPT ![w] = "newcart"]
        /\ UNCHANGED <<screens, job, locals>>
     \/ /\ CartsFound = 1
        /\ cart' = [cart EXCEPT ![w] = 1]
        /\ pc' = [pc EXCEPT ![w] = WithCart(Kind(w))]
        /\ UNCHANGED <<screens, job, target, row, taken, picked>>
     \/ /\ CartsFound > 1
        /\ Refuse(w)
  /\ UNCHANGED <<tables, bounds, history>>

\* ... and the INSERT, which no constraint on user stops.
NewCart(w) ==
  /\ pc[w] = "newcart"
  /\ carts' = carts + 1
  /\ cart' = [cart EXCEPT ![w] = carts + 1]
  /\ pc' = [pc EXCEPT ![w] = WithCart(Kind(w))]
  /\ rushed' = (rushed \/ \E v \in Workers \ {w} : pc[v] = "newcart")
  /\ UNCHANGED <<items, drawn, orders, screens, job, target, row, taken, picked, bounds,
                 contended>>

\* my_cart reads the lines and answers.
ReadItems(w) ==
  /\ pc[w] = "items"
  /\ Answer(w, TRUE, [cart |-> cart[w], items |-> LinesOf(cart[w])])
  /\ UNCHANGED <<tables, bounds, history>>

\* Mutant: the quantity is a key of the lookup instead of a default.
LinesFoundByQuantity(c, r) == {i \in LinesFor(c, r.product) : items[i].qty = r.qty}

\* The lines CartItem.objects.get_or_create looks for.
LinesFound(c, r) == LinesFor(c, r.product)

\* add_item: CartItem.objects.get_or_create, the SELECT.  After an INSERT that
\* clashed ("again") a line must be there.
FindLine(w) ==
  LET lines == LinesFound(cart[w], job[w].request) IN
  /\ pc[w] \in {"line", "again"}
  /\ \/ /\ lines = {} /\ pc[w] = "line"
        /\ pc' = [pc EXCEPT ![w] = "insert"]
        /\ UNCHANGED <<screens, job, locals>>
     \/ /\ Cardinality(lines) = 1
        /\ \E i \in lines :
             /\ target' = [target EXCEPT ![w] = i]
             /\ row' = [row EXCEPT ![w] = items[i]]
        /\ pc' = [pc EXCEPT ![w] = "save"]
        /\ UNCHANGED <<screens, job, cart, taken, picked>>
     \/ /\ Cardinality(lines) > 1 \/ (lines = {} /\ pc[w] = "again")
        /\ Refuse(w)
  /\ UNCHANGED <<tables, bounds, history>>

\* Its INSERT and the end of the transaction.  The answer shows the URL of the
\* product's main_image; without one it raises and the line is rolled back.
InsertLine(w) ==
  LET p == job[w].request.product IN
  /\ pc[w] = "insert"
  /\ drawn < MaxItems
  /\ \/ /\ Clashes(cart[w], p, 0)
        /\ pc' = [pc EXCEPT ![w] = "again"]
        /\ UNCHANGED <<items, drawn, screens, job, locals>>
     \/ /\ ~Clashes(cart[w], p, 0)
        /\ p \in Imageless
        /\ Refuse(w)
        /\ UNCHANGED <<items, drawn>>
     \/ /\ ~Clashes(cart[w], p, 0)
        /\ p \notin Imageless
        /\ drawn' = drawn + 1
        /\ items' = [items EXCEPT ![drawn + 1] =
                       [cart |-> cart[w], product |-> p, qty |-> job[w].request.qty]]
        /\ Done(w)
  /\ Contend(w)
  /\ UNCHANGED <<carts, orders, bounds, rushed>>

\* PATCH and DELETE of a line begin with get_object, which may find nothing; the
\* DELETE, which works on the key alone, is in the same step.
FindItem(w) ==
  LET i == job[w].request.item IN
  /\ pc[w] = "item"
  /\ \/ /\ items[i] = None
        /\ Refuse(w)
        /\ UNCHANGED items
     \/ /\ items[i] # None /\ Kind(w) = "set"
        /\ target' = [target EXCEPT ![w] = i]
        /\ row' = [row EXCEPT ![w] = items[i]]
        /\ pc' = [pc EXCEPT ![w] = "save"]
        /\ UNCHANGED <<items, screens, job, cart, taken, picked>>
     \/ /\ items[i] # None /\ Kind(w) = "remove"
        /\ items' = [items EXCEPT ![i] = None]
        /\ Done(w)
  /\ Contend(w)
  /\ UNCHANGED <<carts, drawn, orders, bounds, rushed>>

\* Mutant: add_item takes the quantity off a line it finds.
NewQuantityTaken(kind, old, q) == IF kind = "add" THEN old - q ELSE q

NewQuantity(kind, old, q) == IF kind = "add" THEN old + q ELSE q

\* cart_item.save(): all columns of the row that was read.  When the row is gone
\* Django inserts it again under its old key.
SaveLine(w) ==
  LET i == target[w]
      new == [row[w] EXCEPT !.qty = NewQuantity(Kind(w), @, job[w].request.qty)]
      clash == items[i] = None /\ Clashes(new.cart, new.product, i)
  IN
  /\ pc[w] = "save"
  /\ \/ /\ clash
        /\ Refuse(w)
        /\ UNCHANGED items
     \/ /\ ~clash
        /\ items' = [items EXCEPT ![i] = new]
        /\ Done(w)
  /\ Contend(w)
  /\ UNCHANGED <<carts, drawn, orders, bounds, rushed>>

\* create: the cart, the order row and the lines that are copied to it.
ReadOrder(w) ==
  LET c == job[w].request.cart IN
  /\ pc[w] = "order"
  /\ cart' = [cart EXCEPT ![w] = c]
  /\ taken' = [taken EXCEPT ![w] = Amounts(LinesOf(c))]
  /\ pc' = [pc EXCEPT ![w] = "collect"]
  /\ UNCHANGED <<tables, screens, job, target, row, picked, bounds, history>>

\* Mutant: the cart is not emptied.
LinesToDeleteNone(c) == {}

\* cart.items.all().delete() selects the rows again, for their relations ...
LinesToDelete(c) == LinesOf(c)

Collect(w) ==
  /\ pc[w] = "collect"
  /\ picked' = [picked EXCEPT ![w] = LinesToDelete(cart[w])]
  /\ pc' = [pc EXCEPT ![w] = "delete"]
  /\ UNCHANGED <<tables, screens, job, cart, target, row, taken, bounds, history>>

\* ... and deletes the selected keys; create then commits the order.
DeleteLines(w) ==
  /\ pc[w] = "delete"
  /\ items' = [i \in ItemIds |-> IF i \in picked[w] THEN None ELSE items[i]]
  /\ orders' = IF Kind(w) = "create" THEN Append(orders, taken[w]) ELSE orders
  /\ Done(w)
  /\ Contend(w)
  /\ UNCHANGED <<carts, drawn, bounds, rushed>>

\* The worker dies or the database goes away before the commit.
Fail(w) ==
  /\ pc[w] # "idle"
  /\ failures < MaxFailures
  /\ failures' = failures + 1
  /\ Refuse(w)
  /\ UNCHANGED <<tables, sends, timeouts, history>>

Serve(w) ==
  \/ \E s \in Sessions : Receive(w, s)
  \/ FindCart(w) \/ NewCart(w) \/ ReadItems(w)
  \/ FindLine(w) \/ InsertLine(w)
  \/ FindItem(w) \/ SaveLine(w)
  \/ ReadOrder(w) \/ Collect(w) \/ DeleteLines(w)

Next ==
  \/ \E s \in Sessions : Send(s) \/ GiveUp(s)
  \/ \E w \in Workers : Serve(w) \/ Fail(w)

Spec == Init /\ [][Next]_vars

\* A worker that can go on goes on; nothing obliges the customer.
FairSpec == Spec /\ \A w \in Workers : WF_vars(Serve(w))
-----------------------------------------------------------------------------
(***************************************************************************)
(* Properties                                                              *)
(***************************************************************************)
Steps == {"idle", "cart", "newcart", "items", "line", "again", "insert", "item",
          "save", "order", "collect", "delete"}

\* The tables, the screens and the handlers hold values of their kinds.
TypeOK ==
  /\ carts \in Nat
  /\ items \in [ItemIds -> Item \cup {None}]
  /\ drawn \in {0} \cup ItemIds
  /\ orders \in Seq([Products -> Nat])
  /\ ask \in [Sessions -> Request \cup {None}]
  /\ view \in [Sessions -> [cart : Nat, items : SUBSET ItemIds]]
  /\ pc \in [Workers -> Steps]
  /\ job \in [Workers -> Job \cup {None}]
  /\ cart \in [Workers -> Nat]
  /\ target \in [Workers -> {0} \cup ItemIds]
  /\ row \in [Workers -> Item \cup {None}]
  /\ taken \in [Workers -> [Products -> Nat]]
  /\ picked \in [Workers -> SUBSET ItemIds]
  /\ sends \in Nat /\ timeouts \in Nat /\ failures \in Nat
  /\ rushed \in BOOLEAN /\ contended \subseteq Products

\* The customer has one cart at most.  With two, every request that looks the
\* cart up is answered 500 for ever (get_or_create, orders/api.py).
OneCart == carts <= 1

\* Whatever overlaps, a second cart is made only by a handler that had found none
\* when another made the first (get_or_create on user, my_cart, add_item, clear).
SecondCartNeedsRush == OneCart \/ rushed

\* A cart has one line at most for a product.  With two, the product can not be
\* added any more (unique_together of CartItem, get_or_create in add_item).
OneLineEach ==
  \A c \in 1..carts, p \in Products : Cardinality(LinesFor(c, p)) <= 1

\* Whatever overlaps, a SKU has one line in a cart; another product has two only
\* if its lines were changed after a handler had looked at them and before it acted
\* (unique_together of CartItem with its NULL, get_or_create in add_item).
SecondLineNeedsContention ==
  \A c \in 1..carts, p \in Products :
    p \in HasSku \/ p \notin contended => Cardinality(LinesFor(c, p)) <= 1

\* The lines that a step deletes.
Gone == {i \in ItemIds : items[i] # None /\ items'[i] = None}

\* An order is for what its commit takes out of the cart, no more and no less
\* (_create_order_items_from_cart copies the lines, then deletes what it finds).
OrderTakesTheCart == [][Len(orders') > Len(orders) => Last(orders') = Amounts(Gone)]_vars

\* Whatever overlaps, this is so for every product whose lines nobody changed after
\* a handler had looked at them and before it acted.
LostLineNeedsContention ==
  [][Len(orders') > Len(orders) =>
       \A p \in Products \ contended : Last(orders')[p] = Amounts(Gone)[p]]_vars

\* Every request and all that the session sends of its own after it come to an
\* end, also when two carts make every look at the cart fail.
EverySessionRests == \A s \in Sessions : ask[s] # None ~> ask[s] = None

\* One handler at a time, the cart is what CartBook says: an order takes exactly
\* what is in the cart and leaves it empty, and nothing else moves both.
Book == INSTANCE CartBook WITH cart <- Amounts({i \in ItemIds : items[i] # None})
ImplementsCart == Book!Spec
=============================================================================
