--------------------------- MODULE CheckoutProofs ---------------------------
(***************************************************************************)
(* Theorems about Checkout, for every value of its constants; those about  *)
(* the cart's contents for one worker.                                     *)
(***************************************************************************)
EXTENDS Checkout, Sums

\* What a request of each kind says.
RequestOK(r) ==
  /\ r \in Request
  /\ r.kind \in {"add", "set"} => r.qty \in Quantities
  /\ r.kind = "add" => r.product \in Products
  /\ r.kind \in {"set", "remove"} => r.item \in ItemIds
  /\ r.kind = "create" => r.cart # 0

\* What a handler has at each step.
HandlerOK(w) ==
  /\ pc[w] # "idle" => job[w] \in Job /\ RequestOK(job[w].request)
  /\ pc[w] \in {"cart", "newcart"} => Kind(w) \in {"my_cart", "add", "clear"}
  /\ pc[w] = "items" => Kind(w) = "my_cart"
  /\ pc[w] \in {"line", "again", "insert"} => Kind(w) = "add"
  /\ pc[w] = "item" => Kind(w) \in {"set", "remove"}
  /\ pc[w] = "save" => Kind(w) \in {"add", "set"} /\ row[w] \in Item /\ target[w] \in ItemIds
  /\ pc[w] = "order" => Kind(w) = "create"
  /\ pc[w] \in {"collect", "delete"} => Kind(w) \in {"create", "clear"}
  /\ pc[w] \in {"items", "line", "again", "insert", "collect", "delete"} => cart[w] # 0

AsksOK == \A s \in Sessions : ask[s] # None => RequestOK(ask[s])

TypeInv == TypeOK /\ AsksOK /\ \A w \in Workers : HandlerOK(w)

View == [cart : Nat, items : SUBSET ItemIds]
-----------------------------------------------------------------------------
LEMMA AmountsArePieces ==
  ASSUME NEW ids
  PROVE  Amounts(ids) = [p \in Products |-> Pieces(items, {i \in ids : items[i].product = p})]
BY DEF Amounts, Pieces

-----------------------------------------------------------------------------
(***************************************************************************)
(* Type correctness                                                        *)
(***************************************************************************)
LEMMA IdsFinite ==
  ASSUME NEW S \in SUBSET ItemIds
  PROVE  IsFiniteSet(S)
<1>1. IsFiniteSet(ItemIds)
  BY BoundsAssumption, FS_Interval DEF ItemIds
<1> QED
  BY <1>1, FS_Subset

LEMMA NoneTyped ==
  None \notin Sessions /\ None \notin Products /\ None \notin Item /\ None \notin Request
    /\ None \notin Job
BY NoneAssumption

LEMMA AmountsTyped ==
  ASSUME TypeOK, NEW ids \in SUBSET ItemIds, \A i \in ids : items[i] # None
  PROVE  Amounts(ids) \in [Products -> Nat]
<1>1. ASSUME NEW p \in Products
      PROVE  Pieces(items, {i \in ids : items[i].product = p}) \in Nat
  <2> DEFINE S == {i \in ids : items[i].product = p}
  <2>1. IsFiniteSet(S)
    BY IdsFinite
  <2>2. Quantified(items, S)
    BY <2>1 DEF Quantified, TypeOK, Item
  <2> QED
    BY <2>1, <2>2, PiecesTyped
<1> QED
  BY <1>1, AmountsArePieces

LEMMA AskTyped ==
  /\ RequestOK(Ask("my_cart", None, 0, 0, 0)) /\ RequestOK(Ask("clear", None, 0, 0, 0))
  /\ \A p \in Products, q \in Quantities : RequestOK(Ask("add", p, q, 0, 0))
  /\ \A q \in Quantities, i \in ItemIds : RequestOK(Ask("set", None, q, i, 0))
  /\ \A i \in ItemIds : RequestOK(Ask("remove", None, 0, i, 0))
  /\ \A c \in Nat \ {0} : RequestOK(Ask("create", None, 0, 0, c))
BY QuantitiesAssumption DEF Ask, RequestOK, Request, Kinds

\* Steps that leave a handler what it has.
LEMMA OthersOK ==
  ASSUME NEW v, HandlerOK(v), pc'[v] = pc[v], cart'[v] = cart[v], row'[v] = row[v],
         target'[v] = target[v], pc[v] # "idle" => job'[v] \in Job,
         pc[v] # "idle" => job'[v].request = job[v].request
  PROVE  HandlerOK(v)'
BY DEF HandlerOK, Kind

\* A handler that answers leaves nothing behind.
LEMMA AnswerTyped ==
  ASSUME TypeInv, NEW w \in Workers, NEW ok, NEW shown \in View, Answer(w, ok, shown)
  PROVE  /\ pc' \in [Workers -> Steps] /\ job' \in [Workers -> Job \cup {None}]
         /\ cart' \in [Workers -> Nat] /\ target' \in [Workers -> {0} \cup ItemIds]
         /\ row' \in [Workers -> Item \cup {None}] /\ taken' \in [Workers -> [Products -> Nat]]
         /\ picked' \in [Workers -> SUBSET ItemIds]
         /\ ask' \in [Sessions -> Request \cup {None}] /\ view' \in [Sessions -> View]
         /\ AsksOK' /\ \A v \in Workers : HandlerOK(v)'
<1>0. TypeOK /\ AsksOK /\ \A v \in Workers : HandlerOK(v)
  BY DEF TypeInv
<1>1. /\ pc' = [pc EXCEPT ![w] = "idle"] /\ job' = [job EXCEPT ![w] = None]
      /\ cart' = [cart EXCEPT ![w] = 0] /\ target' = [target EXCEPT ![w] = 0]
      /\ row' = [row EXCEPT ![w] = None] /\ taken' = [taken EXCEPT ![w] = Nothing]
      /\ picked' = [picked EXCEPT ![w] = {}]
  BY DEF Answer
<1>2. /\ pc' \in [Workers -> Steps] /\ job' \in [Workers -> Job \cup {None}]
      /\ cart' \in [Workers -> Nat] /\ target' \in [Workers -> {0} \cup ItemIds]
      /\ row' \in [Workers -> Item \cup {None}] /\ taken' \in [Workers -> [Products -> Nat]]
      /\ picked' \in [Workers -> SUBSET ItemIds]
  BY <1>0, <1>1 DEF TypeOK, Steps, Nothing
<1>3. ASSUME NEW kind PROVE FollowUp(kind, ok) = None \/ RequestOK(FollowUp(kind, ok))
  BY AskTyped DEF FollowUp
<1>4. \A x \in Sessions : ask'[x] = None \/ RequestOK(ask'[x])
  BY <1>0, <1>3 DEF Answer, AsksOK
<1>5. ask' \in [Sessions -> Request \cup {None}] /\ AsksOK'
  BY <1>4 DEF Answer, RequestOK, AsksOK
<1>6. view' \in [Sessions -> View]
  BY <1>0 DEF Answer, Shown, TypeOK, View, NoView
<1>7. HandlerOK(w)'
  BY <1>0, <1>1 DEF TypeOK, HandlerOK
<1>8. ASSUME NEW v \in Workers \ {w} PROVE HandlerOK(v)'
  BY <1>0, <1>1, OthersOK DEF TypeOK, HandlerOK
<1> QED
  BY <1>2, <1>5, <1>6, <1>7, <1>8

LEMMA EndTyped ==
  ASSUME TypeInv, NEW w \in Workers, NEW ok, NEW shown \in View, Answer(w, ok, shown),
         carts' \in Nat, items' \in [ItemIds -> Item \cup {None}], drawn' \in {0} \cup ItemIds,
         orders' \in Seq([Products -> Nat]), UNCHANGED bounds,
         rushed' \in BOOLEAN, contended' \in SUBSET Products
  PROVE  TypeInv'
<1>1. TypeOK'
  BY AnswerTyped DEF TypeInv, TypeOK, View, bounds
<1> QED
  BY <1>1, AnswerTyped DEF TypeInv

\* The histories.
LEMMA HistoryTyped ==
  ASSUME TypeOK, NEW w \in Workers, Serve(w) \/ Fail(w)
  PROVE  rushed' \in BOOLEAN /\ contended' \in SUBSET Products
<1>1. contended' = contended \/ Contend(w)
  BY DEF Serve, Receive, FindCart, NewCart, ReadItems, FindLine, InsertLine, FindItem, SaveLine,
         ReadOrder, Collect, DeleteLines, Fail, history
<1>2. contended' \in SUBSET Products
  BY <1>1 DEF Contend, Touched, TypeOK
<1>3. rushed' = rushed \/ rushed' = (rushed \/ \E v \in Workers \ {w} : pc[v] = "newcart")
  BY DEF Serve, Receive, FindCart, NewCart, ReadItems, FindLine, InsertLine, FindItem, SaveLine,
         ReadOrder, Collect, DeleteLines, Fail, history
<1>4. rushed' \in BOOLEAN
  BY <1>3, ZenonT(20) DEF TypeOK
<1> QED
  BY <1>2, <1>4

LEMMA NoViewTyped == NoView \in View
BY DEF NoView, View

LEMMA InitTyped == Init => TypeInv
<1> SUFFICES ASSUME Init PROVE TypeInv
  OBVIOUS
<1>0. rushed \in BOOLEAN
  BY DEF Init
<1>1. TypeOK
  BY <1>0, NoViewTyped, FirstCartsAssumption DEF Init, TypeOK, Steps, Nothing, View
<1>2. AsksOK /\ \A w \in Workers : HandlerOK(w)
  BY DEF Init, AsksOK, HandlerOK
<1> QED
  BY <1>1, <1>2 DEF TypeInv

LEMMA LinesTyped ==
  ASSUME NEW c
  PROVE  LinesOf(c) \in SUBSET ItemIds /\ \A i \in LinesOf(c) : items[i] # None
BY DEF LinesOf

\* A step of one handler that ends nothing and leaves screens and histories alone.
LEMMA GoesOn ==
  ASSUME TypeInv, NEW w \in Workers, TypeOK', HandlerOK(w)', UNCHANGED <<ask, job>>,
         \A v \in Workers \ {w} : /\ pc'[v] = pc[v] /\ cart'[v] = cart[v]
                                  /\ row'[v] = row[v] /\ target'[v] = target[v]
  PROVE  TypeInv'
<1>1. ASSUME NEW v \in Workers \ {w} PROVE HandlerOK(v)'
  BY OthersOK DEF TypeInv, HandlerOK
<1> QED
  BY <1>1 DEF TypeInv, AsksOK

\* Each step of a handler leaves its locals and the tables well typed.
LEMMA ServeTyped ==
  ASSUME TypeInv, NEW w \in Workers, Serve(w) \/ Fail(w)
  PROVE  TypeInv'
<1>0. /\ TypeOK /\ AsksOK /\ HandlerOK(w)
      /\ rushed' \in BOOLEAN /\ contended' \in SUBSET Products
  BY HistoryTyped DEF TypeInv
<1>1. ASSUME NEW s \in Sessions, Receive(w, s) PROVE TypeInv'
  <2> DEFINE new == [session |-> s, request |-> ask[s]]
  <2>1. RequestOK(ask[s]) /\ new \in Job
    BY <1>0, <1>1 DEF Receive, AsksOK, RequestOK, Job
  <2>2. FirstStep(ask[s].kind) \in Steps
    BY DEF FirstStep, Steps
  <2> HIDE DEF new
  <2>3. /\ job' = [job EXCEPT ![w] = new]
        /\ pc' = [pc EXCEPT ![w] = FirstStep(ask[s].kind)]
        /\ UNCHANGED <<tables, screens, locals, bounds>>
    BY <1>1 DEF Receive, new
  <2>4. TypeOK'
    BY <1>0, <2>1, <2>2, <2>3 DEF TypeOK, tables, screens, locals, bounds
  <2>5. ASSUME NEW v \in Workers \ {w} PROVE HandlerOK(v)'
    BY <1>0, <2>3, OthersOK DEF TypeInv, TypeOK, HandlerOK, locals
  <2>6. HandlerOK(w)'
    <3>1. /\ pc'[w] = FirstStep(ask[s].kind) /\ job'[w] = new /\ new.request = ask[s]
      BY <1>0, <2>3 DEF TypeOK, new
    <3>2. ask[s].kind \in Kinds
      BY <2>1 DEF RequestOK, Request
    <3>3. /\ pc'[w] \in {"cart", "item", "order"}
          /\ pc'[w] = "cart" => ask[s].kind \in {"my_cart", "add", "clear"}
          /\ pc'[w] = "item" => ask[s].kind \in {"set", "remove"}
          /\ pc'[w] = "order" => ask[s].kind = "create"
      BY <3>1, <3>2 DEF FirstStep, Kinds
    <3> QED
      BY <2>1, <3>1, <3>3 DEF HandlerOK, Kind
  <2> QED
    BY <1>0, <2>3, <2>4, <2>5, <2>6 DEF TypeInv, AsksOK, screens
<1>2. ASSUME FindCart(w) PROVE TypeInv'
  <2>1. CASE Refuse(w)
    BY <1>0, <1>2, <2>1, EndTyped, NoViewTyped DEF Refuse, FindCart, TypeOK, tables
  <2>2. CASE ~Refuse(w)
    <3>1. /\ pc[w] = "cart"
          /\ UNCHANGED <<tables, bounds, screens, job, target, row, taken, picked>>
          /\ \/ pc' = [pc EXCEPT ![w] = "newcart"] /\ cart' = cart
             \/ pc' = [pc EXCEPT ![w] = WithCart(Kind(w))] /\ cart' = [cart EXCEPT ![w] = 1]
      BY <1>2, <2>2 DEF FindCart, locals
    <3>2. WithCart(Kind(w)) \in Steps /\ "newcart" \in Steps
      BY DEF WithCart, Steps
    <3>3. pc' \in [Workers -> Steps] /\ cart' \in [Workers -> Nat]
      <4>1. pc \in [Workers -> Steps] /\ cart \in [Workers -> Nat]
        BY <1>0 DEF TypeOK
      <4>2. CASE pc' = [pc EXCEPT ![w] = "newcart"] /\ cart' = cart
        BY <3>2, <4>1, <4>2
      <4>3. CASE pc' = [pc EXCEPT ![w] = WithCart(Kind(w))] /\ cart' = [cart EXCEPT ![w] = 1]
        BY <3>2, <4>1, <4>3
      <4> QED
        BY <3>1, <4>2, <4>3
    <3>4. TypeOK'
      BY <1>0, <3>1, <3>3 DEF TypeOK, tables, bounds, screens
    <3>5. HandlerOK(w)'
      BY <1>0, <3>1 DEF HandlerOK, TypeOK, Kind, WithCart
    <3> QED
      BY <1>0, <3>1, <3>4, <3>5, GoesOn DEF TypeOK, screens
  <2> QED
    BY <2>1, <2>2
<1>3. ASSUME NewCart(w) PROVE TypeInv'
  <2>1. WithCart(Kind(w)) \in Steps
    BY DEF WithCart, Steps
  <2>2. TypeOK'
    BY <1>0, <1>3, <2>1 DEF TypeOK, NewCart, screens, bounds
  <2>3. HandlerOK(w)'
    BY <1>0, <1>3 DEF HandlerOK, TypeOK, Kind, WithCart, NewCart
  <2> QED
    BY <1>0, <1>3, <2>2, <2>3, GoesOn DEF TypeOK, NewCart, screens
<1>4. ASSUME ReadItems(w) PROVE TypeInv'
  <2>1. [cart |-> cart[w], items |-> LinesOf(cart[w])] \in View
    BY <1>0, LinesTyped DEF TypeOK, View
  <2> QED
    BY <1>0, <1>4, <2>1, EndTyped DEF ReadItems, TypeOK, tables
<1>5. ASSUME FindLine(w) PROVE TypeInv'
  <2>1. CASE Refuse(w)
    BY <1>0, <1>5, <2>1, EndTyped, NoViewTyped DEF Refuse, FindLine, TypeOK, tables
  <2>2. CASE pc' = [pc EXCEPT ![w] = "insert"] /\ UNCHANGED <<screens, job, locals>>
    <3>1. TypeOK'
      BY <1>0, <1>5, <2>2 DEF TypeOK, Steps, FindLine, tables, bounds, screens, locals
    <3>2. HandlerOK(w)'
      BY <1>0, <1>5, <2>2 DEF HandlerOK, TypeOK, Kind, FindLine, locals
    <3> QED
      BY <1>0, <2>2, <3>1, <3>2, GoesOn DEF TypeOK, screens, locals
  <2>3. CASE \E i \in LinesFound(cart[w], job[w].request) :
               /\ target' = [target EXCEPT ![w] = i]
               /\ row' = [row EXCEPT ![w] = items[i]]
               /\ pc' = [pc EXCEPT ![w] = "save"]
               /\ UNCHANGED <<screens, job, cart, taken, picked>>
    <3>1. PICK i \in LinesFound(cart[w], job[w].request) :
               /\ target' = [target EXCEPT ![w] = i]
               /\ row' = [row EXCEPT ![w] = items[i]]
               /\ pc' = [pc EXCEPT ![w] = "save"]
               /\ UNCHANGED <<screens, job, cart, taken, picked>>
      BY <2>3
    <3>2. i \in ItemIds /\ items[i] \in Item
      BY <1>0 DEF LinesFound, LinesFor, LinesOf, TypeOK
    <3>3. TypeOK'
      BY <1>0, <1>5, <3>1, <3>2 DEF TypeOK, Steps, FindLine, tables, bounds, screens
    <3>4. HandlerOK(w)'
      BY <1>0, <1>5, <3>1, <3>2 DEF HandlerOK, TypeOK, Kind, FindLine
    <3> QED
      BY <1>0, <3>1, <3>3, <3>4, GoesOn DEF TypeOK, screens
  <2> QED
    BY <1>5, <2>1, <2>2, <2>3 DEF FindLine
<1>6. ASSUME InsertLine(w) PROVE TypeInv'
  <2> DEFINE p == job[w].request.product
             new == [cart |-> cart[w], product |-> p, qty |-> job[w].request.qty]
  <2>1. CASE pc' = [pc EXCEPT ![w] = "again"] /\ UNCHANGED <<items, drawn, screens, job, locals>>
    <3>1. TypeOK'
      BY <1>0, <1>6, <2>1 DEF TypeOK, Steps, InsertLine, bounds, screens, locals
    <3>2. HandlerOK(w)'
      BY <1>0, <1>6, <2>1 DEF HandlerOK, TypeOK, Kind, InsertLine, locals
    <3> QED
      BY <1>0, <2>1, <3>1, <3>2, GoesOn DEF TypeOK, screens, locals
  <2>2. CASE Refuse(w) /\ UNCHANGED <<items, drawn>>
    BY <1>0, <1>6, <2>2, EndTyped, NoViewTyped DEF Refuse, InsertLine, TypeOK
  <2>3. CASE /\ drawn' = drawn + 1 /\ Done(w)
             /\ items' = [items EXCEPT ![drawn + 1] = new]
    <3>1. new \in Item
      <4>1. RequestOK(job[w].request) /\ job[w].request.kind = "add" /\ cart[w] # 0
        BY <1>0, <1>6 DEF HandlerOK, InsertLine, Kind
      <4> QED
        BY <1>0, <4>1 DEF RequestOK, Request, TypeOK, Item
    <3>2. drawn' \in {0} \cup ItemIds
      BY <1>0, <1>6, <2>3, BoundsAssumption DEF InsertLine, TypeOK, ItemIds
    <3>3. items' \in [ItemIds -> Item \cup {None}]
      <4> HIDE DEF new
      <4> QED
        BY <1>0, <2>3, <3>1 DEF TypeOK
    <3> QED
      BY <1>0, <1>6, <2>3, <3>2, <3>3, EndTyped, NoViewTyped DEF Done, InsertLine, TypeOK
  <2> QED
    BY <1>6, <2>1, <2>2, <2>3 DEF InsertLine
<1>7. ASSUME FindItem(w) PROVE TypeInv'
  <2> DEFINE i == job[w].request.item
  <2>0. /\ RequestOK(job[w].request) /\ Kind(w) \in {"set", "remove"} /\ i \in ItemIds
        /\ pc[w] = "item" /\ UNCHANGED <<carts, drawn, orders, bounds>>
    BY <1>0, <1>7 DEF FindItem, HandlerOK, Kind, RequestOK
  <2> HIDE DEF i
  <2>1. CASE Refuse(w) /\ UNCHANGED items
    BY <1>0, <2>0, <2>1, EndTyped, NoViewTyped DEF Refuse, TypeOK
  <2>2. CASE /\ items[i] # None /\ Kind(w) = "set"
             /\ target' = [target EXCEPT ![w] = i] /\ row' = [row EXCEPT ![w] = items[i]]
             /\ pc' = [pc EXCEPT ![w] = "save"]
             /\ UNCHANGED <<items, screens, job, cart, taken, picked>>
    <3>1. items[i] \in Item
      BY <1>0, <2>0, <2>2 DEF TypeOK
    <3>2. TypeOK'
      BY <1>0, <2>0, <2>2, <3>1 DEF TypeOK, Steps, bounds, screens
    <3>3. HandlerOK(w)'
      BY <1>0, <2>0, <2>2, <3>1 DEF HandlerOK, TypeOK, Kind
    <3> QED
      BY <1>0, <2>2, <3>2, <3>3, GoesOn DEF TypeOK, screens
  <2>3. CASE Done(w) /\ items' = [items EXCEPT ![i] = None]
    BY <1>0, <2>0, <2>3, EndTyped, NoViewTyped DEF Done, TypeOK
  <2> QED
    BY <1>7, <2>1, <2>2, <2>3 DEF FindItem, i
<1>8. ASSUME SaveLine(w) PROVE TypeInv'
  <2> DEFINE new == [row[w] EXCEPT !.qty = NewQuantity(Kind(w), @, job[w].request.qty)]
  <2>1. /\ RequestOK(job[w].request) /\ Kind(w) \in {"add", "set"} /\ row[w] \in Item
        /\ UNCHANGED <<carts, drawn, orders, bounds>>
    BY <1>0, <1>8 DEF SaveLine, HandlerOK
  <2>2. new \in Item
    <3>1. job[w].request.qty \in Nat
      BY <2>1 DEF RequestOK, Request
    <3> QED
      BY <2>1, <3>1 DEF Item, NewQuantity
  <2> HIDE DEF new
  <2>3. CASE Refuse(w) /\ UNCHANGED items
    BY <1>0, <2>1, <2>3, EndTyped, NoViewTyped DEF Refuse, TypeOK
  <2>4. CASE Done(w) /\ items' = [items EXCEPT ![target[w]] = new]
    BY <1>0, <2>1, <2>2, <2>4, EndTyped, NoViewTyped DEF Done, TypeOK
  <2> QED
    BY <1>8, <2>3, <2>4 DEF SaveLine, new
<1>9. ASSUME ReadOrder(w) PROVE TypeInv'
  <2> DEFINE c == job[w].request.cart
             new == Amounts(LinesOf(c))
  <2>1. RequestOK(job[w].request) /\ Kind(w) = "create" /\ c \in Nat \ {0}
    BY <1>0, <1>9 DEF ReadOrder, HandlerOK, Kind, RequestOK, Request
  <2>2. new \in [Products -> Nat]
    BY <1>0, AmountsTyped, LinesTyped
  <2> HIDE DEF c, new
  <2>3. /\ pc[w] = "order" /\ cart' = [cart EXCEPT ![w] = c] /\ taken' = [taken EXCEPT ![w] = new]
        /\ pc' = [pc EXCEPT ![w] = "collect"]
        /\ UNCHANGED <<tables, screens, job, target, row, picked, bounds>>
    BY <1>9 DEF ReadOrder, c, new
  <2>4. TypeOK'
    BY <1>0, <2>1, <2>2, <2>3 DEF TypeOK, Steps, tables, bounds, screens
  <2>5. HandlerOK(w)'
    BY <1>0, <2>1, <2>3 DEF HandlerOK, TypeOK, Kind
  <2> QED
    BY <1>0, <2>3, <2>4, <2>5, GoesOn DEF TypeOK, screens
<1>10. ASSUME Collect(w) PROVE TypeInv'
  <2>1. TypeOK'
    BY <1>0, <1>10, LinesTyped DEF TypeOK, Steps, Collect, LinesToDelete, tables, bounds, screens
  <2>2. HandlerOK(w)'
    BY <1>0, <1>10 DEF HandlerOK, TypeOK, Kind, Collect
  <2> QED
    BY <1>0, <1>10, <2>1, <2>2, GoesOn DEF TypeOK, Collect, screens
<1>11. ASSUME DeleteLines(w) PROVE TypeInv'
  <2>1. items' \in [ItemIds -> Item \cup {None}]
    BY <1>0, <1>11 DEF TypeOK, DeleteLines
  <2>2. orders' \in Seq([Products -> Nat])
    <3>1. orders' = orders \/ orders' = Append(orders, taken[w])
      BY <1>11 DEF DeleteLines
    <3>2. taken[w] \in [Products -> Nat]
      BY <1>0 DEF TypeOK
    <3> DEFINE T == [Products -> Nat]
    <3>3. orders \in Seq(T) /\ taken[w] \in T
      BY <1>0, <3>2 DEF TypeOK
    <3> HIDE DEF T
    <3>4. orders' \in Seq(T)
      BY <3>1, <3>3
    <3> QED
      BY <3>4 DEF T
  <2> QED
    BY <1>0, <1>11, <2>1, <2>2, EndTyped, NoViewTyped DEF Done, DeleteLines, TypeOK
<1>12. ASSUME Fail(w) PROVE TypeInv'
  <2>1. TypeOK'
    <3>1. Answer(w, FALSE, NoView)
      BY <1>12 DEF Fail, Refuse
    <3>2. failures' = failures + 1 /\ UNCHANGED <<carts, items, drawn, orders, sends, timeouts>>
      BY <1>12 DEF Fail, tables
    <3>3. /\ pc' \in [Workers -> Steps] /\ job' \in [Workers -> Job \cup {None}]
          /\ cart' \in [Workers -> Nat] /\ target' \in [Workers -> {0} \cup ItemIds]
          /\ row' \in [Workers -> Item \cup {None}] /\ taken' \in [Workers -> [Products -> Nat]]
          /\ picked' \in [Workers -> SUBSET ItemIds]
          /\ ask' \in [Sessions -> Request \cup {None}] /\ view' \in [Sessions -> View]
      BY <3>1, AnswerTyped, NoViewTyped
    <3> QED
      BY <1>0, <3>2, <3>3 DEF TypeOK, View
  <2> QED
    BY <1>12, <2>1, AnswerTyped, NoViewTyped DEF TypeInv, Fail, Refuse
<1> QED
  BY <1>1, <1>2, <1>3, <1>4, <1>5, <1>6, <1>7, <1>8, <1>9, <1>10, <1>11, <1>12 DEF Serve

\* What the customer asks for, and no longer waits for.
LEMMA CustomerTyped ==
  ASSUME TypeInv, NEW s \in Sessions, Send(s) \/ GiveUp(s)
  PROVE  TypeInv'
<1>0. TypeOK /\ AsksOK
  BY DEF TypeInv
<1>1. CASE Send(s)
  <2>1. PICK r \in Wishes(s) : ask' = [ask EXCEPT ![s] = r]
    BY <1>1 DEF Send
  <2>2. view[s].cart \in Nat /\ view[s].items \subseteq ItemIds
    BY <1>0 DEF TypeOK
  <2>3. RequestOK(r)
    BY <2>2, AskTyped DEF Wishes
  <2>4. TypeOK'
    BY <1>0, <1>1, <2>1, <2>3 DEF TypeOK, Send, tables, locals, RequestOK, history
  <2>5. AsksOK'
    BY <1>0, <2>1, <2>3 DEF AsksOK, TypeOK
  <2>6. \A w \in Workers : HandlerOK(w)'
    BY <1>1 DEF TypeInv, HandlerOK, Kind, Send, locals
  <2> QED
    BY <2>4, <2>5, <2>6 DEF TypeInv
<1>2. CASE GiveUp(s)
  <2>1. \A w \in Workers : /\ job'[w] \in Job \cup {None}
                           /\ job[w] # None => job'[w] \in Job /\ job'[w].request = job[w].request
    BY <1>0, <1>2 DEF GiveUp, TypeOK, Job
  <2>2. job' \in [Workers -> Job \cup {None}]
    BY <1>2, <2>1 DEF GiveUp
  <2>3. TypeOK'
    BY <1>0, <1>2, <2>2 DEF TypeOK, GiveUp, tables, locals, history
  <2>4. AsksOK'
    BY <1>0, <1>2 DEF AsksOK, TypeOK, GiveUp
  <2>5. ASSUME NEW w \in Workers PROVE HandlerOK(w)'
    BY <1>2, <2>1, OthersOK, NoneTyped DEF TypeInv, HandlerOK, GiveUp, locals
  <2> QED
    BY <2>3, <2>4, <2>5 DEF TypeInv
<1> QED
  BY <1>1, <1>2

LEMMA StepTyped == TypeInv /\ [Next]_vars => TypeInv'
<1> SUFFICES ASSUME TypeInv, [Next]_vars PROVE TypeInv'
  OBVIOUS
<1>1. CASE UNCHANGED vars
  BY <1>1 DEF TypeInv, TypeOK, AsksOK, HandlerOK, Kind, vars, tables, screens, locals, bounds,
             history
<1> QED
  BY <1>1, ServeTyped, CustomerTyped DEF Next

\* Whatever the customer sends, does not wait for, or a handler dies in, the tables,
\* the screens and the handlers hold values of their kinds (orders/api.py).
THEOREM TypeCorrectness == Spec => []TypeOK
<1>1. TypeInv => TypeOK
  BY DEF TypeInv
<1> QED
  BY <1>1, InitTyped, StepTyped, PTL DEF Spec
-----------------------------------------------------------------------------
(***************************************************************************)
(* One handler at a time                                                   *)
(***************************************************************************)
\* There is one cart at most, the lines are its lines, and keys not drawn are free.
CartsOK ==
  /\ carts \in {0, 1}
  /\ \A i \in ItemIds : items[i] # None =>
       items[i].cart <= carts /\ items[i].qty # 0 /\ i <= drawn

ScreensOK ==
  \A s \in Sessions : view[s].cart <= carts /\ (ask[s] # None => ask[s].cart <= carts)

LinesApart ==
  \A i, j \in ItemIds :
    items[i] # None /\ items[j] # None /\ items[i].product = items[j].product => i = j

\* The lines of a table, and how many pieces of each product they are for.
Lines(table) == {i \in ItemIds : table[i] # None}
Held(table) ==
  [p \in Products |-> Pieces(table, {i \in Lines(table) : table[i].product = p})]

\* What the handler has seen is still so.
HandOK(w) ==
  /\ pc[w] # "idle" => job[w].request.cart <= carts
  /\ cart[w] <= carts
  /\ pc[w] = "newcart" => carts = 0
  /\ pc[w] = "insert" =>
       \A i \in ItemIds : items[i] # None => items[i].product # job[w].request.product
  /\ pc[w] # "again"
  /\ pc[w] = "save" => items[target[w]] = row[w]
  /\ pc[w] \in {"collect", "delete"} /\ Kind(w) = "create" => taken[w] = Held(items)
  /\ pc[w] = "delete" => picked[w] = Lines(items)

SoloInv == CartsOK /\ ScreensOK /\ LinesApart /\ \A w \in Workers : HandOK(w)

LEMMA InitSolo == Init => SoloInv
BY FirstCartsAssumption
   DEF Init, SoloInv, CartsOK, ScreensOK, LinesApart, HandOK, NoView

\* What the sessions see and ask after an answer is about the cart there is.
LEMMA AnswerSolo ==
  ASSUME TypeInv, ScreensOK, NEW w \in Workers, NEW ok, NEW shown \in View,
         Answer(w, ok, shown), carts' = carts, carts \in {0, 1}, shown.cart <= carts
  PROVE  ScreensOK' /\ pc'[w] = "idle" /\ HandOK(w)'
<1>1. \A kind : FollowUp(kind, ok) = None \/ FollowUp(kind, ok).cart = 0
  BY DEF FollowUp, Ask
<1>2. ScreensOK'
  BY <1>1 DEF ScreensOK, Answer, Shown, NoView, View, TypeInv, TypeOK
<1>3. pc'[w] = "idle" /\ cart'[w] = 0
  BY DEF Answer, TypeInv, TypeOK
<1> QED
  BY <1>2, <1>3 DEF HandOK

\* All lines are the one cart's.
LEMMA OneCartLines ==
  ASSUME TypeOK, CartsOK, NEW c, c \in Nat \ {0}, c <= carts
  PROVE  LinesOf(c) = Lines(items) /\ Amounts(LinesOf(c)) = Held(items)
<1>1. \A i \in ItemIds : items[i] # None => items[i].cart \in Nat \ {0} /\ items[i].cart <= carts
  BY DEF TypeOK, CartsOK, Item
<1>2. c = 1 /\ \A i \in ItemIds : items[i] # None => items[i].cart = 1
  BY <1>1 DEF CartsOK
<1>3. LinesOf(c) = Lines(items)
  BY <1>2 DEF LinesOf, Lines
<1> QED
  BY <1>3, AmountsArePieces DEF Held

\* A handler that ends leaves what the tables it leaves are.
LEMMA EndSolo ==
  ASSUME TypeInv, SoloInv, NEW w, Workers = {w}, NEW ok, NEW shown \in View,
         Answer(w, ok, shown), carts' = carts, shown.cart <= carts, CartsOK', LinesApart'
  PROVE  SoloInv'
<1>1. ScreensOK' /\ HandOK(w)'
  BY AnswerSolo DEF SoloInv, CartsOK
<1> QED
  BY <1>1 DEF SoloInv

\* A handler that goes on with the tables as they are.
LEMMA WaitSolo ==
  ASSUME SoloInv, NEW w, Workers = {w}, UNCHANGED <<tables, screens>>, HandOK(w)'
  PROVE  SoloInv'
BY DEF SoloInv, CartsOK, LinesApart, ScreensOK, tables, screens

LEMMA NoViewCart == TypeOK => NoView \in View /\ NoView.cart <= carts
BY DEF TypeOK, NoView, View

LEMMA StaySolo ==
  ASSUME SoloInv, UNCHANGED tables
  PROVE  CartsOK' /\ LinesApart'
BY DEF SoloInv, CartsOK, LinesApart, tables

LEMMA ServeSolo ==
  ASSUME TypeInv, SoloInv, NEW w, Workers = {w}, Serve(w) \/ Fail(w)
  PROVE  SoloInv'
<1>0. TypeOK /\ AsksOK /\ HandlerOK(w) /\ CartsOK /\ ScreensOK /\ LinesApart /\ HandOK(w)
  BY DEF TypeInv, SoloInv
<1>1. ASSUME Refuse(w), UNCHANGED tables PROVE SoloInv'
  BY <1>0, <1>1, EndSolo, StaySolo, NoViewCart DEF Refuse, tables
<1>2. ASSUME NEW s \in Sessions, Receive(w, s) PROVE SoloInv'
  <2>1. /\ job'[w] = [session |-> s, request |-> ask[s]] /\ ask[s].cart <= carts
        /\ pc'[w] \in {"cart", "item", "order"} /\ cart'[w] = cart[w] /\ carts' = carts
    <3>1. RequestOK(ask[s]) /\ ask[s] # None
      BY <1>0, <1>2 DEF Receive, AsksOK
    <3>2. FirstStep(ask[s].kind) \in {"cart", "item", "order"}
      BY <3>1 DEF FirstStep, RequestOK, Request, Kinds
    <3> QED
      BY <1>0, <1>2, <3>1, <3>2 DEF Receive, TypeOK, ScreensOK, locals, tables
  <2>2. HandOK(w)'
    BY <1>0, <2>1 DEF HandOK
  <2> QED
    BY <1>2, <2>2, WaitSolo DEF Receive
<1>3. ASSUME FindCart(w) PROVE SoloInv'
  <2>1. CASE Refuse(w)
    BY <1>1, <1>3, <2>1 DEF FindCart
  <2>2. CASE ~Refuse(w)
    <3>1. /\ UNCHANGED <<tables, screens, job>>
          /\ \/ pc' = [pc EXCEPT ![w] = "newcart"] /\ carts = 0 /\ cart' = cart
             \/ pc' = [pc EXCEPT ![w] = WithCart(Kind(w))] /\ carts = 1
                /\ cart' = [cart EXCEPT ![w] = 1]
      BY <1>3, <2>2 DEF FindCart, CartsFound, locals
    <3>2. WithCart(Kind(w)) \in {"items", "line", "collect"}
      BY DEF WithCart
    <3>3. WithCart(Kind(w)) = "collect" => Kind(w) # "create"
      BY <1>0, <1>3 DEF HandlerOK, FindCart
    <3>4. job[w].request.cart <= carts /\ cart[w] <= carts /\ carts' = carts /\ job' = job
          /\ pc \in [Workers -> Steps] /\ cart \in [Workers -> Nat]
      BY <1>0, <1>3, <3>1 DEF HandOK, FindCart, TypeOK, tables
    <3>5. /\ pc'[w] \in {"newcart", "items", "line", "collect"} /\ cart'[w] <= carts'
          /\ pc'[w] = "newcart" => carts' = 0
          /\ pc'[w] = "collect" => Kind(w)' # "create"
          /\ job'[w].request.cart <= carts'
      <4>1. CASE pc' = [pc EXCEPT ![w] = "newcart"] /\ carts = 0 /\ cart' = cart
        BY <3>4, <4>1 DEF Kind
      <4>2. CASE /\ pc' = [pc EXCEPT ![w] = WithCart(Kind(w))] /\ carts = 1
                 /\ cart' = [cart EXCEPT ![w] = 1]
        BY <3>2, <3>3, <3>4, <4>2 DEF Kind
      <4> QED
        BY <3>1, <4>1, <4>2
    <3>6. HandOK(w)'
      BY <3>5 DEF HandOK
    <3> QED
      BY <3>1, <3>6, WaitSolo
  <2> QED
    BY <2>1, <2>2
<1>4. ASSUME NewCart(w) PROVE SoloInv'
  <2>1. carts = 0 /\ carts' = 1 /\ items' = items /\ drawn' = drawn /\ UNCHANGED <<screens, job>>
    BY <1>0, <1>4 DEF NewCart, HandOK
  <2>2. WithCart(Kind(w)) \in {"items", "line", "collect"}
    BY DEF WithCart
  <2>3. WithCart(Kind(w)) = "collect" => Kind(w) # "create"
    BY <1>0, <1>4 DEF HandlerOK, NewCart
  <2>4. pc'[w] = WithCart(Kind(w)) /\ cart'[w] = 1 /\ Kind(w)' = Kind(w)
    BY <1>0, <1>4, <2>1 DEF NewCart, TypeOK, Kind
  <2>5. ScreensOK'
    BY <1>0, <2>1 DEF ScreensOK, TypeOK, screens, Request
  <2>6. CartsOK' /\ LinesApart'
    BY <1>0, <2>1 DEF CartsOK, LinesApart, TypeOK, Item
  <2>7. HandOK(w)'
    <3>1. job'[w] = job[w] /\ job[w].request.cart \in Nat
      BY <1>0, <1>4, <2>1 DEF HandlerOK, RequestOK, Request, NewCart
    <3> QED
      BY <1>0, <1>4, <2>1, <2>2, <2>3, <2>4, <3>1 DEF HandOK, NewCart
  <2> QED
    BY <2>5, <2>6, <2>7 DEF SoloInv
<1>5. ASSUME ReadItems(w) PROVE SoloInv'
  <2>1. [cart |-> cart[w], items |-> LinesOf(cart[w])] \in View
    BY <1>0, LinesTyped DEF TypeOK, View
  <2> QED
    BY <1>0, <1>5, <2>1, EndSolo, StaySolo DEF ReadItems, HandOK, tables
<1>6. ASSUME FindLine(w) PROVE SoloInv'
  <2>1. CASE Refuse(w)
    BY <1>1, <1>6, <2>1 DEF FindLine
  <2>2. CASE /\ LinesFound(cart[w], job[w].request) = {}
             /\ pc' = [pc EXCEPT ![w] = "insert"] /\ UNCHANGED <<screens, job, locals>>
    <3>1. cart[w] \in Nat \ {0} /\ cart[w] <= carts
      BY <1>0, <1>6 DEF HandlerOK, FindLine, HandOK, TypeOK
    <3>2. LinesOf(cart[w]) = Lines(items)
      BY <1>0, <3>1, OneCartLines
    <3>3. \A i \in ItemIds : items[i] # None => items[i].product # job[w].request.product
      BY <2>2, <3>2 DEF LinesFound, LinesFor, Lines
    <3>4. HandOK(w)'
      BY <1>0, <1>6, <2>2, <3>3 DEF HandOK, FindLine, TypeOK, tables, locals
    <3> QED
      BY <1>6, <2>2, <3>4, WaitSolo DEF FindLine
  <2>3. CASE \E i \in LinesFound(cart[w], job[w].request) :
               /\ target' = [target EXCEPT ![w] = i]
               /\ row' = [row EXCEPT ![w] = items[i]]
               /\ pc' = [pc EXCEPT ![w] = "save"]
               /\ UNCHANGED <<screens, job, cart, taken, picked>>
    <3>1. HandOK(w)'
      BY <1>0, <1>6, <2>3 DEF HandOK, FindLine, TypeOK, tables
    <3> QED
      BY <1>6, <2>3, <3>1, WaitSolo DEF FindLine
  <2> QED
    BY <1>6, <2>1, <2>2, <2>3 DEF FindLine
<1>7. ASSUME InsertLine(w) PROVE SoloInv'
  <2> DEFINE p == job[w].request.product
             new == [cart |-> cart[w], product |-> p, qty |-> job[w].request.qty]
  <2>1. \A i \in ItemIds : items[i] # None => items[i].product # p
    BY <1>0, <1>7 DEF InsertLine, HandOK
  <2>2. ~Clashes(cart[w], p, 0)
    BY <2>1 DEF Clashes, LinesFor, LinesOf
  <2>3. CASE Refuse(w) /\ UNCHANGED <<items, drawn>>
    BY <1>1, <1>7, <2>3 DEF InsertLine, tables
  <2>4. CASE /\ drawn' = drawn + 1 /\ Done(w)
             /\ items' = [items EXCEPT ![drawn + 1] = new]
    <3>1. new.cart \in Nat /\ new.cart <= carts /\ new.qty # 0 /\ new # None
      <4>1. cart[w] \in Nat /\ cart[w] # 0 /\ job[w].request.qty \in Nat \ {0} /\ p \in Products
        BY <1>0, <1>7, QuantitiesAssumption
           DEF HandlerOK, InsertLine, Kind, TypeOK, RequestOK
      <4>2. new \in Item
        BY <4>1 DEF Item
      <4> QED
        BY <1>0, <4>1, <4>2, NoneTyped DEF HandOK
    <3>2. drawn + 1 \in ItemIds /\ drawn \in Nat /\ carts' = carts
      BY <1>0, <1>7, BoundsAssumption DEF InsertLine, TypeOK, ItemIds
    <3>3. new.product = p
      OBVIOUS
    <3> HIDE DEF new, p
    <3>4. CartsOK'
      <4>1. \A i \in ItemIds : items'[i] = IF i = drawn + 1 THEN new ELSE items[i]
        BY <1>0, <2>4 DEF TypeOK
      <4> QED
        BY <1>0, <2>4, <3>1, <3>2, <4>1 DEF CartsOK, ItemIds
    <3>5. LinesApart'
      <4>1. \A i \in ItemIds : items'[i] = IF i = drawn + 1 THEN new ELSE items[i]
        BY <1>0, <2>4 DEF TypeOK
      <4> QED
        BY <1>0, <2>1, <3>3, <4>1 DEF LinesApart
    <3> QED
      BY <1>0, <2>4, <3>2, <3>4, <3>5, EndSolo, NoViewCart DEF Done
  <2> QED
    BY <1>7, <2>2, <2>3, <2>4 DEF InsertLine
<1>8. ASSUME FindItem(w) PROVE SoloInv'
  <2> DEFINE i == job[w].request.item
  <2>1. CASE Refuse(w) /\ UNCHANGED items
    BY <1>1, <1>8, <2>1 DEF FindItem, tables
  <2>2. CASE /\ target' = [target EXCEPT ![w] = i] /\ row' = [row EXCEPT ![w] = items[i]]
             /\ pc' = [pc EXCEPT ![w] = "save"]
             /\ UNCHANGED <<items, screens, job, cart, taken, picked>>
    <3>1. HandOK(w)'
      BY <1>0, <1>8, <2>2 DEF HandOK, FindItem, TypeOK
    <3> QED
      BY <1>8, <2>2, <3>1, WaitSolo DEF FindItem, tables
  <2>3. CASE Done(w) /\ items' = [items EXCEPT ![i] = None]
    <3>1. CartsOK' /\ LinesApart'
      BY <1>0, <1>8, <2>3 DEF CartsOK, LinesApart, FindItem, TypeOK
    <3> QED
      BY <1>0, <1>8, <2>3, <3>1, EndSolo, NoViewCart DEF FindItem, Done
  <2> QED
    BY <1>8, <2>1, <2>2, <2>3 DEF FindItem
<1>9. ASSUME SaveLine(w) PROVE SoloInv'
  <2> DEFINE i == target[w]
             new == [row[w] EXCEPT !.qty = NewQuantity(Kind(w), @, job[w].request.qty)]
  <2>1. CASE Refuse(w) /\ UNCHANGED items
    BY <1>1, <1>9, <2>1 DEF SaveLine, tables
  <2>2. CASE Done(w) /\ items' = [items EXCEPT ![i] = new]
    <3>1. /\ items[i] = row[w] /\ row[w] \in Item /\ i \in ItemIds
          /\ Kind(w) \in {"add", "set"} /\ job[w].request.qty \in Nat \ {0}
      BY <1>0, <1>9, QuantitiesAssumption DEF SaveLine, HandlerOK, HandOK, RequestOK, Kind
    <3>2. new.cart = items[i].cart /\ new.product = items[i].product /\ new.qty # 0
          /\ items[i] # None
      BY <3>1, NoneTyped DEF NewQuantity, Item
    <3> HIDE DEF new, i
    <3>3. \A j \in ItemIds : items'[j] = IF j = i THEN new ELSE items[j]
      BY <1>0, <2>2 DEF TypeOK
    <3>4. CartsOK' /\ LinesApart'
      BY <1>0, <1>9, <3>1, <3>2, <3>3 DEF CartsOK, LinesApart, SaveLine
    <3> QED
      BY <1>0, <1>9, <2>2, <3>4, EndSolo, NoViewCart DEF SaveLine, Done
  <2> QED
    BY <1>9, <2>1, <2>2 DEF SaveLine
<1>10. ASSUME ReadOrder(w) PROVE SoloInv'
  <2> DEFINE c == job[w].request.cart
  <2>1. c \in Nat \ {0} /\ c <= carts
    BY <1>0, <1>10 DEF ReadOrder, HandlerOK, HandOK, RequestOK, Request, Kind
  <2>2. Amounts(LinesOf(c)) = Held(items)
    BY <1>0, <2>1, OneCartLines
  <2>3. /\ pc'[w] = "collect" /\ cart'[w] = c /\ taken'[w] = Held(items) /\ job'[w] = job[w]
        /\ carts' = carts /\ items' = items
    BY <1>0, <1>10, <2>2 DEF ReadOrder, TypeOK, tables
  <2>4. HandOK(w)'
    BY <2>1, <2>3 DEF HandOK
  <2> QED
    BY <1>10, <2>4, WaitSolo DEF ReadOrder
<1>11. ASSUME Collect(w) PROVE SoloInv'
  <2>1. cart[w] \in Nat \ {0} /\ cart[w] <= carts
    BY <1>0, <1>11 DEF HandlerOK, Collect, HandOK, TypeOK
  <2>2. LinesOf(cart[w]) = Lines(items)
    BY <1>0, <2>1, OneCartLines
  <2>3. /\ pc'[w] = "delete" /\ cart'[w] = cart[w] /\ taken'[w] = taken[w]
        /\ picked'[w] = Lines(items) /\ job' = job /\ carts' = carts /\ items' = items
    BY <1>0, <1>11, <2>2 DEF Collect, LinesToDelete, TypeOK, tables
  <2>4. HandOK(w)'
    BY <1>0, <1>11, <2>3 DEF HandOK, Collect, Kind
  <2> QED
    BY <1>11, <2>4, WaitSolo DEF Collect
<1>12. ASSUME DeleteLines(w) PROVE SoloInv'
  <2>1. CartsOK' /\ LinesApart'
    BY <1>0, <1>12 DEF CartsOK, LinesApart, DeleteLines
  <2> QED
    BY <1>0, <1>12, <2>1, EndSolo, NoViewCart DEF DeleteLines, Done
<1>13. ASSUME Fail(w) PROVE SoloInv'
  BY <1>1, <1>13 DEF Fail
<1> QED
  BY <1>2, <1>3, <1>4, <1>5, <1>6, <1>7, <1>8, <1>9, <1>10, <1>11, <1>12, <1>13 DEF Serve

LEMMA CustomerSolo ==
  ASSUME TypeInv, SoloInv, NEW s \in Sessions, Send(s) \/ GiveUp(s)
  PROVE  SoloInv'
<1>0. TypeOK /\ CartsOK /\ ScreensOK /\ LinesApart /\ \A v \in Workers : HandOK(v)
  BY DEF TypeInv, SoloInv
<1>1. CASE Send(s)
  <2>1. PICK r \in Wishes(s) : ask' = [ask EXCEPT ![s] = r]
    BY <1>1 DEF Send
  <2>2. r.cart <= carts
    BY <1>0, <2>1 DEF Wishes, Ask, ScreensOK, TypeOK
  <2>3. ScreensOK'
    BY <1>0, <1>1, <2>1, <2>2 DEF ScreensOK, Send, TypeOK, tables
  <2>4. \A v \in Workers : HandOK(v)'
    BY <1>0, <1>1 DEF HandOK, Send, Kind, tables, locals
  <2> QED
    BY <1>0, <1>1, <2>3, <2>4, StaySolo DEF SoloInv, Send
<1>2. CASE GiveUp(s)
  <2>1. ScreensOK'
    BY <1>0, <1>2 DEF ScreensOK, GiveUp, TypeOK, tables
  <2>2. ASSUME NEW v \in Workers PROVE HandOK(v)'
    <3>1. pc[v] # "idle" => job[v] \in Job
      BY DEF TypeInv, HandlerOK
    <3>2. pc[v] # "idle" => job'[v].request = job[v].request
      BY <1>2, <3>1 DEF GiveUp, Job
    <3>3. UNCHANGED <<tables, pc, locals>>
      BY <1>2 DEF GiveUp
    <3> QED
      BY <1>0, <3>2, <3>3 DEF HandOK, Kind, tables, locals
  <2> QED
    BY <1>0, <1>2, <2>1, <2>2, StaySolo DEF SoloInv, GiveUp
<1> QED
  BY <1>1, <1>2

LEMMA StepSolo ==
  ASSUME NEW w, Workers = {w}
  PROVE  TypeInv /\ SoloInv /\ [Next]_vars => SoloInv'
<1> SUFFICES ASSUME TypeInv, SoloInv, [Next]_vars PROVE SoloInv'
  OBVIOUS
<1>1. CASE UNCHANGED vars
  BY <1>1 DEF SoloInv, CartsOK, ScreensOK, LinesApart, HandOK, Kind, vars, tables, screens, locals
<1> QED
  BY <1>1, ServeSolo, CustomerSolo DEF Next

LEMMA SoloInvariant ==
  ASSUME NEW w, Workers = {w}
  PROVE  Spec => [](TypeInv /\ SoloInv)
<1> USE InitTyped, StepTyped, InitSolo, StepSolo
<1> QED
  BY PTL DEF Spec

\* One worker finds the customer one cart, or makes the first
\* (Cart.objects.get_or_create, orders/api.py).
THEOREM OneCartSolo ==
  ASSUME NEW w, Workers = {w}
  PROVE  Spec => []OneCart
<1>1. TypeInv /\ SoloInv => OneCart
  BY DEF SoloInv, CartsOK, OneCart
<1> QED
  BY <1>1, SoloInvariant, PTL

\* One worker never writes a second line for a product, with or without a sku
\* (CartItem.objects.get_or_create in add_item).
THEOREM OneLineEachSolo ==
  ASSUME NEW w, Workers = {w}
  PROVE  Spec => []OneLineEach
<1>1. ASSUME TypeInv, SoloInv, NEW c \in 1..carts, NEW p \in Products
      PROVE  Cardinality(LinesFor(c, p)) <= 1
  <2>1. \A i, j \in LinesFor(c, p) : i = j
    BY <1>1 DEF SoloInv, LinesApart, LinesFor, LinesOf
  <2>2. LinesFor(c, p) = {} \/ \E i : LinesFor(c, p) = {i}
    BY <2>1
  <2>3. ASSUME NEW i, LinesFor(c, p) = {i} PROVE Cardinality(LinesFor(c, p)) = 1
    BY <2>3, FS_Singleton
  <2>4. LinesFor(c, p) = {} => Cardinality(LinesFor(c, p)) = 0
    BY FS_EmptySet
  <2> QED
    BY <2>2, <2>3, <2>4
<1>2. TypeInv /\ SoloInv => OneLineEach
  BY <1>1 DEF OneLineEach
<1> QED
  BY <1>2, SoloInvariant, PTL

\* Only the commit of create adds an order.
LEMMA OrdersGrow ==
  ASSUME TypeInv, [Next]_vars, orders' # orders
  PROVE  \E w \in Workers : /\ DeleteLines(w) /\ Kind(w) = "create"
                            /\ orders' = Append(orders, taken[w])
BY DEF Next, Serve, Fail, Send, GiveUp, Receive, FindCart, NewCart, ReadItems, FindLine,
       InsertLine, FindItem, SaveLine, ReadOrder, Collect, DeleteLines, vars, tables

\* One worker's order is for exactly the lines its commit deletes
\* (_create_order_items_from_cart, orders/api.py).
THEOREM OrderTakesTheCartSolo ==
  ASSUME NEW w, Workers = {w}
  PROVE  Spec => OrderTakesTheCart
<1>1. ASSUME TypeInv, SoloInv, [Next]_vars, Len(orders') > Len(orders)
      PROVE  Last(orders') = Amounts(Gone)
  <2>0. TypeOK /\ HandOK(w)
    BY <1>1 DEF TypeInv, SoloInv
  <2>1. orders' # orders
    BY <1>1, <2>0 DEF TypeOK
  <2>2. DeleteLines(w) /\ Kind(w) = "create" /\ orders' = Append(orders, taken[w])
    BY <1>1, <2>1, OrdersGrow
  <2>3. taken[w] = Held(items) /\ picked[w] = Lines(items)
    BY <2>0, <2>2 DEF DeleteLines, HandOK
  <2>4. Gone = Lines(items)
    BY <2>2, <2>3 DEF DeleteLines, Gone, Lines
  <2>5. Amounts(Gone) = Held(items)
    BY <2>4, AmountsArePieces DEF Held
  <2>6. Last(orders') = taken[w]
    <3> DEFINE T == [Products -> Nat]
    <3>1. orders \in Seq(T) /\ taken[w] \in T
      BY <2>0 DEF TypeOK
    <3> HIDE DEF T
    <3> QED
      BY <2>2, <3>1 DEF Last
  <2> QED
    BY <2>3, <2>5, <2>6
<1>2. TypeInv /\ SoloInv /\ [Next]_vars =>
        [Len(orders') > Len(orders) => Last(orders') = Amounts(Gone)]_vars
  BY <1>1
<1> QED
  BY <1>2, SoloInvariant, PTL DEF Spec, OrderTakesTheCart
-----------------------------------------------------------------------------
(***************************************************************************)
(* One handler at a time, the cart is CartBook's                           *)
(***************************************************************************)
\* A table with one line at most for a product.
Apart(table) ==
  /\ table \in [ItemIds -> Item \cup {None}]
  /\ \A i, j \in Lines(table) : table[i].product = table[j].product => i = j

\* It holds what its line for a product says, nothing without one.
LEMMA HeldLine ==
  ASSUME NEW table, Apart(table), NEW i \in Lines(table)
  PROVE  Held(table)[table[i].product] = table[i].qty
<1> DEFINE S == {j \in Lines(table) : table[j].product = table[i].product}
<1>1. table[i] \in Item
  BY DEF Apart, Lines
<1>2. S = {i} /\ S \ {i} = {}
  BY DEF Apart
<1>3. IsFiniteSet(S)
  BY <1>2, FS_Singleton
<1>4. Quantified(table, S)
  BY <1>1, <1>2, <1>3 DEF Quantified, Item
<1>5. Pieces(table, S) = 0 + table[i].qty
  <2> HIDE DEF S
  <2> QED
    BY <1>2, <1>3, <1>4, PiecesSplit, PiecesNone
<1> QED
  BY <1>1, <1>5 DEF Held, Item

LEMMA HeldNone ==
  ASSUME NEW table, NEW p \in Products, \A i \in Lines(table) : table[i].product # p
  PROVE  Held(table)[p] = 0
<1>1. {i \in Lines(table) : table[i].product = p} = {}
  OBVIOUS
<1> QED
  BY <1>1, PiecesNone DEF Held

\* Two tables that differ in one line, which is for p in both, n pieces of it in
\* the second.
Differs(table, other, i, p, n) ==
  /\ Apart(table) /\ Apart(other)
  /\ other = [table EXCEPT ![i] = other[i]]
  /\ i \in Lines(table) \cup Lines(other)
  /\ i \in Lines(table) => table[i].product = p
  /\ IF i \in Lines(other) THEN other[i].product = p /\ other[i].qty = n ELSE n = 0

LEMMA HeldChanges ==
  ASSUME NEW table, NEW other, NEW i \in ItemIds, NEW p \in Products, NEW n,
         Differs(table, other, i, p, n)
  PROVE  Held(other) = [Held(table) EXCEPT ![p] = n]
<1>0. Apart(table) /\ Apart(other)
  BY DEF Differs
<1>1. \A j \in ItemIds : j # i => other[j] = table[j]
  BY <1>0 DEF Apart, Differs
<1>2. ASSUME NEW q \in Products \ {p} PROVE Held(other)[q] = Held(table)[q]
  <2>1. CASE \E j \in Lines(table) : table[j].product = q
    <3>1. PICK j \in Lines(table) : table[j].product = q
      BY <2>1
    <3>2. j # i /\ j \in Lines(other) /\ other[j] = table[j]
      BY <1>1, <3>1 DEF Lines, Differs
    <3>3. Held(table)[q] = table[j].qty
      BY <1>0, <3>1, HeldLine
    <3>4. Held(other)[other[j].product] = other[j].qty
      BY <1>0, <3>2, HeldLine
    <3> QED
      BY <3>1, <3>2, <3>3, <3>4
  <2>2. CASE \A j \in Lines(table) : table[j].product # q
    <3>1. \A j \in Lines(other) : other[j].product # q
      BY <1>1, <2>2 DEF Lines, Differs
    <3> QED
      BY <2>2, <3>1, HeldNone
  <2> QED
    BY <2>1, <2>2
<1>3. Held(other)[p] = n
  <2>1. CASE i \in Lines(other)
    <3>1. Held(other)[other[i].product] = other[i].qty
      BY <1>0, <2>1, HeldLine
    <3> QED
      BY <2>1, <3>1 DEF Differs
  <2>2. CASE i \notin Lines(other)
    <3>1. i \in Lines(table) /\ table[i].product = p /\ n = 0
      BY <2>2 DEF Differs
    <3>2. ASSUME NEW j \in Lines(other), other[j].product = p PROVE FALSE
      <4>1. j # i /\ other[j] = table[j] /\ j \in Lines(table)
        BY <1>1, <2>2, <3>2 DEF Lines
      <4> QED
        BY <1>0, <3>1, <3>2, <4>1 DEF Apart
    <3>3. Held(other)[p] = 0
      BY <3>2, HeldNone
    <3> QED
      BY <3>1, <3>3
  <2> QED
    BY <2>1, <2>2
<1> QED
  BY <1>2, <1>3 DEF Held

\* What CartBook calls the cart, before and after a step.
LEMMA BookCartNow == Amounts({i \in ItemIds : items[i] # None}) = Held(items)
BY AmountsArePieces DEF Held, Lines

LEMMA BookCart ==
  /\ Amounts({i \in ItemIds : items[i] # None}) = Held(items)
  /\ Amounts({i \in ItemIds : items[i] # None})' = Held(items')
<1>1. (Amounts({i \in ItemIds : items[i] # None}) = Held(items))'
  BY BookCartNow, PTL
<1> QED
  BY <1>1, BookCartNow

LEMMA ApartNow ==
  /\ TypeOK /\ LinesApart => Apart(items)
  /\ TypeOK' /\ LinesApart' => Apart(items')
BY DEF TypeOK, LinesApart, Apart, Lines

LEMMA InitBook == Init => Book!Init
<1> SUFFICES ASSUME Init PROVE Book!Init
  OBVIOUS
<1>1. \A p \in Products : Held(items)[p] = 0
  BY HeldNone DEF Init, Lines
<1>2. Held(items) = [p \in Products |-> 0]
  BY <1>1 DEF Held
<1> QED
  BY <1>2, BookCart DEF Init, Book!Init, Book!Empty

\* The steps that write cart_items or add an order.
LEMMA ItemsChange ==
  ASSUME TypeInv, SoloInv, NEW w, Workers = {w}, [Next]_vars
  PROVE  \/ items' = items /\ orders' = orders
         \/ orders' = orders /\ pc[w] = "insert" /\ drawn < MaxItems
            /\ items' = [items EXCEPT ![drawn + 1] =
                 [cart |-> cart[w], product |-> job[w].request.product,
                  qty |-> job[w].request.qty]]
         \/ orders' = orders /\ pc[w] = "item" /\ items[job[w].request.item] # None
            /\ items' = [items EXCEPT ![job[w].request.item] = None]
         \/ orders' = orders /\ pc[w] = "save"
            /\ items' = [items EXCEPT ![target[w]] =
                 [row[w] EXCEPT !.qty = NewQuantity(Kind(w), @, job[w].request.qty)]]
         \/ DeleteLines(w)
<1>1. CASE UNCHANGED vars \/ \E s \in Sessions : Send(s) \/ GiveUp(s)
  BY <1>1 DEF vars, tables, Send, GiveUp
<1>2. CASE Fail(w) \/ \E s \in Sessions : Receive(w, s)
  BY <1>2 DEF Fail, Receive, tables
<1>3. CASE FindCart(w) \/ NewCart(w) \/ ReadItems(w) \/ FindLine(w)
  BY <1>3 DEF FindCart, NewCart, ReadItems, FindLine, tables
<1>4. CASE InsertLine(w)
  BY <1>4 DEF InsertLine
<1>5. CASE FindItem(w)
  BY <1>5 DEF FindItem
<1>6. CASE SaveLine(w)
  BY <1>6 DEF SaveLine
<1>7. CASE ReadOrder(w) \/ Collect(w)
  BY <1>7 DEF ReadOrder, Collect, tables
<1> QED
  BY <1>1, <1>2, <1>3, <1>4, <1>5, <1>6, <1>7 DEF Next, Serve

LEMMA StepBook ==
  ASSUME TypeInv, SoloInv, TypeInv', SoloInv', NEW w, Workers = {w}, [Next]_vars
  PROVE  [Book!Next]_(Book!vars)
<1> DEFINE held == Held(items)
           then == Held(items')
<1>0. /\ TypeOK /\ HandlerOK(w) /\ CartsOK /\ LinesApart /\ HandOK(w)
      /\ Apart(items) /\ Apart(items') /\ items \in [ItemIds -> Item \cup {None}]
  BY ApartNow DEF TypeInv, SoloInv, TypeOK
<1>1. held \in [Products -> Nat]
  <2>1. Lines(items) \in SUBSET ItemIds /\ \A i \in Lines(items) : items[i] # None
    BY DEF Lines
  <2>2. Amounts(Lines(items)) \in [Products -> Nat]
    BY <1>0, <2>1, AmountsTyped
  <2> QED
    BY <2>2, BookCart DEF Lines
<1>2. CASE items' = items /\ orders' = orders
  BY <1>2, BookCart DEF Book!vars
<1>3. CASE orders' = orders /\ pc[w] = "insert" /\ drawn < MaxItems
           /\ items' = [items EXCEPT ![drawn + 1] =
                [cart |-> cart[w], product |-> job[w].request.product,
                 qty |-> job[w].request.qty]]
  <2> DEFINE p == job[w].request.product
             q == job[w].request.qty
             new == [cart |-> cart[w], product |-> p, qty |-> q]
  <2>1. p \in Products /\ q \in Quantities /\ q \in Nat /\ cart[w] \in Nat \ {0}
    BY <1>0, <1>3, QuantitiesAssumption DEF HandlerOK, Kind, RequestOK, TypeOK
  <2>2. new # None /\ new.product = p /\ new.qty = q
    BY <2>1, NoneTyped DEF Item
  <2>3. drawn + 1 \in ItemIds /\ items[drawn + 1] = None
    <3>1. drawn \in Nat /\ drawn + 1 \in ItemIds
      BY <1>0, <1>3, BoundsAssumption DEF TypeOK, ItemIds
    <3> QED
      BY <1>0, <3>1 DEF CartsOK
  <2>4. held[p] = 0
    BY <1>0, <1>3, <2>1, HeldNone DEF HandOK, Lines
  <2>5. items' = [items EXCEPT ![drawn + 1] = new]
    BY <1>3
  <2> HIDE DEF p, q, new
  <2>6. then = [held EXCEPT ![p] = q]
    <3>1. Differs(items, items', drawn + 1, p, q)
      BY <1>0, <2>2, <2>3, <2>5 DEF Differs, Lines
    <3> QED
      BY <2>1, <2>3, <3>1, HeldChanges
  <2>7. then = [held EXCEPT ![p] = @ + q]
    BY <1>1, <2>1, <2>4, <2>6
  <2>8. Book!Add(p, q)
    BY <1>3, <2>7, BookCart DEF Book!Add
  <2> QED
    BY <2>1, <2>8 DEF Book!Next
<1>4. CASE orders' = orders /\ pc[w] = "item" /\ items[job[w].request.item] # None
           /\ items' = [items EXCEPT ![job[w].request.item] = None]
  <2> DEFINE i == job[w].request.item
             p == items[i].product
  <2>1. i \in ItemIds /\ items[i] \in Item /\ p \in Products
    BY <1>0, <1>4 DEF HandlerOK, Kind, RequestOK, Item
  <2>2. then = [held EXCEPT ![p] = 0]
    <3>1. Differs(items, items', i, p, 0)
      BY <1>0, <1>4, <2>1, NoneTyped DEF Differs, Lines
    <3> QED
      BY <2>1, <3>1, HeldChanges
  <2>3. Book!Remove(p)
    BY <1>4, <2>2, BookCart DEF Book!Remove
  <2> QED
    BY <2>1, <2>3 DEF Book!Next
<1>5. CASE orders' = orders /\ pc[w] = "save"
           /\ items' = [items EXCEPT ![target[w]] =
                [row[w] EXCEPT !.qty = NewQuantity(Kind(w), @, job[w].request.qty)]]
  <2> DEFINE i == target[w]
             p == row[w].product
             q == job[w].request.qty
             new == [row[w] EXCEPT !.qty = NewQuantity(Kind(w), @, q)]
  <2>1. /\ i \in ItemIds /\ items[i] = row[w] /\ items[i].product = p
        /\ row[w] \in Item /\ p \in Products
        /\ Kind(w) \in {"add", "set"} /\ q \in Quantities /\ q \in Nat
    BY <1>0, <1>5, QuantitiesAssumption DEF HandlerOK, Kind, RequestOK, Item, HandOK
  <2>2. /\ new \in Item /\ new # None /\ new.product = p
        /\ new.qty = NewQuantity(Kind(w), row[w].qty, q)
    BY <2>1, NoneTyped DEF Item, NewQuantity
  <2>3. items' = [items EXCEPT ![i] = new] /\ items[i] # None
    BY <1>5, <2>1, NoneTyped
  <2>4. held[p] = row[w].qty /\ row[w].qty \in Nat \ {0}
    <3>1. i \in Lines(items)
      BY <2>1, <2>3 DEF Lines
    <3>2. held[items[i].product] = items[i].qty
      BY <1>0, <3>1, HeldLine
    <3> QED
      BY <1>0, <2>1, <2>3, <3>2 DEF CartsOK, Item
  <2> HIDE DEF i, p, q, new
  <2>5. then = [held EXCEPT ![p] = NewQuantity(Kind(w), row[w].qty, q)]
    <3>1. Differs(items, items', i, p, new.qty)
      BY <1>0, <2>1, <2>2, <2>3 DEF Differs, Lines
    <3> QED
      BY <2>1, <2>2, <3>1, HeldChanges
  <2>6. CASE Kind(w) = "add"
    <3>1. then = [held EXCEPT ![p] = @ + q]
      BY <1>1, <2>1, <2>4, <2>5, <2>6 DEF NewQuantity
    <3>2. Book!Add(p, q)
      BY <1>5, <3>1, BookCart DEF Book!Add
    <3> QED
      BY <2>1, <3>2 DEF Book!Next
  <2>7. CASE Kind(w) = "set"
    <3>1. then = [held EXCEPT ![p] = q] /\ held[p] > 0
      BY <1>1, <2>1, <2>4, <2>5, <2>7 DEF NewQuantity
    <3>2. Book!Change(p, q)
      BY <1>5, <3>1, BookCart DEF Book!Change
    <3> QED
      BY <2>1, <3>2 DEF Book!Next
  <2> QED
    BY <2>1, <2>6, <2>7
<1>6. CASE DeleteLines(w)
  <2>1. /\ picked[w] = Lines(items) /\ Kind(w) \in {"create", "clear"}
        /\ Kind(w) = "create" => taken[w] = held
    BY <1>0, <1>6 DEF DeleteLines, HandOK, HandlerOK
  <2>2. Lines(items') = {}
    BY <1>6, <2>1 DEF DeleteLines, Lines
  <2>3. \A p \in Products : then[p] = 0
    BY <2>2, HeldNone
  <2>4. then = [p \in Products |-> 0]
    BY <2>3 DEF Held
  <2>5. CASE Kind(w) = "create"
    <3>1. Book!Checkout
      BY <1>6, <2>1, <2>4, <2>5, BookCart DEF DeleteLines, Book!Checkout, Book!Empty
    <3> QED
      BY <3>1 DEF Book!Next
  <2>6. CASE Kind(w) = "clear"
    <3>1. Book!Clear
      BY <1>6, <2>4, <2>6, BookCart DEF DeleteLines, Book!Clear, Book!Empty
    <3> QED
      BY <3>1 DEF Book!Next
  <2> QED
    BY <2>1, <2>5, <2>6
<1> QED
  BY <1>2, <1>3, <1>4, <1>5, <1>6, ItemsChange

\* With one worker the requests for a cart, the lines written one by one and the
\* orders made of them are what CartBook promises (orders/api.py).
THEOREM ImplementsCartSolo ==
  ASSUME NEW w, Workers = {w}
  PROVE  Spec => ImplementsCart
<1>1. TypeInv /\ SoloInv /\ (TypeInv /\ SoloInv)' /\ [Next]_vars => [Book!Next]_(Book!vars)
  BY StepBook
<1> QED
  BY <1>1, InitBook, SoloInvariant, PTL DEF Spec, ImplementsCart, Book!Spec
-----------------------------------------------------------------------------
(***************************************************************************)
(* Handlers that overlap                                                   *)
(***************************************************************************)
\* Who has found no cart finds the customer without one, until there was a rush.
RushInv ==
  /\ SecondCartNeedsRush
  /\ \A w \in Workers : pc[w] = "newcart" /\ ~rushed => carts = 0

\* Lines of the same product in the same cart.
Alike(x, y) == x.cart = y.cart /\ x.product = y.product

\* A key is drawn once: whatever is saved under it is for the same product.
KeysInv ==
  /\ \A i \in ItemIds : items[i] # None => i <= drawn
  /\ \A w \in Workers : pc[w] = "save" =>
       /\ target[w] <= drawn
       /\ items[target[w]] # None => Alike(items[target[w]], row[w])
  /\ \A v, w \in Workers :
       pc[v] = "save" /\ pc[w] = "save" /\ target[v] = target[w] => Alike(row[v], row[w])

\* Two lines for a product come of contention, and there are none for a SKU.
LinesInv ==
  \A i, j \in ItemIds :
    items[i] # None /\ items[j] # None /\ i # j /\ Alike(items[i], items[j])
      => items[i].product \in contended \ HasSku

\* What a handler has looked at is still so, until there was contention.
HandFresh(w) ==
  /\ pc[w] = "insert" /\ job[w].request.product \notin contended
       => LinesFor(cart[w], job[w].request.product) = {}
  /\ pc[w] = "save" /\ row[w].product \notin contended => items[target[w]] = row[w]
  /\ pc[w] \in {"collect", "delete"} /\ Kind(w) = "create"
       => \A p \in Products \ contended :
            taken[w][p] = Pieces(items, LinesFor(cart[w], p))
  /\ pc[w] = "delete" /\ Kind(w) = "create"
       => \A p \in Products \ contended :
            {i \in picked[w] : items[i] # None /\ items[i].product = p} = LinesFor(cart[w], p)

OverlapInv == KeysInv /\ LinesInv /\ \A w \in Workers : HandFresh(w)

LEMMA InitOverlap == Init => RushInv /\ OverlapInv
BY FirstCartsAssumption
   DEF Init, RushInv, SecondCartNeedsRush, OneCart, OverlapInv, KeysInv, LinesInv, HandFresh

\* A handler's step leaves the other handlers what they have.
Kept(v) ==
  /\ pc'[v] = pc[v] /\ cart'[v] = cart[v] /\ target'[v] = target[v] /\ row'[v] = row[v]
  /\ taken'[v] = taken[v] /\ picked'[v] = picked[v]
  /\ pc[v] # "idle" => job'[v].request = job[v].request

LEMMA OthersKept ==
  ASSUME TypeOK, NEW w \in Workers, Serve(w) \/ Fail(w), NEW v \in Workers \ {w}
  PROVE  Kept(v)
<1>1. ASSUME NEW ok, NEW shown, Answer(w, ok, shown) PROVE Kept(v)
  BY <1>1 DEF Answer, TypeOK, Kept
<1>2. CASE (\E s \in Sessions : Receive(w, s)) \/ ReadOrder(w) \/ Collect(w) \/ NewCart(w)
  BY <1>2 DEF TypeOK, Kept, Receive, ReadOrder, Collect, NewCart, locals
<1>3. CASE FindCart(w)
  BY <1>1, <1>3 DEF TypeOK, Kept, FindCart, Refuse, locals
<1>4. CASE ReadItems(w) \/ DeleteLines(w) \/ Fail(w)
  BY <1>1, <1>4 DEF ReadItems, DeleteLines, Fail, Done, Refuse
<1>5. CASE FindLine(w)
  BY <1>1, <1>5 DEF TypeOK, Kept, FindLine, Refuse, locals
<1>6. CASE InsertLine(w)
  BY <1>1, <1>6 DEF TypeOK, Kept, InsertLine, Refuse, Done, locals
<1>7. CASE FindItem(w)
  BY <1>1, <1>7 DEF TypeOK, Kept, FindItem, Refuse, Done, locals
<1>8. CASE SaveLine(w)
  BY <1>1, <1>8 DEF TypeOK, Kept, SaveLine, Refuse, Done, locals
<1> QED
  BY <1>2, <1>3, <1>4, <1>5, <1>6, <1>7, <1>8 DEF Serve

\* Lines change under the eyes of the others only with a word in the history.
LEMMA ChangesTold ==
  ASSUME NEW w \in Workers, Serve(w) \/ Fail(w)
  PROVE  UNCHANGED <<items, contended>> \/ Contend(w)
BY DEF Serve, Receive, FindCart, NewCart, ReadItems, FindLine, InsertLine, FindItem, SaveLine,
       ReadOrder, Collect, DeleteLines, Fail, history, tables

\* No line of a product changes.
Still(p) ==
  \A i \in ItemIds :
    items'[i] # items[i] => \A x \in {items[i], items'[i]} \ {None} : x.product # p

LEMMA StillLines ==
  ASSUME TypeOK, NEW p \in Products, NEW c, Still(p)
  PROVE  /\ LinesFor(c, p)' = LinesFor(c, p)
         /\ Pieces(items', LinesFor(c, p)) = Pieces(items, LinesFor(c, p))
<1>1. \A i \in ItemIds : (items'[i] # None /\ items'[i].product = p)
                           => items[i] = items'[i]
  BY DEF Still
<1>2. \A i \in ItemIds : (items[i] # None /\ items[i].product = p)
                           => items[i] = items'[i]
  BY DEF Still
<1>3. LinesFor(c, p)' = LinesFor(c, p)
  BY <1>1, <1>2 DEF LinesFor, LinesOf
<1> DEFINE S == LinesFor(c, p)
<1>4. S \in SUBSET ItemIds /\ \A i \in S : items[i] # None /\ items'[i] = items[i]
  BY <1>2 DEF LinesFor, LinesOf
<1>5. Quantified(items, S)
  BY <1>4, IdsFinite DEF Quantified, TypeOK, Item
<1>6. Pieces(items, S) = Pieces(items', S)
  <2> HIDE DEF S
  <2> QED
    BY <1>4, <1>5, PiecesSame
<1> QED
  BY <1>3, <1>6

LEMMA TouchedNot ==
  ASSUME NEW p \in Products, p \notin Touched
  PROVE  Still(p)
BY DEF Touched, Still

\* What another handler has looked at stays so, or is contended now.
LEMMA OthersFresh ==
  ASSUME TypeInv, NEW w \in Workers, Serve(w) \/ Fail(w), NEW v \in Workers \ {w},
         HandFresh(v)
  PROVE  HandFresh(v)'
<1>0. TypeOK /\ HandlerOK(v) /\ Kept(v)
  BY OthersKept DEF TypeInv
<1>1. ASSUME NEW p \in InHand(v), p \notin contended' PROVE p \notin contended /\ Still(p)
  <2>1. CASE UNCHANGED <<items, contended>>
    BY <1>1, <2>1 DEF Still
  <2>2. CASE Contend(w)
    <3>1. p \in Products /\ p \notin contended /\ p \notin Touched
      BY <1>1, <2>2 DEF Contend, InHand
    <3> QED
      BY <3>1, TouchedNot
  <2> QED
    BY <2>1, <2>2, ChangesTold
<1>2. ASSUME pc'[v] = "insert", job'[v].request.product \notin contended'
      PROVE  LinesFor(cart[v], job[v].request.product)' = {}
  <2> DEFINE p == job[v].request.product
  <2>1. p \in InHand(v) /\ job'[v].request = job[v].request /\ pc[v] = "insert"
        /\ p \in Products /\ cart'[v] = cart[v]
    BY <1>0, <1>2 DEF Kept, HandlerOK, RequestOK, InHand, Kind
  <2>2. p \notin contended /\ Still(p)
    BY <1>1, <1>2, <2>1
  <2>3. LinesFor(cart[v], p) = {}
    BY <2>1, <2>2 DEF HandFresh
  <2>4. \A c : LinesFor(c, p)' = LinesFor(c, p)
    <3> HIDE DEF p
    <3>1. \A i \in ItemIds : /\ items'[i] # None /\ items'[i].product = p => items[i] = items'[i]
                             /\ items[i] # None /\ items[i].product = p => items[i] = items'[i]
      BY <2>2 DEF Still
    <3>2. p' = p
      BY <2>1 DEF p
    <3> QED
      BY <3>1, <3>2 DEF LinesFor, LinesOf
  <2> QED
    BY <2>1, <2>3, <2>4 DEF LinesFor, LinesOf
<1>3. ASSUME pc'[v] = "save", row'[v].product \notin contended'
      PROVE  items'[target'[v]] = row'[v]
  <2> DEFINE p == row[v].product
  <2>1. p \in InHand(v) /\ row'[v] = row[v] /\ pc[v] = "save" /\ row[v] \in Item
        /\ target'[v] = target[v] /\ target[v] \in ItemIds
    BY <1>0, <1>3 DEF Kept, HandlerOK, InHand, Item
  <2>2. p \notin contended /\ Still(p)
    BY <1>1, <1>3, <2>1
  <2>3. items[target[v]] = row[v]
    BY <2>1, <2>2 DEF HandFresh
  <2> QED
    BY <2>1, <2>2, <2>3, NoneTyped DEF Still
<1>4. ASSUME pc'[v] \in {"collect", "delete"}, Kind(v)' = "create",
             NEW p \in Products \ contended'
      PROVE  /\ p \in Products \ contended /\ Still(p) /\ Kind(v) = "create"
             /\ taken'[v][p] = Pieces(items, LinesFor(cart[v], p))'
  <2>1. /\ pc[v] \in {"collect", "delete"} /\ Kind(v) = "create" /\ cart'[v] = cart[v]
        /\ taken'[v] = taken[v] /\ p \in InHand(v)
    BY <1>0, <1>4 DEF Kept, InHand, Kind
  <2>2. p \notin contended /\ Still(p)
    BY <1>1, <1>4, <2>1
  <2>3. taken[v][p] = Pieces(items, LinesFor(cart[v], p))
    BY <2>1, <2>2 DEF HandFresh
  <2>4. PICK c : c = cart[v]
    OBVIOUS
  <2>5. LinesFor(cart[v], p)' = LinesFor(c, p)'
    BY <2>1, <2>4 DEF LinesFor, LinesOf
  <2>6. /\ LinesFor(c, p)' = LinesFor(c, p)
        /\ Pieces(items', LinesFor(c, p)) = Pieces(items, LinesFor(c, p))
    BY <1>0, <2>2, StillLines
  <2> QED
    BY <2>1, <2>2, <2>3, <2>4, <2>5, <2>6
<1>5. ASSUME pc'[v] = "delete", Kind(v)' = "create", NEW p \in Products \ contended'
      PROVE  {i \in picked'[v] : items'[i] # None /\ items'[i].product = p}
               = LinesFor(cart[v], p)'
  <2>1. /\ pc[v] = "delete" /\ Kind(v) = "create" /\ p \in Products \ contended /\ Still(p)
        /\ cart'[v] = cart[v] /\ picked'[v] = picked[v] /\ picked[v] \in SUBSET ItemIds
    BY <1>0, <1>4, <1>5 DEF Kept, TypeOK
  <2>2. {i \in picked[v] : items[i] # None /\ items[i].product = p} = LinesFor(cart[v], p)
    BY <2>1 DEF HandFresh
  <2>3. \A i \in ItemIds : (items'[i] # None /\ items'[i].product = p)
                             <=> (items[i] # None /\ items[i].product = p)
    BY <2>1 DEF Still
  <2>4. \A i \in ItemIds : items'[i] # None /\ items'[i].product = p
                             => items'[i].cart = items[i].cart
    BY <2>1 DEF Still
  <2> QED
    BY <2>1, <2>2, <2>3, <2>4 DEF LinesFor, LinesOf
<1> QED
  BY <1>2, <1>3, <1>4, <1>5 DEF HandFresh

\* What a handler looks at is so when it has looked.
LEMMA OwnFresh ==
  ASSUME TypeInv, NEW w \in Workers, Serve(w) \/ Fail(w), HandFresh(w)
  PROVE  HandFresh(w)'
<1>0. TypeOK /\ HandlerOK(w)
  BY DEF TypeInv
<1>1. ASSUME pc'[w] \notin {"insert", "save", "collect", "delete"} PROVE HandFresh(w)'
  BY <1>1 DEF HandFresh
<1>2. ASSUME NEW ok, NEW shown, Answer(w, ok, shown) PROVE HandFresh(w)'
  BY <1>0, <1>1, <1>2 DEF Answer, TypeOK
<1>3. ASSUME NEW s \in Sessions, Receive(w, s) PROVE HandFresh(w)'
  <2>1. ask[s] \in Request
    BY <1>0, <1>3 DEF Receive, TypeOK
  <2>2. FirstStep(ask[s].kind) \in {"cart", "item", "order"}
    BY <2>1 DEF FirstStep, Request, Kinds
  <2> QED
    BY <1>0, <1>1, <1>3, <2>2 DEF Receive, TypeOK
<1>4. CASE FindCart(w) \/ NewCart(w)
  <2>1. WithCart(Kind(w)) \in {"items", "line", "collect"}
        /\ (WithCart(Kind(w)) = "collect" => Kind(w) # "create")
    BY <1>0, <1>4 DEF WithCart, HandlerOK, FindCart, NewCart
  <2>2. \/ \E ok, shown : Answer(w, ok, shown)
        \/ job' = job /\ pc' = [pc EXCEPT ![w] = "newcart"]
        \/ job' = job /\ pc' = [pc EXCEPT ![w] = WithCart(Kind(w))]
    BY <1>4 DEF FindCart, NewCart, Refuse
  <2>3. CASE job' = job /\ pc' = [pc EXCEPT ![w] = WithCart(Kind(w))]
    BY <1>0, <1>1, <2>1, <2>3 DEF HandFresh, Kind, TypeOK
  <2> QED
    BY <1>0, <1>1, <1>2, <2>2, <2>3 DEF TypeOK
<1>5. CASE ReadItems(w) \/ DeleteLines(w) \/ Fail(w)
  BY <1>2, <1>5 DEF ReadItems, DeleteLines, Fail, Done, Refuse
<1>6. CASE FindLine(w)
  <2>1. CASE Refuse(w)
    BY <1>2, <2>1 DEF Refuse
  <2>2. CASE LinesFound(cart[w], job[w].request) = {}
             /\ pc' = [pc EXCEPT ![w] = "insert"] /\ UNCHANGED <<screens, job, locals>>
    <3>1. LinesFor(cart[w], job[w].request.product)' = {}
      BY <1>6, <2>2 DEF FindLine, LinesFound, LinesFor, LinesOf, tables, locals
    <3> QED
      BY <1>0, <2>2, <3>1 DEF HandFresh, TypeOK
  <2>3. CASE \E i \in LinesFound(cart[w], job[w].request) :
               /\ target' = [target EXCEPT ![w] = i]
               /\ row' = [row EXCEPT ![w] = items[i]]
               /\ pc' = [pc EXCEPT ![w] = "save"]
               /\ UNCHANGED <<screens, job, cart, taken, picked>>
    BY <1>0, <1>6, <2>3 DEF HandFresh, TypeOK, FindLine, tables
  <2> QED
    BY <1>6, <2>1, <2>2, <2>3 DEF FindLine
<1>7. CASE InsertLine(w)
  <2>1. \/ \E ok, shown : Answer(w, ok, shown)
        \/ pc' = [pc EXCEPT ![w] = "again"]
    BY <1>7 DEF InsertLine, Refuse, Done
  <2> QED
    BY <1>0, <1>1, <1>2, <2>1 DEF TypeOK
<1>8. CASE FindItem(w)
  <2> DEFINE i == job[w].request.item
  <2>1. \/ \E ok, shown : Answer(w, ok, shown)
        \/ /\ target' = [target EXCEPT ![w] = i] /\ row' = [row EXCEPT ![w] = items[i]]
           /\ pc' = [pc EXCEPT ![w] = "save"] /\ items' = items
    BY <1>8 DEF FindItem, Refuse, Done
  <2> QED
    BY <1>0, <1>2, <2>1 DEF HandFresh, TypeOK
<1>9. CASE SaveLine(w)
  BY <1>2, <1>9 DEF SaveLine, Refuse, Done
<1>10. CASE ReadOrder(w)
  <2> DEFINE c == job[w].request.cart
  <2>1. /\ pc'[w] = "collect" /\ cart'[w] = c /\ taken'[w] = Amounts(LinesOf(c))
        /\ items' = items
    BY <1>0, <1>10 DEF ReadOrder, TypeOK, tables
  <2>2. \A p \in Products : taken'[w][p] = Pieces(items, LinesFor(c, p))
    BY <2>1, AmountsArePieces DEF LinesFor
  <2>3. \A p \in Products : LinesFor(cart[w], p)' = LinesFor(c, p)
    BY <2>1 DEF LinesFor, LinesOf
  <2> QED
    BY <2>1, <2>2, <2>3 DEF HandFresh
<1>11. CASE Collect(w)
  <2>1. /\ pc[w] = "collect" /\ pc'[w] = "delete" /\ cart' = cart /\ taken' = taken
        /\ picked'[w] = LinesOf(cart[w]) /\ items' = items /\ contended' = contended
        /\ job' = job
    BY <1>0, <1>11 DEF Collect, TypeOK, tables, LinesToDelete, history
  <2>2. \A p : LinesFor(cart[w], p)' = LinesFor(cart[w], p)
    BY <2>1 DEF LinesFor, LinesOf
  <2>3. \A p : {i \in LinesOf(cart[w]) : items[i] # None /\ items[i].product = p}
                 = LinesFor(cart[w], p)
    BY DEF LinesFor, LinesOf
  <2> QED
    BY <2>1, <2>2, <2>3 DEF HandFresh, Kind
<1> QED
  BY <1>3, <1>4, <1>5, <1>6, <1>7, <1>8, <1>9, <1>10, <1>11 DEF Serve

\* The lines a step leaves were there, or are one more that somebody may add.
Fewer == \A i \in ItemIds : items'[i] # None => items[i] # None /\ Alike(items'[i], items[i])

OneMore(i, x) ==
  /\ items[i] = None /\ items' = [items EXCEPT ![i] = x]
  /\ x \in Item
  /\ LinesFor(x.cart, x.product) = {} \/ x.product \in contended \ HasSku

LEMMA StepLines ==
  ASSUME TypeInv, OverlapInv, NEW w \in Workers, Serve(w) \/ Fail(w)
  PROVE  /\ contended \subseteq contended'
         /\ drawn' \in Nat /\ drawn <= drawn'
         /\ \/ Fewer
            \/ OneMore(drawn + 1, items'[drawn + 1]) /\ drawn' = drawn + 1
               /\ drawn + 1 \in ItemIds
            \/ pc[w] = "save" /\ OneMore(target[w], items'[target[w]])
               /\ Alike(items'[target[w]], row[w])
<1>0. TypeOK /\ HandlerOK(w) /\ KeysInv /\ HandFresh(w)
  BY DEF TypeInv, OverlapInv
<1>1. contended \subseteq contended'
  BY ChangesTold DEF Contend
<1>2. drawn \in Nat
  BY <1>0 DEF TypeOK, ItemIds
<1>3. ASSUME items' = items, drawn' = drawn
      PROVE  Fewer /\ drawn' \in Nat /\ drawn <= drawn'
  BY <1>2, <1>3 DEF Fewer, Alike
<1>4. CASE UNCHANGED tables \/ NewCart(w)
  BY <1>1, <1>3, <1>4 DEF tables, NewCart
<1>5. CASE InsertLine(w)
  <2> DEFINE p == job[w].request.product
             new == [cart |-> cart[w], product |-> p, qty |-> job[w].request.qty]
  <2>1. CASE UNCHANGED <<items, drawn>>
    BY <1>1, <1>3, <2>1
  <2>2. CASE ~Clashes(cart[w], p, 0) /\ drawn' = drawn + 1
             /\ items' = [items EXCEPT ![drawn + 1] = new]
    <3>1. /\ cart[w] \in Nat \ {0} /\ p \in Products /\ job[w].request.qty \in Nat
          /\ pc[w] = "insert"
      BY <1>0, <1>5, QuantitiesAssumption DEF InsertLine, HandlerOK, Kind, RequestOK, TypeOK
    <3>2. new \in Item /\ new.cart = cart[w] /\ new.product = p
      BY <3>1 DEF Item
    <3>3. drawn + 1 \in ItemIds
      BY <1>2, <1>5, BoundsAssumption DEF InsertLine, ItemIds
    <3>4. items[drawn + 1] = None
      BY <1>0, <1>2, <3>3 DEF KeysInv
    <3>5. LinesFor(cart[w], p) = {} \/ p \in contended \ HasSku
      <4>1. 0 \notin LinesFor(cart[w], p)
        BY DEF LinesFor, LinesOf, ItemIds
      <4>2. p \in HasSku => LinesFor(cart[w], p) = {}
        BY <2>2, <4>1 DEF Clashes
      <4> QED
        BY <1>0, <3>1, <4>2 DEF HandFresh
    <3> HIDE DEF new, p
    <3>6. items'[drawn + 1] = new
      BY <1>0, <2>2, <3>3 DEF TypeOK
    <3>7. OneMore(drawn + 1, items'[drawn + 1])
      BY <2>2, <3>2, <3>4, <3>5, <3>6 DEF OneMore
    <3> QED
      BY <1>1, <1>2, <2>2, <3>3, <3>7
  <2> QED
    BY <1>5, <2>1, <2>2 DEF InsertLine
<1>6. CASE FindItem(w) \/ DeleteLines(w)
  <2>1. \A i \in ItemIds : items'[i] # None => items'[i] = items[i]
    BY <1>0, <1>6 DEF FindItem, DeleteLines, TypeOK
  <2>2. drawn' = drawn
    BY <1>6 DEF FindItem, DeleteLines
  <2> QED
    BY <1>1, <1>2, <2>1, <2>2 DEF Fewer, Alike
<1>7. CASE SaveLine(w)
  <2> DEFINE i == target[w]
             new == [row[w] EXCEPT !.qty = NewQuantity(Kind(w), @, job[w].request.qty)]
  <2>1. CASE UNCHANGED items
    BY <1>1, <1>3, <1>7, <2>1 DEF SaveLine
  <2>2. CASE ~(items[i] = None /\ Clashes(new.cart, new.product, i))
             /\ items' = [items EXCEPT ![i] = new]
    <3>1. /\ pc[w] = "save" /\ row[w] \in Item /\ i \in ItemIds /\ drawn' = drawn
          /\ Kind(w) \in {"add", "set"} /\ job[w].request.qty \in Nat
      BY <1>0, <1>7, QuantitiesAssumption DEF SaveLine, HandlerOK, RequestOK, Kind
    <3>2. new \in Item /\ Alike(new, row[w])
      BY <3>1 DEF NewQuantity, Item, Alike
    <3> HIDE DEF new, i
    <3>3. items'[i] = new /\ \A j \in ItemIds \ {i} : items'[j] = items[j]
      BY <1>0, <2>2, <3>1 DEF TypeOK
    <3>4. CASE items[i] # None
      <4>1. Alike(items[i], row[w])
        BY <1>0, <3>1, <3>4 DEF KeysInv, i
      <4>2. Fewer
        BY <3>2, <3>3, <3>4, <4>1 DEF Fewer, Alike
      <4> QED
        BY <1>1, <1>2, <3>1, <4>2
    <3>5. CASE items[i] = None
      <4>1. row[w].product \in contended
        BY <1>0, <3>1, <3>5, NoneTyped DEF HandFresh, i
      <4>2. new.product \in HasSku => LinesFor(new.cart, new.product) = {}
        <5>1. i \notin LinesFor(new.cart, new.product)
          BY <3>5 DEF LinesFor, LinesOf
        <5> QED
          BY <2>2, <3>5, <5>1 DEF Clashes
      <4>3. OneMore(i, items'[i])
        BY <2>2, <3>2, <3>3, <3>5, <4>1, <4>2 DEF OneMore, Alike
      <4> QED
        BY <1>1, <1>2, <3>1, <3>2, <3>3, <4>3 DEF i
    <3> QED
      BY <3>4, <3>5
  <2> QED
    BY <1>7, <2>1, <2>2 DEF SaveLine
<1> QED
  BY <1>4, <1>5, <1>6, <1>7
     DEF Serve, Receive, FindCart, ReadItems, FindLine, ReadOrder, Collect, Fail

LEMMA LinesStep ==
  ASSUME TypeInv, OverlapInv, NEW w \in Workers, Serve(w) \/ Fail(w)
  PROVE  LinesInv'
<1>0. TypeOK /\ LinesInv /\ contended \subseteq contended'
  BY StepLines DEF TypeInv, OverlapInv
<1>1. CASE Fewer
  BY <1>0, <1>1 DEF Fewer, LinesInv, Alike
<1>2. ASSUME NEW k \in ItemIds, OneMore(k, items'[k]) PROVE LinesInv'
  <2> DEFINE x == items'[k]
  <2>1. \A j \in ItemIds \ {k} : items'[j] = items[j]
    BY <1>0, <1>2 DEF OneMore, TypeOK
  <2>2. \A j \in ItemIds \ {k} : items[j] # None /\ Alike(items[j], x) =>
          x.product \in contended \ HasSku
    <3>1. LinesFor(x.cart, x.product) = {} \/ x.product \in contended \ HasSku
      BY <1>2 DEF OneMore
    <3> HIDE DEF x
    <3> QED
      BY <3>1 DEF LinesFor, LinesOf, Alike
  <2>3. ASSUME NEW i \in ItemIds, NEW j \in ItemIds,
               items'[i] # None, items'[j] # None, i # j, Alike(items'[i], items'[j])
        PROVE  items'[i].product \in contended' \ HasSku
    <3>1. CASE i # k /\ j # k
      BY <1>0, <2>1, <2>3, <3>1 DEF LinesInv
    <3>2. CASE i = k
      BY <1>0, <2>1, <2>2, <2>3, <3>2 DEF Alike
    <3>3. CASE j = k
      BY <1>0, <2>1, <2>2, <2>3, <3>3 DEF Alike
    <3> QED
      BY <3>1, <3>2, <3>3
  <2> QED
    BY <2>3 DEF LinesInv
<1>3. pc[w] = "save" => target[w] \in ItemIds
  BY DEF TypeInv, HandlerOK
<1> QED
  BY <1>1, <1>2, <1>3, StepLines

\* A handler that comes to save has just read a line.
LEMMA SaveAhead ==
  ASSUME TypeInv, NEW w \in Workers, Serve(w) \/ Fail(w), pc'[w] = "save"
  PROVE  /\ items' = items /\ target'[w] \in ItemIds
         /\ items[target'[w]] # None /\ row'[w] = items[target'[w]]
<1>0. TypeOK /\ HandlerOK(w)
  BY DEF TypeInv
<1>1. \A ok, shown : ~Answer(w, ok, shown)
  BY <1>0 DEF Answer, TypeOK
<1>2. CASE FindLine(w)
  <2>1. \E i \in LinesFound(cart[w], job[w].request) :
          /\ target' = [target EXCEPT ![w] = i] /\ row' = [row EXCEPT ![w] = items[i]]
    BY <1>0, <1>1, <1>2 DEF FindLine, Refuse, TypeOK
  <2> QED
    BY <1>0, <1>2, <2>1 DEF FindLine, LinesFound, LinesFor, LinesOf, TypeOK, tables
<1>3. CASE FindItem(w)
  <2>1. /\ items[job[w].request.item] # None /\ items' = items
        /\ target' = [target EXCEPT ![w] = job[w].request.item]
        /\ row' = [row EXCEPT ![w] = items[job[w].request.item]]
    BY <1>1, <1>3 DEF FindItem, Refuse, Done
  <2>2. job[w].request.item \in ItemIds
    BY <1>0, <1>3 DEF FindItem, HandlerOK, Kind, RequestOK
  <2> QED
    BY <1>0, <2>1, <2>2 DEF TypeOK
<1>4. ~\E s \in Sessions : Receive(w, s)
  <2>1. \A kind : FirstStep(kind) # "save"
    BY DEF FirstStep
  <2> QED
    BY <1>0, <2>1 DEF Receive, TypeOK
<1>5. ~FindCart(w) /\ ~NewCart(w)
  <2>1. \A kind : WithCart(kind) # "save"
    BY DEF WithCart
  <2>2. FindCart(w) \/ NewCart(w) =>
          pc' = [pc EXCEPT ![w] = "newcart"] \/ pc' = [pc EXCEPT ![w] = WithCart(Kind(w))]
    BY <1>1 DEF FindCart, NewCart, Refuse
  <2> QED
    BY <1>0, <2>1, <2>2 DEF TypeOK
<1>6. ~ReadItems(w) /\ ~DeleteLines(w) /\ ~Fail(w) /\ ~SaveLine(w)
  BY <1>1 DEF ReadItems, DeleteLines, Fail, SaveLine, Done, Refuse
<1>7. ~InsertLine(w) /\ ~ReadOrder(w) /\ ~Collect(w)
  BY <1>0, <1>1 DEF InsertLine, ReadOrder, Collect, Done, Refuse, TypeOK
<1> QED
  BY <1>2, <1>3, <1>4, <1>5, <1>6, <1>7 DEF Serve

LEMMA KeysStep ==
  ASSUME TypeInv, TypeInv', OverlapInv, NEW w \in Workers, Serve(w) \/ Fail(w)
  PROVE  KeysInv'
<1>0. TypeOK /\ KeysInv /\ drawn \in Nat /\ drawn' \in Nat /\ drawn <= drawn'
  BY StepLines DEF TypeInv, TypeOK, OverlapInv, ItemIds
<1>1. \A i \in ItemIds : items'[i] # None =>
        \/ items[i] # None /\ Alike(items'[i], items[i])
        \/ i = drawn + 1 /\ drawn' = drawn + 1
        \/ pc[w] = "save" /\ target[w] = i /\ Alike(items'[i], row[w])
  <2>1. CASE Fewer
    BY <2>1 DEF Fewer
  <2>2. ASSUME NEW k \in ItemIds, OneMore(k, items'[k])
        PROVE  \A i \in ItemIds \ {k} : items'[i] = items[i]
    BY <1>0, <2>2 DEF OneMore, TypeOK
  <2>3. CASE OneMore(drawn + 1, items'[drawn + 1]) /\ drawn' = drawn + 1
             /\ drawn + 1 \in ItemIds
    BY <2>2, <2>3 DEF Alike
  <2>4. CASE pc[w] = "save" /\ OneMore(target[w], items'[target[w]])
             /\ Alike(items'[target[w]], row[w])
    <3>1. target[w] \in ItemIds
      BY <2>4 DEF TypeInv, HandlerOK
    <3> QED
      BY <2>2, <2>4, <3>1 DEF Alike
  <2> QED
    BY <2>1, <2>3, <2>4, StepLines
<1>2. ItemIds \subseteq Nat
  BY DEF ItemIds
<1>3. \A i \in ItemIds : items'[i] # None => i <= drawn'
  <2>1. pc[w] = "save" => target[w] <= drawn
    BY <1>0 DEF KeysInv
  <2>2. ASSUME NEW i \in ItemIds, items'[i] # None PROVE i <= drawn'
    <3>1. i \in Nat /\ (items[i] # None => i <= drawn)
      BY <1>0, <1>2 DEF KeysInv
    <3>2. i <= drawn \/ i = drawn'
      BY <1>1, <2>1, <2>2, <3>1
    <3> QED
      BY <1>0, <3>1, <3>2
  <2> QED
    BY <2>2
<1>4. ASSUME NEW v \in Workers, pc'[v] = "save"
      PROVE  /\ target'[v] <= drawn'
             /\ items'[target'[v]] # None => Alike(items'[target'[v]], row'[v])
  <2>1. CASE v = w
    <3>1. /\ items' = items /\ target'[w] \in ItemIds
          /\ items[target'[w]] # None /\ row'[w] = items[target'[w]]
      BY <1>4, <2>1, SaveAhead
    <3>2. target'[v] <= drawn'
      BY <1>3, <2>1, <3>1
    <3> QED
      BY <2>1, <3>1, <3>2 DEF Alike
  <2>2. CASE v # w
    <3>1. pc[v] = "save" /\ target'[v] = target[v] /\ row'[v] = row[v]
          /\ target[v] \in ItemIds /\ target[v] <= drawn
      BY <1>0, <1>4, <2>2, OthersKept DEF Kept, KeysInv, TypeInv, HandlerOK
    <3>2. items[target[v]] # None => Alike(items[target[v]], row[v])
      BY <1>0, <3>1 DEF KeysInv
    <3>3. pc[w] = "save" /\ target[w] = target[v] => Alike(row[w], row[v])
      BY <1>0, <3>1 DEF KeysInv
    <3>4. target[v] # drawn + 1 /\ target[v] <= drawn'
      <4>1. target[v] \in Nat
        BY <1>2, <3>1
      <4> QED
        BY <1>0, <3>1, <4>1
    <3> QED
      BY <1>1, <3>1, <3>2, <3>3, <3>4 DEF Alike
  <2> QED
    BY <2>1, <2>2
<1>5. ASSUME NEW u \in Workers, NEW v \in Workers,
             pc'[u] = "save", pc'[v] = "save", target'[u] = target'[v]
      PROVE  Alike(row'[u], row'[v])
  <2>1. CASE u # w /\ v # w
    <3>1. /\ pc[u] = "save" /\ target'[u] = target[u] /\ row'[u] = row[u]
          /\ pc[v] = "save" /\ target'[v] = target[v] /\ row'[v] = row[v]
      BY <1>0, <1>5, <2>1, OthersKept DEF Kept
    <3> QED
      BY <1>0, <1>5, <3>1 DEF KeysInv
  <2>2. CASE u = w \/ v = w
    <3>1. items'[target'[w]] = row'[w] /\ items'[target'[w]] # None
      BY <1>0, <1>5, <2>2, SaveAhead
    <3> QED
      BY <1>4, <1>5, <2>2, <3>1 DEF Alike
  <2> QED
    BY <2>1, <2>2
<1> QED
  BY <1>3, <1>4, <1>5 DEF KeysInv

LEMMA RushStep ==
  ASSUME TypeInv, RushInv, NEW w \in Workers, Serve(w) \/ Fail(w)
  PROVE  RushInv'
<1>0. TypeOK
  BY DEF TypeInv
<1>1. CASE NewCart(w)
  <2>1. /\ pc[w] = "newcart" /\ carts' = carts + 1 /\ carts \in Nat
        /\ pc'[w] # "newcart"
    <3>1. WithCart(Kind(w)) # "newcart"
      BY DEF WithCart
    <3> QED
      BY <1>0, <1>1, <3>1 DEF NewCart, TypeOK
  <2>2. ASSUME ~rushed' PROVE ~rushed /\ \A v \in Workers \ {w} : pc[v] # "newcart"
    BY <1>1, <2>2 DEF NewCart
  <2>3. \A v \in Workers \ {w} : pc'[v] = pc[v]
    BY <1>0, <1>1 DEF NewCart, TypeOK
  <2>4. ~rushed' => carts' <= 1
    BY <2>1, <2>2 DEF RushInv
  <2>5. ~rushed' => \A v \in Workers : pc'[v] # "newcart"
    BY <2>1, <2>2, <2>3
  <2> QED
    BY <2>4, <2>5 DEF RushInv, SecondCartNeedsRush, OneCart
<1>2. CASE ~NewCart(w)
  <2>1. carts' = carts /\ rushed' = rushed
    BY <1>2 DEF Serve, Receive, FindCart, ReadItems, FindLine, InsertLine, FindItem, SaveLine,
                ReadOrder, Collect, DeleteLines, Fail, tables, history
  <2>2. ASSUME NEW v \in Workers, pc'[v] = "newcart"
        PROVE  pc[v] = "newcart" \/ carts = 0
    <3>1. CASE v # w
      BY <1>0, <2>2, <3>1, OthersKept DEF Kept
    <3>2. CASE v = w
      <4>1. \A ok, shown : ~Answer(w, ok, shown)
        BY <1>0, <2>2, <3>2 DEF Answer, TypeOK
      <4>2. CASE FindCart(w)
        <5>1. WithCart(Kind(w)) # "newcart"
          BY DEF WithCart
        <5> QED
          BY <1>0, <2>2, <3>2, <4>1, <4>2, <5>1 DEF FindCart, CartsFound, Refuse, TypeOK
      <4>3. ~\E s \in Sessions : Receive(w, s)
        <5>1. \A kind : FirstStep(kind) # "newcart"
          BY DEF FirstStep
        <5> QED
          BY <1>0, <2>2, <3>2, <5>1 DEF Receive, TypeOK
      <4>4. ~ReadItems(w) /\ ~DeleteLines(w) /\ ~Fail(w) /\ ~SaveLine(w)
        BY <4>1 DEF ReadItems, DeleteLines, Fail, SaveLine, Done, Refuse
      <4>5. ~InsertLine(w) /\ ~ReadOrder(w) /\ ~Collect(w)
        BY <1>0, <2>2, <3>2, <4>1 DEF InsertLine, ReadOrder, Collect, Done, Refuse, TypeOK
      <4>6. ~FindLine(w) /\ ~FindItem(w)
        BY <1>0, <2>2, <3>2, <4>1 DEF FindLine, FindItem, Done, Refuse, TypeOK
      <4> QED
        BY <1>2, <4>2, <4>3, <4>4, <4>5, <4>6 DEF Serve
    <3> QED
      BY <3>1, <3>2
  <2>3. SecondCartNeedsRush'
    BY <2>1 DEF RushInv, SecondCartNeedsRush, OneCart
  <2> QED
    BY <2>1, <2>2, <2>3 DEF RushInv
<1> QED
  BY <1>1, <1>2

\* What the customer does disturbs no handler.
LEMMA Resting ==
  ASSUME TypeInv, RushInv, OverlapInv,
         UNCHANGED vars \/ \E s \in Sessions : Send(s) \/ GiveUp(s)
  PROVE  RushInv' /\ OverlapInv'
<1>0. TypeOK /\ \A v \in Workers : HandlerOK(v)
  BY DEF TypeInv
<1>1. UNCHANGED <<tables, pc, locals, history>>
  BY DEF vars, Send, GiveUp
<1>2. ASSUME NEW v \in Workers, pc[v] # "idle" PROVE job'[v].request = job[v].request
  <2>1. job[v] \in Job
    BY <1>0, <1>2 DEF HandlerOK
  <2> QED
    BY <2>1 DEF vars, Send, GiveUp, Job
<1>3. RushInv'
  BY <1>1 DEF RushInv, SecondCartNeedsRush, OneCart, tables, history
<1>4. KeysInv' /\ LinesInv'
  <2>1. /\ items' = items /\ drawn' = drawn /\ pc' = pc /\ target' = target /\ row' = row
        /\ contended' = contended
    BY <1>1 DEF tables, locals, history
  <2>2. KeysInv'
    BY <2>1 DEF OverlapInv, KeysInv, Alike
  <2>3. LinesInv'
    BY <2>1 DEF OverlapInv, LinesInv, Alike
  <2> QED
    BY <2>2, <2>3
<1>5. ASSUME NEW v \in Workers PROVE HandFresh(v)'
  <2>1. /\ HandFresh(v) /\ items' = items /\ contended' = contended /\ pc'[v] = pc[v]
        /\ cart'[v] = cart[v] /\ target'[v] = target[v] /\ row'[v] = row[v]
        /\ taken'[v] = taken[v] /\ picked'[v] = picked[v]
    BY <1>1 DEF OverlapInv, tables, locals, history
  <2>2. \A p : LinesFor(cart[v], p)' = LinesFor(cart[v], p)
    BY <2>1 DEF LinesFor, LinesOf
  <2>3. CASE pc[v] = "idle"
    BY <2>1, <2>3 DEF HandFresh
  <2>4. CASE pc[v] # "idle"
    <3>1. job'[v].request = job[v].request
      BY <1>2, <2>4
    <3>2. LinesFor(cart[v], job[v].request.product)'
            = LinesFor(cart[v], job[v].request.product)
      BY <2>1, <3>1 DEF LinesFor, LinesOf
    <3> QED
      BY <2>1, <2>2, <3>1, <3>2 DEF HandFresh, Kind
  <2> QED
    BY <2>3, <2>4
<1> QED
  BY <1>3, <1>4, <1>5 DEF OverlapInv

LEMMA StepOverlap ==
  TypeInv /\ TypeInv' /\ RushInv /\ OverlapInv /\ [Next]_vars => RushInv' /\ OverlapInv'
<1> SUFFICES ASSUME TypeInv, TypeInv', RushInv, OverlapInv, [Next]_vars
             PROVE  RushInv' /\ OverlapInv'
  OBVIOUS
<1>1. ASSUME NEW w \in Workers, Serve(w) \/ Fail(w) PROVE RushInv' /\ OverlapInv'
  <2>1. ASSUME NEW v \in Workers PROVE HandFresh(v)'
    BY <1>1, OthersFresh, OwnFresh DEF OverlapInv
  <2>2. KeysInv' /\ LinesInv' /\ RushInv'
    BY <1>1, KeysStep, LinesStep, RushStep
  <2> QED
    BY <2>1, <2>2 DEF OverlapInv
<1> QED
  BY <1>1, Resting DEF Next

LEMMA OverlapInvariant == Spec => [](TypeInv /\ RushInv /\ OverlapInv)
<1>1. TypeInv /\ RushInv /\ OverlapInv /\ [Next]_vars => (TypeInv /\ RushInv /\ OverlapInv)'
  BY StepTyped, StepOverlap
<1> QED
  BY <1>1, InitTyped, InitOverlap, PTL DEF Spec

\* However many handlers overlap, a second cart is made only by one that had found
\* none when another made the first (Cart.objects.get_or_create, orders/api.py).
THEOREM SecondCartsExplained == Spec => []SecondCartNeedsRush
<1>1. RushInv => SecondCartNeedsRush
  BY DEF RushInv
<1> QED
  BY <1>1, OverlapInvariant, PTL

\* However many handlers overlap, a SKU has one line in a cart, and another product
\* has two only if its lines were changed between a handler's look and its act
\* (CartItem.objects.get_or_create, cart_item.save and unique_together).
THEOREM SecondLinesExplained == Spec => []SecondLineNeedsContention
<1>1. ASSUME LinesInv, NEW c \in 1..carts, NEW p \in Products, p \in HasSku \/ p \notin contended
      PROVE  Cardinality(LinesFor(c, p)) <= 1
  <2>1. \A i, j \in LinesFor(c, p) : i = j
    BY <1>1 DEF LinesInv, Alike, LinesFor, LinesOf
  <2>2. LinesFor(c, p) = {} \/ \E i : LinesFor(c, p) = {i}
    BY <2>1
  <2>3. ASSUME NEW i, LinesFor(c, p) = {i} PROVE Cardinality(LinesFor(c, p)) = 1
    BY <2>3, FS_Singleton
  <2>4. LinesFor(c, p) = {} => Cardinality(LinesFor(c, p)) = 0
    BY FS_EmptySet
  <2> QED
    BY <2>2, <2>3, <2>4
<1>2. OverlapInv => SecondLineNeedsContention
  BY <1>1 DEF OverlapInv, SecondLineNeedsContention
<1> QED
  BY <1>2, OverlapInvariant, PTL

\* However many handlers overlap, an order is for what its commit deletes, product
\* by product, but for those whose lines were changed between create's look and
\* its act (_create_order_items_from_cart and cart.items.all().delete()).
THEOREM LostLinesExplained == Spec => LostLineNeedsContention
<1>1. ASSUME TypeInv, OverlapInv, [Next]_vars, Len(orders') > Len(orders),
             NEW p \in Products \ contended
      PROVE  Last(orders')[p] = Amounts(Gone)[p]
  <2>0. TypeOK
    BY <1>1 DEF TypeInv
  <2>1. orders' # orders
    BY <1>1
  <2>2. PICK w \in Workers :
          DeleteLines(w) /\ Kind(w) = "create" /\ orders' = Append(orders, taken[w])
    BY <1>1, <2>1, OrdersGrow
  <2>3. /\ taken[w][p] = Pieces(items, LinesFor(cart[w], p))
        /\ {i \in picked[w] : items[i] # None /\ items[i].product = p} = LinesFor(cart[w], p)
    BY <1>1, <2>2 DEF OverlapInv, HandFresh, DeleteLines
  <2>4. Gone = {i \in picked[w] : items[i] # None}
    BY <2>0, <2>2 DEF DeleteLines, Gone, TypeOK
  <2>5. {i \in Gone : items[i].product = p} = LinesFor(cart[w], p)
    BY <2>3, <2>4
  <2>6. Amounts(Gone)[p] = Pieces(items, LinesFor(cart[w], p))
    BY <2>5, AmountsArePieces
  <2>7. Last(orders') = taken[w]
    <3> DEFINE T == [Products -> Nat]
    <3>1. orders \in Seq(T) /\ taken[w] \in T
      BY <2>0 DEF TypeOK
    <3> HIDE DEF T
    <3> QED
      BY <2>2, <3>1 DEF Last
  <2> QED
    BY <2>3, <2>6, <2>7
<1>2. TypeInv /\ OverlapInv /\ [Next]_vars =>
        [Len(orders') > Len(orders) =>
           \A p \in Products \ contended : Last(orders')[p] = Amounts(Gone)[p]]_vars
  BY <1>1
<1> QED
  BY <1>2, OverlapInvariant, PTL DEF Spec, LostLineNeedsContention
=============================================================================
