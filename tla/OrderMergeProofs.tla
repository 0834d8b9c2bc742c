-------------------------- MODULE OrderMergeProofs --------------------------
(***************************************************************************)
(* Theorems about OrderMerge, for every set of workers and orders, every   *)
(* finite set of items and every bound.                                    *)
(***************************************************************************)
EXTENDS OrderMerge, FiniteSetTheorems, TLAPS

\* Written rows are kept per worker; a handler has its request, and an order at
\* its position of the list while it is merging that one.
HandlerOK(w) ==
  /\ pc[w] # "idle" => job[w] \in Job
  /\ next[w] \in Nat \ {0}
  /\ pc[w] \in {"move", "wipe", "drop"} => next[w] \in DOMAIN job[w].list

RowsOK ==
  /\ orderRows = [w \in Workers |-> orderRows[w]]
  /\ itemRows = [w \in Workers |-> itemRows[w]]

TypeInv == TypeOK /\ RowsOK /\ \A w \in Workers : HandlerOK(w)

\* A transaction's written rows.
OrderRows(f) == DOMAIN f \subseteq Orders /\ \A o \in DOMAIN f : f[o] \in Order \cup {None}
ItemRows(f) == DOMAIN f \subseteq Items /\ \A i \in DOMAIN f : f[i] \in Orders \cup {None}
-----------------------------------------------------------------------------
(***************************************************************************)
(* Type correctness                                                        *)
(***************************************************************************)
LEMMA ItemsCounted ==
  ASSUME NEW S \in SUBSET Items
  PROVE  Cardinality(S) \in Nat
BY ItemsAssumption, FS_Subset, FS_CardinalityType

LEMMA NoOrderTyped == NoOrder \in Order
BY DEF NoOrder, Order

LEMMA EmptyTyped == OrderRows(Empty) /\ ItemRows(Empty)
BY DEF OrderRows, ItemRows, Empty

LEMMA WithTyped ==
  ASSUME NEW f, NEW x, NEW v
  PROVE  /\ OrderRows(f) /\ x \in Orders /\ v \in Order \cup {None} => OrderRows(With(f, x, v))
         /\ ItemRows(f) /\ x \in Items /\ v \in Orders \cup {None} => ItemRows(With(f, x, v))
BY DEF OrderRows, ItemRows, With

\* What a worker sees of the tables.
LEMMA SeenTyped ==
  ASSUME TypeInv, NEW w \in Workers
  PROVE  /\ \A o \in Orders : SeenOrder(w, o) \in Order \cup {None}
         /\ \A i \in Items : SeenItem(w, i) \in Orders \cup {None}
         /\ \A o : ItemsOf(w, o) \subseteq Items
BY DEF TypeInv, TypeOK, SeenOrder, SeenItem, ItemsOf

\* The lists a request may name.
LEMMA ListTyped ==
  ASSUME NEW kind, NEW list \in Lists(kind)
  PROVE  list \in Seq(Orders)
<1>1. ASSUME NEW m \in 0..MaxList, NEW s \in [1..m -> Orders] PROVE s \in Seq(Orders)
  BY <1>1, BoundsAssumption
<1>2. BoundedSeq(Orders, MaxList) \subseteq Seq(Orders)
  BY <1>1 DEF BoundedSeq, SeqOf
<1>3. <<>> \in Seq(Orders)
  OBVIOUS
<1>4. CASE kind = "merge"
  BY <1>2, <1>4 DEF Lists
<1>5. CASE kind # "merge"
  BY <1>3, <1>5 DEF Lists
<1> QED
  BY <1>4, <1>5

\* A handler that ends leaves nothing behind.
LEMMA FinishTyped ==
  ASSUME TypeInv, NEW w \in Workers, Finish(w)
  PROVE  /\ pc' \in [Workers -> Steps] /\ job' \in [Workers -> Job \cup {NoJob}]
         /\ read' \in [Workers -> Order] /\ next' \in [Workers -> Nat]
         /\ batch' \in [Workers -> SUBSET Items] /\ sum' \in [Workers -> Nat]
         /\ \A v \in Workers : OrderRows(orderRows'[v]) /\ ItemRows(itemRows'[v])
         /\ RowsOK' /\ \A v \in Workers : HandlerOK(v)'
<1>1. /\ \A v \in Workers : OrderRows(orderRows[v]) /\ ItemRows(itemRows[v])
  BY DEF TypeInv, TypeOK, OrderRows, ItemRows
<1>2. \A v \in Workers : OrderRows(orderRows'[v]) /\ ItemRows(itemRows'[v])
  BY <1>1, EmptyTyped DEF TypeInv, RowsOK, Finish
<1>3. RowsOK'
  BY DEF TypeInv, RowsOK, Finish
<1>4. \A v \in Workers : HandlerOK(v)'
  BY DEF TypeInv, TypeOK, HandlerOK, Finish
<1> QED
  BY <1>2, <1>3, <1>4, NoOrderTyped DEF TypeInv, TypeOK, Finish, Steps

\* With the tables and histories untouched or typed, the rest is FinishTyped.
LEMMA EndTyped ==
  ASSUME TypeInv, NEW w \in Workers, Finish(w),
         orders' \in [Orders -> Order \cup {None}], items' \in [Items -> Orders \cup {None}],
         contended' \subseteq Orders, overtaken' \in [Workers -> SUBSET Orders]
  PROVE  TypeInv'
BY FinishTyped DEF TypeInv, TypeOK, OrderRows, ItemRows

LEMMA CrossedTyped ==
  ASSUME TypeInv, NEW w \in Workers, Contend(w), Main(w) \in Orders
  PROVE  contended' \subseteq Orders /\ overtaken' \in [Workers -> SUBSET Orders]
<1>1. TypeOK
  BY DEF TypeInv
<1>2. ASSUME NEW v \in Workers PROVE Crossed(w, v) \subseteq Orders
  <2>1. Touched(w) \subseteq Orders
    BY <1>1 DEF Touched, TypeOK
  <2>2. \A i \in DOMAIN itemRows[w] : itemRows[w][i] \in Orders \cup {None}
    BY <1>1 DEF TypeOK
  <2> QED
    BY <2>1, <2>2 DEF Crossed
<1> QED
  BY <1>1, <1>2 DEF Contend, TypeOK

LEMMA InitTyped == Init => TypeInv
<1> SUFFICES ASSUME Init PROVE TypeInv
  OBVIOUS
<1>1. ASSUME NEW o \in Orders
      PROVE  [subtotal |-> Cardinality({i \in Items : items[i] = o}), paid |-> FALSE] \in Order
  <2>1. Cardinality({i \in Items : items[i] = o}) \in Nat
    BY ItemsCounted
  <2> QED
    BY <2>1 DEF Order
<1>2. orders \in [Orders -> Order \cup {None}]
  BY <1>1 DEF Init
<1>3. \A w \in Workers : OrderRows(orderRows[w]) /\ ItemRows(itemRows[w])
  BY EmptyTyped DEF Init
<1>4. TypeOK
  BY <1>2, <1>3, NoOrderTyped DEF Init, TypeOK, Steps, OrderRows, ItemRows
<1>5. RowsOK /\ \A w \in Workers : HandlerOK(w)
  BY DEF Init, RowsOK, HandlerOK
<1> QED
  BY <1>4, <1>5 DEF TypeInv
\* Each step of a handler leaves its rows and locals well typed.
LEMMA StepTyped == TypeInv /\ [Next]_vars => TypeInv'
<1> SUFFICES ASSUME TypeInv, [Next]_vars PROVE TypeInv'
  OBVIOUS
<1>0. TypeOK /\ RowsOK /\ \A w \in Workers : HandlerOK(w)
  BY DEF TypeInv
<1>1. ASSUME NEW w \in Workers, NEW kind \in Kinds, NEW o \in Orders, Receive(w, kind, o)
      PROVE  TypeInv'
  <2>1. PICK list \in Lists(kind) :
          job' = [job EXCEPT ![w] = [kind |-> kind, order |-> o, list |-> list]]
    BY <1>1 DEF Receive
  <2>2. [kind |-> kind, order |-> o, list |-> list] \in Job
    BY ListTyped DEF Job
  <2>3. TypeOK'
    BY <1>0, <1>1, <2>1, <2>2 DEF TypeOK, Receive, tables, txn, history, Steps
  <2>4. RowsOK' /\ \A v \in Workers : HandlerOK(v)'
    BY <1>0, <1>1, <2>1, <2>2 DEF TypeOK, RowsOK, HandlerOK, Receive, txn
  <2> QED
    BY <2>3, <2>4 DEF TypeInv
<1>2. ASSUME NEW w \in Workers, Fetch(w) PROVE TypeInv'
  <2>1. CASE orders[Main(w)] = None
    <3>1. Finish(w)
      BY <1>2, <2>1 DEF Fetch
    <3> QED
      BY <1>0, <1>2, <3>1, EndTyped DEF Fetch, tables, history, TypeOK
  <2>2. CASE orders[Main(w)] # None
    <3>1. job[w] \in Job /\ Main(w) \in Orders
      BY <1>0, <1>2 DEF HandlerOK, Fetch, Main, Job
    <3>2. orders[Main(w)] \in Order
      BY <1>0, <2>2, <3>1 DEF TypeOK
    <3>3. TypeOK'
      BY <1>0, <1>2, <2>2, <3>2 DEF TypeOK, Fetch, tables, txn, history, Steps
    <3>4. RowsOK' /\ \A v \in Workers : HandlerOK(v)'
      BY <1>0, <1>2, <2>2 DEF TypeOK, RowsOK, HandlerOK, Fetch, txn
    <3> QED
      BY <3>3, <3>4 DEF TypeInv
  <2> QED
    BY <2>1, <2>2
<1>3. ASSUME NEW w \in Workers, NextOrder(w) PROVE TypeInv'
  <2>1. job[w] \in Job /\ job[w].list \in Seq(Orders) /\ next[w] \in Nat
    BY <1>0, <1>3 DEF HandlerOK, NextOrder, Job, TypeOK
  <2>2. ItemsOf(w, Listed(w)) \subseteq Items
    BY SeenTyped
  <2>3. /\ pc' \in [Workers -> Steps] /\ batch' \in [Workers -> SUBSET Items]
        /\ next' \in [Workers -> Nat \ {0}]
    <3>1. next' = next \/ next' = [next EXCEPT ![w] = next[w] + 1]
      BY <1>3 DEF NextOrder
    <3>2. next' \in [Workers -> Nat \ {0}]
      BY <1>0, <3>1 DEF TypeOK, HandlerOK
    <3>3. batch' = batch \/ batch' = [batch EXCEPT ![w] = ItemsOf(w, Listed(w))]
      BY <1>3 DEF NextOrder
    <3>4. batch' \in [Workers -> SUBSET Items]
      BY <1>0, <2>2, <3>3 DEF TypeOK
    <3>5. pc' = pc \/ pc' = [pc EXCEPT ![w] = "sum"] \/ pc' = [pc EXCEPT ![w] = "move"]
      BY <1>3 DEF NextOrder
    <3>6. pc' \in [Workers -> Steps]
      BY <1>0, <3>5 DEF TypeOK, Steps
    <3> QED
      BY <3>2, <3>4, <3>6
  <2>4. TypeOK'
    BY <1>0, <1>3, <2>3 DEF TypeOK, NextOrder, tables, txn, history
  <2>5. HandlerOK(w)'
    BY <1>0, <1>3, <2>1, <2>3 DEF TypeOK, HandlerOK, NextOrder
  <2>6. ASSUME NEW v \in Workers, v # w PROVE HandlerOK(v)'
    <3>1. pc'[v] = pc[v] /\ next'[v] = next[v] /\ job' = job
      BY <1>0, <1>3, <2>6 DEF TypeOK, NextOrder
    <3> QED
      BY <1>0, <3>1 DEF HandlerOK
  <2>7. RowsOK'
    BY <1>0, <1>3 DEF RowsOK, NextOrder, txn
  <2> QED
    BY <2>4, <2>5, <2>6, <2>7 DEF TypeInv
<1>4. ASSUME NEW w \in Workers, Move(w) PROVE TypeInv'
  <2>1. job[w] \in Job /\ MovedTo(w) \in Orders
    BY <1>0, <1>4 DEF HandlerOK, Move, MovedTo, Main, Job
  <2>2. ItemRows(itemRows[w]) /\ batch[w] \subseteq Items
    BY <1>0 DEF TypeOK, ItemRows
  <2>3. \/ itemRows' = itemRows
        \/ \E i \in Items : itemRows' = [itemRows EXCEPT ![w] = With(@, i, MovedTo(w))]
    BY <1>4, <2>2 DEF Move
  <2>4. RowsOK' /\ \A v \in Workers : ItemRows(itemRows'[v])
    <3>1. \A v \in Workers : ItemRows(itemRows[v])
      BY <1>0 DEF TypeOK, ItemRows
    <3>2. ASSUME NEW i \in Items, itemRows' = [itemRows EXCEPT ![w] = With(@, i, MovedTo(w))]
          PROVE  RowsOK' /\ \A v \in Workers : ItemRows(itemRows'[v])
      <4> DEFINE new == With(itemRows[w], i, MovedTo(w))
      <4>1. ItemRows(new)
        BY <2>1, <3>1, WithTyped
      <4> HIDE DEF new
      <4> QED
        BY <1>0, <1>4, <3>1, <3>2, <4>1 DEF RowsOK, Move, new
    <3>3. CASE itemRows' = itemRows
      BY <1>0, <1>4, <3>1, <3>3 DEF RowsOK, Move
    <3> QED
      BY <2>3, <3>2, <3>3
  <2>5. TypeOK'
    <3>1. pc' \in [Workers -> Steps] /\ batch' \in [Workers -> SUBSET Items]
      <4>1. \/ pc' = [pc EXCEPT ![w] = "wipe"] /\ batch' = batch
            \/ pc' = pc /\ \E i \in Items : batch' = [batch EXCEPT ![w] = batch[w] \ {i}]
        BY <1>4, <2>2 DEF Move
      <4>2. /\ pc \in [Workers -> Steps] /\ "wipe" \in Steps
            /\ batch \in [Workers -> SUBSET Items]
        BY <1>0 DEF TypeOK, Steps
      <4> QED
        BY <4>1, <4>2
    <3>2. UNCHANGED <<tables, history, job, read, next, sum, orderRows, served, failures>>
      BY <1>4 DEF Move
    <3> QED
      BY <1>0, <2>4, <3>1, <3>2 DEF TypeOK, tables, history, ItemRows
  <2>6. \A v \in Workers : HandlerOK(v)'
    BY <1>0, <1>4 DEF TypeOK, HandlerOK, Move
  <2> QED
    BY <2>4, <2>5, <2>6 DEF TypeInv
<1>5. ASSUME NEW w \in Workers, Wipe(w) PROVE TypeInv'
  <2> DEFINE doomed == ItemsOf(w, Listed(w))
             old == itemRows[w]
             new == [i \in DOMAIN old \cup doomed |-> IF i \in doomed THEN None ELSE old[i]]
  <2>1. doomed \subseteq Items /\ ItemRows(old)
    BY <1>0, SeenTyped DEF TypeOK, ItemRows
  <2>2. itemRows' = [itemRows EXCEPT ![w] = new]
    BY <1>5 DEF Wipe
  <2>3. ItemRows(new)
    BY <2>1 DEF ItemRows
  <2>4. RowsOK' /\ \A v \in Workers : ItemRows(itemRows'[v])
    <3> HIDE DEF new
    <3> QED
      BY <1>0, <1>5, <2>2, <2>3 DEF RowsOK, TypeOK, ItemRows, Wipe
  <2>5. TypeOK'
    BY <1>0, <1>5, <2>4 DEF TypeOK, Wipe, tables, history, Steps, ItemRows
  <2>6. \A v \in Workers : HandlerOK(v)'
    BY <1>0, <1>5 DEF TypeOK, HandlerOK, Wipe
  <2> QED
    BY <2>4, <2>5, <2>6 DEF TypeInv
<1>6. ASSUME NEW w \in Workers, Drop(w) PROVE TypeInv'
  <2>1. Listed(w) \in Orders
    BY <1>0, <1>6 DEF HandlerOK, Drop, Listed, Job
  <2>2. OrderRows(orderRows[w])
    BY <1>0 DEF TypeOK, OrderRows
  <2>3. \/ orderRows' = [orderRows EXCEPT ![w] = @]
        \/ orderRows' = [orderRows EXCEPT ![w] = With(@, Listed(w), None)]
    BY <1>6 DEF Drop
  <2>4. RowsOK' /\ \A v \in Workers : OrderRows(orderRows'[v])
    BY <1>0, <1>6, <2>1, <2>2, <2>3, WithTyped DEF RowsOK, TypeOK, OrderRows, Drop
  <2>5. TypeOK'
    BY <1>0, <1>6, <2>4 DEF TypeOK, Drop, tables, history, Steps, OrderRows
  <2>6. \A v \in Workers : HandlerOK(v)'
    BY <1>0, <1>6 DEF TypeOK, HandlerOK, Drop
  <2> QED
    BY <2>4, <2>5, <2>6 DEF TypeInv
<1>7. ASSUME NEW w \in Workers, Sum(w) PROVE TypeInv'
  <2>1. Cardinality(ItemsOf(w, Main(w))) \in Nat
    BY SeenTyped, ItemsCounted
  <2>2. TypeOK'
    BY <1>0, <1>7, <2>1 DEF TypeOK, Sum, tables, txn, history, Steps
  <2>3. RowsOK' /\ \A v \in Workers : HandlerOK(v)'
    BY <1>0, <1>7 DEF TypeOK, RowsOK, HandlerOK, Sum, txn
  <2> QED
    BY <2>2, <2>3 DEF TypeInv
<1>8. ASSUME NEW w \in Workers, Save(w) PROVE TypeInv'
  <2>1. Main(w) \in Orders
    BY <1>0, <1>8 DEF HandlerOK, Save, Main, Job
  <2>2. Saved(w) \in Order
    BY <1>0 DEF TypeOK, Saved, Order
  <2>3. OrderRows(orderRows[w])
    BY <1>0 DEF TypeOK, OrderRows
  <2>4. RowsOK' /\ \A v \in Workers : OrderRows(orderRows'[v])
    BY <1>0, <1>8, <2>1, <2>2, <2>3, WithTyped DEF RowsOK, TypeOK, OrderRows, Save
  <2>5. TypeOK'
    BY <1>0, <1>8, <2>4 DEF TypeOK, Save, tables, history, Steps, OrderRows
  <2>6. \A v \in Workers : HandlerOK(v)'
    BY <1>0, <1>8 DEF TypeOK, HandlerOK, Save
  <2> QED
    BY <2>4, <2>5, <2>6 DEF TypeInv
<1>9. ASSUME NEW w \in Workers, Commit(w) PROVE TypeInv'
  <2>1. Finish(w)
    BY <1>9 DEF Commit
  <2>2. CASE ~ForeignKeysHold(w)
    BY <1>0, <1>9, <2>1, <2>2, EndTyped DEF Commit, tables, history, TypeOK
  <2>3. CASE ForeignKeysHold(w)
    <3>1. Main(w) \in Orders
      BY <1>0, <1>9 DEF HandlerOK, Commit, Main, Job
    <3>2. Contend(w)
      BY <1>9, <2>3 DEF Commit
    <3>3. /\ orders' \in [Orders -> Order \cup {None}] /\ items' \in [Items -> Orders \cup {None}]
          /\ contended' \subseteq Orders /\ overtaken' \in [Workers -> SUBSET Orders]
      BY <1>0, <1>9, <2>3, <3>1, <3>2, SeenTyped, CrossedTyped DEF Commit, TypeOK
    <3> QED
      BY <2>1, <3>3, EndTyped
  <2> QED
    BY <2>2, <2>3
<1>10. ASSUME NEW w \in Workers, Store(w) PROVE TypeInv'
  <2>1. Finish(w) /\ Main(w) \in Orders
    BY <1>0, <1>10 DEF HandlerOK, Store, Main, Job
  <2>2. PaidOrder(w) \in Order
    <3>1. read[w] \in Order
      BY <1>0 DEF TypeOK
    <3> QED
      BY <3>1 DEF PaidOrder, Order
  <2>3. /\ orders' \in [Orders -> Order \cup {None}] /\ items' \in [Items -> Orders \cup {None}]
        /\ contended' \subseteq Orders /\ overtaken' \in [Workers -> SUBSET Orders]
    BY <1>0, <1>10, <2>1, <2>2, CrossedTyped DEF Store, TypeOK
  <2> QED
    BY <2>1, <2>3, EndTyped
<1>11. ASSUME NEW w \in Workers, DeadlockAbort(w) \/ Fail(w) PROVE TypeInv'
  BY <1>0, <1>11, EndTyped DEF DeadlockAbort, Fail, tables, history, TypeOK
<1>12. CASE UNCHANGED vars
  BY <1>0, <1>12 DEF TypeInv, TypeOK, RowsOK, HandlerOK, vars, tables, txn, history
<1> QED
  BY <1>1, <1>2, <1>3, <1>4, <1>5, <1>6, <1>7, <1>8, <1>9, <1>10, <1>11, <1>12 DEF Next, Serve

\* Whatever is merged, paid, rolled back or inserted again, the tables and the
\* handlers' rows and locals are of their kinds (merge_orders, payment notices).
THEOREM TypeCorrectness == Spec => []TypeOK
<1>1. TypeInv => TypeOK
  BY DEF TypeInv
<1> QED
  BY <1>1, InitTyped, StepTyped, PTL DEF Spec
-----------------------------------------------------------------------------
(***************************************************************************)
(* Payments                                                                *)
(***************************************************************************)
Handing == {"next", "move", "wipe", "drop", "sum", "save", "store"}

\* A written order row is one transaction's only.
LocksApart ==
  \A v, w \in Workers : v # w => DOMAIN orderRows[v] \cap DOMAIN orderRows[w] = {}

\* A payment that is recorded of the order o is known to x.
Knows(x, o) == o \notin contended /\ orders[o] # None /\ orders[o].paid => x.paid

\* The order fetched first, and the main order's row once it is written, know of
\* its payment; the other rows written are deletions.
PaymentKnown(w) ==
  /\ pc[w] \in Handing => Knows(read[w], Main(w))
  /\ pc[w] = "commit" => Main(w) \in DOMAIN orderRows[w] /\ Knows(orderRows[w][Main(w)], Main(w))
  /\ \A o \in DOMAIN orderRows[w] :
       orderRows[w][o] = None \/ (o = Main(w) /\ pc[w] = "commit")

PaidInv == LocksApart /\ \A w \in Workers : PaymentKnown(w)

\* A handler that ends has no row and no order.
LEMMA FinishPaid ==
  ASSUME TypeInv, NEW w \in Workers, Finish(w), LocksApart
  PROVE  LocksApart' /\ PaymentKnown(w)'
BY DEF TypeInv, TypeOK, RowsOK, Finish, LocksApart, PaymentKnown, Handing, Empty

\* What a handler knows it knows while nobody writes the order behind its back.
LEMMA OthersKnow ==
  ASSUME TypeInv, NEW v \in Workers, PaymentKnown(v), pc'[v] = pc[v], job'[v] = job[v],
         read'[v] = read[v], orderRows'[v] = orderRows[v],
         contended \subseteq contended',
         pc[v] \in Handing \cup {"commit"} =>
           orders'[Main(v)] = orders[Main(v)] \/ Main(v) \in contended'
  PROVE  PaymentKnown(v)'
BY DEF PaymentKnown, Knows, Main, Handing

LEMMA InitPaid == Init => PaidInv
BY DEF Init, PaidInv, LocksApart, PaymentKnown, Handing, Empty

LEMMA StepPaid == TypeInv /\ PaidInv /\ [Next]_vars => PaidInv'
<1> SUFFICES ASSUME TypeInv, PaidInv, [Next]_vars PROVE PaidInv'
  OBVIOUS
<1>0. /\ TypeOK /\ RowsOK /\ LocksApart
      /\ \A v \in Workers : HandlerOK(v) /\ PaymentKnown(v)
  BY DEF TypeInv, PaidInv
\* Steps that leave the tables alone.
<1>1. ASSUME NEW w \in Workers, UNCHANGED <<tables, contended>>, LocksApart', PaymentKnown(w)',
             \A v \in Workers \ {w} : /\ pc'[v] = pc[v] /\ job'[v] = job[v]
                                      /\ read'[v] = read[v] /\ orderRows'[v] = orderRows[v]
      PROVE  PaidInv'
  <2>1. ASSUME NEW v \in Workers \ {w} PROVE PaymentKnown(v)'
    BY <1>0, <1>1, OthersKnow DEF tables
  <2> QED
    BY <1>1, <2>1 DEF PaidInv
<1>2. ASSUME NEW w \in Workers, Finish(w), UNCHANGED <<tables, history>> PROVE PaidInv'
  BY <1>0, <1>1, <1>2, FinishPaid DEF Finish, TypeOK, RowsOK, history
<1>3. ASSUME NEW w \in Workers, NEW kind \in Kinds, NEW o \in Orders, Receive(w, kind, o)
      PROVE  PaidInv'
  <2>1. LocksApart' /\ PaymentKnown(w)'
    BY <1>0, <1>3 DEF Receive, txn, LocksApart, PaymentKnown, Handing, TypeOK
  <2> QED
    BY <1>0, <1>1, <1>3, <2>1 DEF Receive, txn, TypeOK
<1>4. ASSUME NEW w \in Workers, Fetch(w) PROVE PaidInv'
  <2>1. CASE orders[Main(w)] = None
    BY <1>2, <1>4, <2>1 DEF Fetch
  <2>2. CASE orders[Main(w)] # None
    <3>1. LocksApart' /\ PaymentKnown(w)'
      BY <1>0, <1>4, <2>2 DEF Fetch, txn, tables, LocksApart, PaymentKnown, Knows, Main, Handing, TypeOK
    <3> QED
      BY <1>0, <1>1, <1>4, <2>2, <3>1 DEF Fetch, txn, history, TypeOK
  <2> QED
    BY <2>1, <2>2
<1>5. ASSUME NEW w \in Workers, NextOrder(w) \/ Move(w) \/ Wipe(w) \/ Sum(w) PROVE PaidInv'
  <2>1. /\ orderRows' = orderRows /\ job' = job /\ read' = read /\ UNCHANGED <<tables, history>>
        /\ pc[w] \in Handing /\ pc'[w] \in Handing /\ pc[w] # "commit" /\ pc'[w] # "commit"
        /\ \A v \in Workers \ {w} : pc'[v] = pc[v]
    BY <1>0, <1>5 DEF NextOrder, Move, Wipe, Sum, txn, TypeOK, Handing
  <2>2. LocksApart' /\ PaymentKnown(w)'
    BY <1>0, <2>1 DEF LocksApart, PaymentKnown, Knows, Main, tables, history
  <2> QED
    BY <1>1, <2>1, <2>2 DEF history
<1>6. ASSUME NEW w \in Workers, NEW x \in Orders, NEW row,
             OrderHolders(w, x) = {}, UNCHANGED <<tables, history, job, read>>,
             \/ orderRows' = orderRows
             \/ orderRows' = [orderRows EXCEPT ![w] = With(@, x, row)]
      PROVE  /\ LocksApart'
             /\ \A v \in Workers \ {w} : orderRows'[v] = orderRows[v]
             /\ orderRows'[w] = orderRows[w] \/ orderRows'[w] = With(orderRows[w], x, row)
  <2> DEFINE new == With(orderRows[w], x, row)
  <2>1. DOMAIN new = DOMAIN orderRows[w] \cup {x}
    BY DEF With
  <2>2. \A v \in Workers \ {w} : x \notin DOMAIN orderRows[v]
    BY <1>6 DEF OrderHolders
  <2> HIDE DEF new
  <2>3. /\ \A v \in Workers \ {w} : orderRows'[v] = orderRows[v]
        /\ orderRows'[w] = orderRows[w] \/ orderRows'[w] = new
    BY <1>0, <1>6 DEF RowsOK, new
  <2> QED
    BY <1>0, <2>1, <2>2, <2>3 DEF LocksApart, new
<1>7. ASSUME NEW w \in Workers, Drop(w) PROVE PaidInv'
  <2>1. Listed(w) \in Orders
    BY <1>0, <1>7 DEF HandlerOK, Drop, Listed, Job
  <2>2. /\ LocksApart' /\ \A v \in Workers \ {w} : orderRows'[v] = orderRows[v]
        /\ \/ orderRows'[w] = orderRows[w]
           \/ orderRows'[w] = With(orderRows[w], Listed(w), None)
    <3>1. OrderHolders(w, Listed(w)) = {} /\ UNCHANGED <<tables, history, job, read>>
      BY <1>7 DEF Drop
    <3>2. \/ orderRows' = [orderRows EXCEPT ![w] = @]
          \/ orderRows' = [orderRows EXCEPT ![w] = With(@, Listed(w), None)]
      BY <1>7 DEF Drop
    <3>3. \/ orderRows' = orderRows
          \/ orderRows' = [orderRows EXCEPT ![w] = With(@, Listed(w), None)]
      BY <1>0, <3>2 DEF RowsOK
    <3> QED
      BY <1>6, <2>1, <3>1, <3>3
  <2>3. PaymentKnown(w)'
    BY <1>0, <1>7, <2>2 DEF Drop, PaymentKnown, Knows, Main, Handing, With, TypeOK, tables, history
  <2> QED
    BY <1>0, <1>1, <1>7, <2>2, <2>3 DEF Drop, TypeOK, history
<1>8. ASSUME NEW w \in Workers, Save(w) PROVE PaidInv'
  <2>1. Main(w) \in Orders
    BY <1>0, <1>8 DEF HandlerOK, Save, Main, Job
  <2>2. /\ LocksApart' /\ \A v \in Workers \ {w} : orderRows'[v] = orderRows[v]
    BY <1>6, <1>8, <2>1 DEF Save
  <2>3. orderRows'[w] = With(orderRows[w], Main(w), Saved(w))
    BY <1>0, <1>8 DEF Save, RowsOK
  <2>4. Saved(w).paid = read[w].paid
    BY <1>0 DEF Saved, TypeOK, Order
  <2>5. /\ Main(w) \in DOMAIN orderRows'[w] /\ orderRows'[w][Main(w)] = Saved(w)
        /\ \A o \in DOMAIN orderRows'[w] \ {Main(w)} :
             o \in DOMAIN orderRows[w] /\ orderRows'[w][o] = orderRows[w][o]
    BY <2>3 DEF With
  <2>6. PaymentKnown(w)'
    BY <1>0, <1>8, <2>4, <2>5 DEF Save, PaymentKnown, Knows, Main, Handing, TypeOK, tables, history
  <2> QED
    BY <1>0, <1>1, <1>8, <2>2, <2>6 DEF Save, TypeOK, history
<1>9. ASSUME NEW w \in Workers, Commit(w) PROVE PaidInv'
  <2>1. Finish(w)
    BY <1>9 DEF Commit
  <2>2. CASE ~ForeignKeysHold(w)
    BY <1>2, <1>9, <2>1, <2>2 DEF Commit
  <2>3. CASE ForeignKeysHold(w)
    <3>1. /\ orders' = [o \in Orders |-> SeenOrder(w, o)]
          /\ Contend(w)
      BY <1>9, <2>3 DEF Commit
    <3>2. ASSUME NEW v \in Workers \ {w} PROVE PaymentKnown(v)'
      <4>1. /\ pc'[v] = pc[v] /\ job'[v] = job[v] /\ read'[v] = read[v]
            /\ orderRows'[v] = orderRows[v]
        BY <1>0, <2>1 DEF Finish, TypeOK, RowsOK
      <4>2. ASSUME pc[v] \in Handing \cup {"commit"}, Main(v) \notin contended'
            PROVE  orders'[Main(v)] = orders[Main(v)]
        <5>1. Main(v) \in Orders
          BY <1>0, <4>2 DEF HandlerOK, Main, Job, Handing
        <5>2. Main(v) \notin DOMAIN orderRows[w]
          <6>1. CASE pc[v] = "commit"
            BY <1>0, <6>1 DEF PaymentKnown, LocksApart
          <6>2. CASE pc[v] \in Handing
            <7>1. Main(v) \in InHand(v)
              BY <6>2 DEF InHand, Handing
            <7>2. Main(v) # None
              BY <5>1, NoneAssumption
            <7> QED
              BY <3>1, <4>2, <7>1, <7>2 DEF Contend, Crossed, Touched
          <6> QED
            BY <4>2, <6>1, <6>2
        <5> QED
          BY <3>1, <5>1, <5>2 DEF SeenOrder
      <4> QED
        BY <1>0, <3>1, <4>1, <4>2, OthersKnow DEF Contend
    <3> QED
      BY <1>0, <2>1, <3>2, FinishPaid DEF PaidInv
  <2> QED
    BY <2>2, <2>3
<1>10. ASSUME NEW w \in Workers, Store(w) PROVE PaidInv'
  <2>1. Finish(w) /\ OrderHolders(w, Main(w)) = {}
    BY <1>10 DEF Store
  <2>2. /\ orders' = [orders EXCEPT ![Main(w)] = PaidOrder(w)]
        /\ Contend(w)
    BY <1>10 DEF Store
  <2>3. ASSUME NEW v \in Workers \ {w} PROVE PaymentKnown(v)'
    <3>1. /\ pc'[v] = pc[v] /\ job'[v] = job[v] /\ read'[v] = read[v]
          /\ orderRows'[v] = orderRows[v]
      BY <1>0, <2>1 DEF Finish, TypeOK, RowsOK
    <3>2. ASSUME pc[v] \in Handing \cup {"commit"}, Main(v) \notin contended'
          PROVE  orders'[Main(v)] = orders[Main(v)]
      <4>1. Main(v) # Main(w)
        <5>1. CASE pc[v] = "commit"
          BY <1>0, <2>1, <5>1 DEF PaymentKnown, OrderHolders
        <5>2. CASE pc[v] \in Handing
          BY <1>0, <2>2, <3>2, <5>2, NoneAssumption
             DEF Contend, Crossed, Touched, InHand, Handing, HandlerOK, Main, Job
        <5> QED
          BY <3>2, <5>1, <5>2
      <4> QED
        BY <1>0, <2>2, <4>1 DEF TypeOK
    <3> QED
      BY <1>0, <2>2, <3>1, <3>2, OthersKnow DEF Contend
  <2> QED
    BY <1>0, <2>1, <2>3, FinishPaid DEF PaidInv
<1>11. ASSUME NEW w \in Workers, DeadlockAbort(w) \/ Fail(w) PROVE PaidInv'
  BY <1>2, <1>11 DEF DeadlockAbort, Fail
<1>12. CASE UNCHANGED vars
  BY <1>0, <1>12 DEF PaidInv, LocksApart, PaymentKnown, Knows, Main, vars, tables, txn, history
<1> QED
  BY <1>3, <1>4, <1>5, <1>7, <1>8, <1>9, <1>10, <1>11, <1>12 DEF Next, Serve

\* A recorded payment outlives every merge and every other notice of the order while
\* the order exists, unless a merge had fetched it before (merge_orders saves the
\* main order it fetched before its transaction).
THEOREM PaymentsStay == Spec => PaidStaysPaid
<1>1. TypeInv /\ PaidInv /\ [Next]_vars
        => [\A o \in Orders \ contended' :
              orders[o] # None /\ orders'[o] # None /\ orders[o].paid => orders'[o].paid]_vars
  <2> SUFFICES ASSUME TypeInv, PaidInv, [Next]_vars, NEW o \in Orders, o \notin contended',
                      orders[o] # None, orders'[o] # None, orders[o].paid
               PROVE  orders'[o].paid
    OBVIOUS
  <2>0. TypeOK /\ \A v \in Workers : HandlerOK(v) /\ PaymentKnown(v)
    BY DEF TypeInv, PaidInv
  <2>1. CASE orders' = orders
    BY <2>1
  <2>2. ASSUME NEW w \in Workers, Commit(w), orders' # orders PROVE orders'[o].paid
    <3>1. /\ pc[w] = "commit" /\ orders' = [x \in Orders |-> SeenOrder(w, x)]
          /\ contended \subseteq contended'
      BY <2>2 DEF Commit, Contend, tables
    <3>2. CASE o \in DOMAIN orderRows[w]
      <4>1. orders'[o] = orderRows[w][o]
        BY <3>1, <3>2 DEF SeenOrder
      <4> QED
        BY <2>0, <3>1, <3>2, <4>1 DEF PaymentKnown, Knows
    <3>3. CASE o \notin DOMAIN orderRows[w]
      BY <3>1, <3>3 DEF SeenOrder
    <3> QED
      BY <3>2, <3>3
  <2>3. ASSUME NEW w \in Workers, Store(w) PROVE orders'[o].paid
    <3>1. PaidOrder(w).paid
      BY <2>0 DEF PaidOrder, TypeOK, Order
    <3> QED
      BY <2>0, <2>3, <3>1 DEF Store, TypeOK
  <2> QED
    BY <2>1, <2>2, <2>3 DEF Next, Serve, Receive, Fetch, NextOrder, Move, Wipe, Drop, Sum, Save,
                            DeadlockAbort, Fail, vars, tables
<1> QED
  BY <1>1, InitTyped, StepTyped, InitPaid, StepPaid, PTL DEF Spec, PaidStaysPaid
-----------------------------------------------------------------------------
(***************************************************************************)
(* Who changes what                                                        *)
(***************************************************************************)
Merging == {"next", "move", "wipe", "drop", "sum", "save", "commit"}

Step(w) ==
  \/ \E kind \in Kinds, o \in Orders : Receive(w, kind, o)
  \/ Serve(w)
  \/ Fail(w)

\* A commit that holds.
Committed(w) ==
  /\ pc[w] = "commit" /\ Finish(w)
  /\ orders' = [o \in Orders |-> SeenOrder(w, o)]
  /\ items' = [i \in Items |-> SeenItem(w, i)]
  /\ Contend(w)

\* The handler of v is where it was.
Untouched(v) ==
  /\ pc'[v] = pc[v] /\ job'[v] = job[v] /\ read'[v] = read[v] /\ next'[v] = next[v]
  /\ batch'[v] = batch[v] /\ sum'[v] = sum[v]
  /\ orderRows'[v] = orderRows[v] /\ itemRows'[v] = itemRows[v]

\* A worker's step leaves the other handlers where they were.
LEMMA OthersUntouched ==
  ASSUME TypeInv, NEW w \in Workers, Step(w), NEW v \in Workers \ {w}
  PROVE  Untouched(v)
<1>0. TypeOK /\ RowsOK
  BY DEF TypeInv
<1>1. CASE Finish(w)
  BY <1>0, <1>1 DEF Finish, Untouched, TypeOK, RowsOK
<1>2. CASE \E kind \in Kinds, o \in Orders : Receive(w, kind, o)
  BY <1>0, <1>2 DEF Receive, Untouched, TypeOK, txn
<1>3. CASE Fetch(w) /\ ~Finish(w)
  BY <1>0, <1>3 DEF Fetch, Untouched, TypeOK, txn
<1>4. CASE NextOrder(w)
  <2>1. /\ next' = next \/ next' = [next EXCEPT ![w] = @ + 1]
        /\ batch' = batch \/ batch' = [batch EXCEPT ![w] = ItemsOf(w, Listed(w))]
        /\ pc' = [pc EXCEPT ![w] = "sum"] \/ pc' = [pc EXCEPT ![w] = "move"] \/ pc' = pc
        /\ UNCHANGED <<job, read, sum, orderRows, itemRows>>
    BY <1>4 DEF NextOrder, txn
  <2> QED
    BY <1>0, <2>1 DEF Untouched, TypeOK
<1>5. CASE Move(w)
  <2>1. /\ \/ itemRows' = itemRows
           \/ \E i \in batch[w] : itemRows' = [itemRows EXCEPT ![w] = With(@, i, MovedTo(w))]
        /\ batch' = batch \/ \E i \in batch[w] : batch' = [batch EXCEPT ![w] = @ \ {i}]
        /\ pc' = pc \/ pc' = [pc EXCEPT ![w] = "wipe"]
        /\ UNCHANGED <<job, read, next, sum, orderRows>>
    BY <1>5 DEF Move
  <2>2. itemRows'[v] = itemRows[v]
    BY <1>0, <2>1 DEF RowsOK
  <2>3. batch'[v] = batch[v] /\ pc'[v] = pc[v]
    BY <1>0, <2>1 DEF TypeOK
  <2> QED
    BY <2>1, <2>2, <2>3 DEF Untouched
<1>6. CASE Wipe(w) \/ Drop(w) \/ Sum(w) \/ Save(w)
  BY <1>0, <1>6 DEF Wipe, Drop, Sum, Save, Untouched, TypeOK, RowsOK, txn
<1>7. CASE Commit(w) \/ Store(w) \/ DeadlockAbort(w) \/ Fail(w)
  BY <1>1, <1>7 DEF Commit, Store, DeadlockAbort, Fail
<1> QED
  BY <1>1, <1>2, <1>3, <1>4, <1>5, <1>6, <1>7 DEF Step, Serve

\* Only a commit that holds and a notice change the tables.
LEMMA TablesChange ==
  ASSUME NEW w \in Workers, Step(w)
  PROVE  UNCHANGED <<tables, contended>> \/ Committed(w) \/ Store(w)
<1>1. Commit(w) => UNCHANGED <<tables, contended>> \/ Committed(w)
  BY DEF Commit, Committed, tables, history
<1> QED
  BY <1>1 DEF Step, Serve, Receive, Fetch, NextOrder, Move, Wipe, Drop, Sum, Save,
              DeadlockAbort, Fail, history

LEMMA NextSteps == [Next]_vars => UNCHANGED vars \/ \E w \in Workers : Step(w)
BY DEF Next, Step
-----------------------------------------------------------------------------
(***************************************************************************)
(* Item rows                                                               *)
(***************************************************************************)
\* A written item row is one transaction's only.
ItemLocksApart ==
  \A v, w \in Workers : v # w => DOMAIN itemRows[v] \cap DOMAIN itemRows[w] = {}

\* Only merges have written rows; their items go to the main order or are deleted.
MergeRows(w) ==
  /\ pc[w] \notin Merging => DOMAIN itemRows[w] = {} /\ DOMAIN orderRows[w] = {}
  /\ \A i \in DOMAIN itemRows[w] : itemRows[w][i] \in {Main(w), None}

RowsInv == ItemLocksApart /\ \A w \in Workers : MergeRows(w)

LEMMA InitRows == Init => RowsInv
BY DEF Init, RowsInv, ItemLocksApart, MergeRows, Empty

\* A handler's own step keeps its rows in order, and writes no item another holds.
LEMMA OwnRows ==
  ASSUME TypeInv, NEW w \in Workers, MergeRows(w), Step(w)
  PROVE  /\ MergeRows(w)'
         /\ \A i \in DOMAIN itemRows'[w] \ DOMAIN itemRows[w] : ItemHolders(w, {i}) = {}
<1>0. TypeOK /\ RowsOK
  BY DEF TypeInv
<1>1. CASE Finish(w)
  BY <1>0, <1>1 DEF Finish, MergeRows, Empty, RowsOK
<1>2. CASE \E kind \in Kinds, o \in Orders : Receive(w, kind, o)
  <2>1. /\ pc[w] = "idle" /\ UNCHANGED <<orderRows, itemRows>>
        /\ pc'[w] = "fetch"
    BY <1>0, <1>2 DEF Receive, txn, TypeOK
  <2> QED
    BY <2>1 DEF MergeRows, Merging
<1>3. CASE \/ Fetch(w) /\ ~Finish(w)
           \/ NextOrder(w) \/ Sum(w)
           \/ Move(w) /\ batch[w] = {}
           \/ Drop(w)
  <2>1. /\ itemRows' = itemRows /\ job' = job
        /\ orderRows' = orderRows \/ pc'[w] \in Merging
        /\ pc[w] \in Merging => pc'[w] \in Merging
    BY <1>0, <1>3 DEF Fetch, NextOrder, Sum, Move, Drop, txn, TypeOK, Merging
  <2> QED
    BY <2>1 DEF MergeRows, Main
<1>4. CASE Save(w)
  BY <1>0, <1>4 DEF Save, MergeRows, Main, Merging, TypeOK
<1>5. CASE Move(w) /\ batch[w] # {}
  <2>1. PICK i \in batch[w] :
          /\ ItemHolders(w, {i}) = {} \/ UNCHANGED itemRows
          /\ itemRows' = [itemRows EXCEPT ![w] = With(@, i, Main(w))] \/ UNCHANGED itemRows
    BY <1>5 DEF Move, MovedTo
  <2>2. pc[w] \in Merging /\ pc'[w] \in Merging /\ job' = job
    BY <1>0, <1>5 DEF Move, Merging, TypeOK
  <2>3. itemRows'[w] = With(itemRows[w], i, Main(w)) \/ UNCHANGED itemRows
    BY <1>0, <2>1 DEF RowsOK
  <2>4. /\ \A j \in DOMAIN itemRows'[w] :
             itemRows'[w][j] = Main(w)
             \/ (j \in DOMAIN itemRows[w] /\ itemRows'[w][j] = itemRows[w][j])
        /\ \A j \in DOMAIN itemRows'[w] \ DOMAIN itemRows[w] : j = i /\ ~UNCHANGED itemRows
    BY <2>3 DEF With
  <2> QED
    BY <2>1, <2>2, <2>4 DEF MergeRows, Main
<1>6. CASE Wipe(w)
  <2> DEFINE doomed == ItemsOf(w, Listed(w))
             old == itemRows[w]
             new == [i \in DOMAIN old \cup doomed |-> IF i \in doomed THEN None ELSE old[i]]
  <2>1. itemRows'[w] = new /\ job' = job
    BY <1>0, <1>6 DEF Wipe, RowsOK
  <2>2. pc'[w] \in Merging
    BY <1>0, <1>6 DEF Wipe, Merging, TypeOK
  <2>3. \A i \in doomed : ItemHolders(w, {i}) = {}
    BY <1>6 DEF Wipe, ItemHolders
  <2> QED
    BY <2>1, <2>2, <2>3 DEF MergeRows, Main
<1>7. CASE Commit(w) \/ Store(w) \/ DeadlockAbort(w) \/ Fail(w)
  BY <1>1, <1>7 DEF Commit, Store, DeadlockAbort, Fail
<1> QED
  BY <1>1, <1>2, <1>3, <1>4, <1>5, <1>6, <1>7 DEF Step, Serve

LEMMA StepRows == TypeInv /\ RowsInv /\ [Next]_vars => RowsInv'
<1> SUFFICES ASSUME TypeInv, RowsInv, [Next]_vars PROVE RowsInv'
  OBVIOUS
<1>1. ASSUME NEW w \in Workers, Step(w) PROVE RowsInv'
  <2>1. /\ MergeRows(w)'
        /\ \A i \in DOMAIN itemRows'[w] \ DOMAIN itemRows[w] : ItemHolders(w, {i}) = {}
    BY <1>1, OwnRows DEF RowsInv
  <2>2. \A v \in Workers \ {w} : Untouched(v)
    BY <1>1, OthersUntouched
  <2>3. \A v \in Workers \ {w} : MergeRows(v)'
    BY <2>2 DEF RowsInv, Untouched, MergeRows, Main
  <2>4. ASSUME NEW v \in Workers \ {w}
        PROVE  DOMAIN itemRows'[v] \cap DOMAIN itemRows'[w] = {}
    <3>1. itemRows'[v] = itemRows[v]
      BY <2>2 DEF Untouched
    <3>2. \A i \in DOMAIN itemRows'[w] \ DOMAIN itemRows[w] : i \notin DOMAIN itemRows[v]
      BY <2>1 DEF ItemHolders
    <3> QED
      BY <3>1, <3>2 DEF RowsInv, ItemLocksApart
  <2>5. ItemLocksApart'
    BY <2>2, <2>4 DEF RowsInv, ItemLocksApart, Untouched
  <2> QED
    BY <2>1, <2>3, <2>5 DEF RowsInv
<1>2. CASE UNCHANGED vars
  BY <1>2 DEF RowsInv, ItemLocksApart, MergeRows, Main, vars, txn
<1> QED
  BY <1>1, <1>2, NextSteps
-----------------------------------------------------------------------------
(***************************************************************************)
(* Reads stay fresh                                                        *)
(***************************************************************************)
\* Until the order is contended, the object in hand is its committed row.
OrderFresh(w) ==
  pc[w] \in Handing \cup {"commit"} /\ Main(w) \notin contended
    => orders[Main(w)] = read[w] /\ orders[Main(w)] # None

FreshInv == \A w \in Workers : OrderFresh(w)

LEMMA InitFresh == Init => FreshInv
BY DEF Init, FreshInv, OrderFresh, Handing

\* The main order of a handler at work is an order.
LEMMA MainTyped ==
  ASSUME TypeInv, NEW w \in Workers, pc[w] # "idle"
  PROVE  Main(w) \in Orders /\ Main(w) # None /\ job[w].list \in Seq(Orders)
BY NoneAssumption DEF TypeInv, HandlerOK, Main, Job

\* A commit or a notice that writes another handler's main order makes it contended.
LEMMA MainKept ==
  ASSUME TypeInv, PaidInv, NEW w \in Workers, Committed(w) \/ Store(w),
         NEW v \in Workers \ {w}, pc[v] \in Handing \cup {"commit"}
  PROVE  orders'[Main(v)] = orders[Main(v)] \/ Main(v) \in contended'
<1>0. TypeOK /\ LocksApart /\ PaymentKnown(v)
  BY DEF TypeInv, PaidInv
<1>1. Main(v) \in Orders /\ Main(v) # None
  BY MainTyped DEF Handing
<1>2. CASE Committed(w)
  <2>1. CASE Main(v) \notin DOMAIN orderRows[w]
    BY <1>1, <1>2, <2>1 DEF Committed, SeenOrder
  <2>2. CASE Main(v) \in DOMAIN orderRows[w]
    <3>1. pc[v] # "commit"
      BY <1>0, <2>2 DEF PaymentKnown, LocksApart
    <3>2. Main(v) \in InHand(v) /\ Main(v) \in Touched(w)
      BY <1>1, <2>2, <3>1 DEF InHand, Handing, Touched
    <3> QED
      BY <1>2, <3>2 DEF Committed, Contend, Crossed
  <2> QED
    BY <2>1, <2>2
<1>3. CASE Store(w)
  <2>1. CASE Main(v) # Main(w)
    BY <1>0, <1>3, <2>1 DEF Store, TypeOK
  <2>2. CASE Main(v) = Main(w)
    <3>1. pc[v] # "commit"
      BY <1>0, <1>3, <2>2 DEF PaymentKnown, Store, OrderHolders
    <3>2. Main(v) \in InHand(v) /\ Main(v) \in Touched(w)
      BY <1>1, <2>2, <3>1 DEF InHand, Handing, Touched
    <3> QED
      BY <1>3, <3>2 DEF Store, Contend, Crossed
  <2> QED
    BY <2>1, <2>2
<1> QED
  BY <1>2, <1>3

LEMMA ContendedGrows ==
  ASSUME NEW w \in Workers, Step(w)
  PROVE  contended \subseteq contended'
BY TablesChange DEF Committed, Store, Contend

\* A handler's own step: the object is fetched, kept, or given up.
LEMMA OwnRead ==
  ASSUME TypeInv, NEW w \in Workers, Step(w)
  PROVE  \/ pc'[w] \notin Handing \cup {"commit"}
         \/ /\ read'[w] = read[w] /\ job' = job /\ UNCHANGED <<tables, history>>
            /\ pc[w] \in Handing
         \/ /\ read'[w] = orders[Main(w)] /\ orders[Main(w)] # None
            /\ job' = job /\ UNCHANGED <<tables, history>>
<1>0. TypeOK /\ RowsOK
  BY DEF TypeInv
<1>1. CASE Finish(w)
  BY <1>0, <1>1 DEF Finish, TypeOK, Handing
<1>2. CASE \E kind \in Kinds, o \in Orders : Receive(w, kind, o)
  BY <1>0, <1>2 DEF Receive, TypeOK, Handing
<1>3. CASE Fetch(w) /\ ~Finish(w)
  BY <1>0, <1>3 DEF Fetch, TypeOK
<1>4. CASE NextOrder(w) \/ Move(w) \/ Wipe(w) \/ Drop(w) \/ Sum(w) \/ Save(w)
  BY <1>0, <1>4 DEF NextOrder, Move, Wipe, Drop, Sum, Save, Handing, tables, history
<1>5. CASE Commit(w) \/ Store(w) \/ DeadlockAbort(w) \/ Fail(w)
  BY <1>1, <1>5 DEF Commit, Store, DeadlockAbort, Fail
<1> QED
  BY <1>1, <1>2, <1>3, <1>4, <1>5 DEF Step, Serve

LEMMA StepFresh == TypeInv /\ PaidInv /\ FreshInv /\ [Next]_vars => FreshInv'
<1> SUFFICES ASSUME TypeInv, PaidInv, FreshInv, [Next]_vars PROVE FreshInv'
  OBVIOUS
<1>1. ASSUME NEW w \in Workers, Step(w) PROVE FreshInv'
  <2>1. ASSUME NEW v \in Workers \ {w} PROVE OrderFresh(v)'
    <3>1. Untouched(v) /\ contended \subseteq contended'
      BY <1>1, OthersUntouched, ContendedGrows
    <3>2. pc[v] \in Handing \cup {"commit"} =>
            orders'[Main(v)] = orders[Main(v)] \/ Main(v) \in contended'
      BY <1>1, TablesChange, MainKept DEF tables
    <3> QED
      BY <3>1, <3>2 DEF FreshInv, OrderFresh, Untouched, Main
  <2>2. OrderFresh(w)'
    BY <1>1, OwnRead DEF FreshInv, OrderFresh, Main, tables, history
  <2> QED
    BY <2>1, <2>2 DEF FreshInv
<1>2. CASE UNCHANGED vars
  BY <1>2 DEF FreshInv, OrderFresh, Main, vars, tables, history
<1> QED
  BY <1>1, <1>2, NextSteps
-----------------------------------------------------------------------------
(***************************************************************************)
(* What a merge has listed is gone                                         *)
(***************************************************************************)
Gone(w, o) == o \in DOMAIN orderRows[w] \/ orders[o] = None \/ o \in contended

ListVisited(w) ==
  /\ pc[w] \in {"idle", "fetch"} => next[w] = 1
  /\ pc[w] \in Merging => \A k \in DOMAIN job[w].list : k < next[w] => Gone(w, job[w].list[k])
  /\ pc[w] \in {"sum", "save", "commit"} => \A k \in DOMAIN job[w].list : k < next[w]

VisitedInv == \A w \in Workers : ListVisited(w)

LEMMA InitVisited == Init => VisitedInv
BY DEF Init, VisitedInv, ListVisited, Merging

\* An order that is gone and not contended is never inserted again: whoever would
\* save it held it while it was there.
LEMMA GoneForGood ==
  ASSUME TypeInv, PaidInv, FreshInv, NEW w \in Workers, Committed(w) \/ Store(w),
         NEW o \in Orders, orders[o] = None, o \notin contended'
  PROVE  orders'[o] = None
<1>1. o \notin contended
  BY DEF Committed, Store, Contend
<1>2. pc[w] \in Handing \cup {"commit"} => o # Main(w)
  BY <1>1 DEF FreshInv, OrderFresh
<1>3. CASE Committed(w)
  BY <1>2, <1>3 DEF Committed, SeenOrder, PaidInv, PaymentKnown
<1>4. CASE Store(w)
  BY <1>2, <1>4 DEF Store, Handing, TypeInv, TypeOK
<1> QED
  BY <1>3, <1>4

LEMMA OwnVisited ==
  ASSUME TypeInv, NEW w \in Workers, ListVisited(w), Step(w)
  PROVE  ListVisited(w)'
<1>0. TypeOK /\ RowsOK /\ HandlerOK(w)
  BY DEF TypeInv
<1>1. CASE Finish(w)
  BY <1>0, <1>1 DEF Finish, ListVisited, TypeOK, Merging
<1>2. CASE \E kind \in Kinds, o \in Orders : Receive(w, kind, o)
  BY <1>0, <1>2 DEF Receive, ListVisited, TypeOK, Merging
<1>3. CASE Fetch(w) /\ ~Finish(w)
  <2>1. /\ next' = next /\ job' = job /\ pc[w] = "fetch" /\ pc'[w] \in {"next", "store"}
    BY <1>0, <1>3 DEF Fetch, TypeOK
  <2>2. job[w].list \in Seq(Orders)
    BY <2>1, MainTyped
  <2>3. next[w] = 1 /\ \A k \in DOMAIN job[w].list : ~(k < 1)
    BY <2>1, <2>2 DEF ListVisited
  <2> QED
    BY <2>1, <2>3 DEF ListVisited, Merging
\* A handler moves on in its list, past an order that is gone.
<1>4. ASSUME pc[w] \in Merging, job' = job, UNCHANGED <<tables, history>>,
             DOMAIN orderRows[w] \subseteq DOMAIN orderRows'[w],
             \/ next'[w] = next[w]
             \/ /\ next'[w] = next[w] + 1
                /\ Listed(w) \in DOMAIN orderRows'[w] \/ orders[Listed(w)] = None,
             pc'[w] \in {"sum", "save", "commit"} => \A k \in DOMAIN job[w].list : k < next'[w],
             pc'[w] \notin {"idle", "fetch"}
      PROVE  ListVisited(w)'
  <2>1. job[w].list \in Seq(Orders) /\ next[w] \in Nat
    BY <1>0, <1>4, MainTyped DEF Merging, HandlerOK
  <2>2. ASSUME NEW k \in DOMAIN job[w].list, k < next'[w] PROVE Gone(w, job[w].list[k])'
    <3>1. orders' = orders /\ contended' = contended
      BY <1>4 DEF tables, history
    <3>2. CASE k < next[w]
      BY <1>4, <3>1, <3>2 DEF ListVisited, Gone
    <3>3. CASE ~(k < next[w])
      <4>1. k = next[w] /\ next'[w] = next[w] + 1
        BY <1>4, <2>1, <2>2, <3>3
      <4> QED
        BY <1>4, <2>1, <3>1, <4>1 DEF Gone, Listed
    <3> QED
      BY <3>2, <3>3
  <2> QED
    BY <1>4, <2>2 DEF ListVisited
<1>5. CASE NextOrder(w)
  <2>1. pc[w] = "next" /\ UNCHANGED <<tables, history, job, orderRows>>
    BY <1>5 DEF NextOrder, txn
  <2>2. job[w].list \in Seq(Orders) /\ next[w] \in Nat
    BY <1>0, <2>1, MainTyped DEF HandlerOK
  <2>3. \/ pc'[w] = "sum" /\ next' = next /\ ~(next[w] <= Len(job[w].list))
        \/ pc'[w] = "next" /\ next'[w] = next[w] + 1 /\ ~Found(w)
        \/ pc'[w] = "move" /\ next' = next
    BY <1>0, <1>5, <2>1 DEF NextOrder, TypeOK
  <2>4. ~Found(w) => Listed(w) \in DOMAIN orderRows[w] \/ orders[Listed(w)] = None
    BY DEF Found, SeenOrder
  <2>5. pc'[w] = "sum" => \A k \in DOMAIN job[w].list : k < next[w]
    BY <2>2, <2>3
  <2> QED
    BY <1>4, <2>1, <2>3, <2>4, <2>5 DEF Merging
<1>6. CASE Drop(w)
  <2>1. /\ pc[w] = "drop" /\ pc'[w] = "next" /\ next'[w] = next[w] + 1
        /\ UNCHANGED <<tables, history, job>>
    BY <1>0, <1>6 DEF Drop, TypeOK
  <2>2. orderRows'[w] = IF SeenOrder(w, Listed(w)) = None THEN orderRows[w]
                        ELSE With(orderRows[w], Listed(w), None)
    BY <1>0, <1>6 DEF Drop, RowsOK
  <2>3. /\ DOMAIN orderRows[w] \subseteq DOMAIN orderRows'[w]
        /\ Listed(w) \in DOMAIN orderRows'[w] \/ orders[Listed(w)] = None
    BY <2>2 DEF With, SeenOrder
  <2> QED
    BY <1>4, <2>1, <2>3 DEF Merging
<1>7. CASE Move(w) \/ Wipe(w)
  <2>1. /\ pc[w] \in Merging /\ pc'[w] \in {"move", "wipe", "drop"}
        /\ UNCHANGED <<tables, history, job, orderRows, next>>
    BY <1>0, <1>7 DEF Move, Wipe, TypeOK, Merging
  <2> QED
    BY <1>4, <2>1
<1>8. CASE Sum(w) \/ Save(w)
  <2>1. /\ pc[w] \in {"sum", "save"} /\ UNCHANGED <<tables, history, job, next>>
        /\ pc'[w] \in {"save", "commit"}
    BY <1>0, <1>8 DEF Sum, Save, TypeOK
  <2>2. orderRows'[w] = orderRows[w] \/ orderRows'[w] = With(orderRows[w], Main(w), Saved(w))
    BY <1>0, <1>8 DEF Sum, Save, RowsOK, txn
  <2>3. DOMAIN orderRows[w] \subseteq DOMAIN orderRows'[w]
    BY <2>2 DEF With
  <2> QED
    BY <1>4, <2>1, <2>3 DEF ListVisited, Merging
<1>9. CASE Commit(w) \/ Store(w) \/ DeadlockAbort(w) \/ Fail(w)
  BY <1>1, <1>9 DEF Commit, Store, DeadlockAbort, Fail
<1> QED
  BY <1>1, <1>2, <1>3, <1>5, <1>6, <1>7, <1>8, <1>9 DEF Step, Serve

LEMMA StepVisited ==
  TypeInv /\ PaidInv /\ FreshInv /\ VisitedInv /\ [Next]_vars => VisitedInv'
<1> SUFFICES ASSUME TypeInv, PaidInv, FreshInv, VisitedInv, [Next]_vars PROVE VisitedInv'
  OBVIOUS
<1>1. ASSUME NEW w \in Workers, Step(w) PROVE VisitedInv'
  <2>1. ASSUME NEW v \in Workers \ {w} PROVE ListVisited(v)'
    <3>1. Untouched(v) /\ contended \subseteq contended'
      BY <1>1, OthersUntouched, ContendedGrows
    <3>2. ASSUME pc[v] \in Merging, NEW k \in DOMAIN job[v].list, k < next[v]
          PROVE  Gone(v, job[v].list[k])'
      <4>1. Gone(v, job[v].list[k])
        BY <3>2 DEF VisitedInv, ListVisited
      <4>2. job[v].list \in Seq(Orders)
        BY <3>2, MainTyped DEF Merging
      <4>3. job[v].list[k] \in Orders
        BY <3>2, <4>2
      <4>4. \/ orders[job[v].list[k]] # None
            \/ orders'[job[v].list[k]] = None \/ job[v].list[k] \in contended'
        BY <1>1, <4>3, TablesChange, GoneForGood DEF tables
      <4> QED
        BY <3>1, <4>1, <4>4 DEF Gone, Untouched
    <3> QED
      BY <3>1, <3>2 DEF VisitedInv, ListVisited, Untouched
  <2>2. ListVisited(w)'
    BY <1>1, OwnVisited DEF VisitedInv
  <2> QED
    BY <2>1, <2>2 DEF VisitedInv
<1>2. CASE UNCHANGED vars
  BY <1>2 DEF VisitedInv, ListVisited, Gone, vars, tables, txn, history
<1> QED
  BY <1>1, <1>2, NextSteps
-----------------------------------------------------------------------------
(***************************************************************************)
(* The items a merge has in hand                                           *)
(***************************************************************************)
\* An item fetched or written by a merge was its listed order's, or is where another
\* request moved it meanwhile.
HandKnown(w) ==
  /\ overtaken[w] \subseteq contended
  /\ pc[w] = "move" =>
       \A i \in batch[w] \ DOMAIN itemRows[w] : items[i] \in {Listed(w), None} \cup overtaken[w]
  /\ \A i \in DOMAIN itemRows[w] :
       items[i] \in ToSet(job[w].list) \cup overtaken[w] \cup {None}

HandInv == \A w \in Workers : HandKnown(w)

LEMMA InitHand == Init => HandInv
BY DEF Init, HandInv, HandKnown, Empty

LEMMA ListedTyped ==
  ASSUME TypeInv, NEW w \in Workers, pc[w] \in {"move", "wipe", "drop"}
  PROVE  /\ Listed(w) \in Orders /\ Listed(w) # None
         /\ Listed(w) \in ToSet(job[w].list)
<1>1. job[w].list \in Seq(Orders) /\ next[w] \in DOMAIN job[w].list
  BY MainTyped DEF TypeInv, HandlerOK
<1> QED
  BY <1>1, NoneAssumption DEF Listed, ToSet

\* A step of w adds to what has overtaken v what w commits in v's hands.
LEMMA OvertakenGrows ==
  ASSUME TypeInv, NEW w \in Workers, Step(w), NEW v \in Workers \ {w}
  PROVE  /\ overtaken[v] \subseteq overtaken'[v]
         /\ Committed(w) => Crossed(w, v) \subseteq overtaken'[v]
         /\ overtaken'[v] \ overtaken[v] \subseteq contended'
<1>0. TypeOK
  BY DEF TypeInv
<1>1. CASE Contend(w)
  BY <1>1 DEF Contend
<1>2. CASE overtaken' = overtaken /\ ~Committed(w)
  BY <1>2
<1>3. CASE \E kind \in Kinds, o \in Orders : Receive(w, kind, o)
  BY <1>0, <1>3 DEF Receive, Committed, TypeOK
<1>4. Committed(w) \/ Store(w) => Contend(w)
  BY DEF Committed, Store
<1>5. Serve(w) \/ Fail(w) => overtaken' = overtaken \/ Committed(w) \/ Store(w)
  BY DEF Serve, Fail, Fetch, NextOrder, Move, Wipe, Drop, Sum, Save, DeadlockAbort, Commit,
         Committed, history
<1> QED
  BY <1>1, <1>2, <1>3, <1>4, <1>5 DEF Step

LEMMA OthersHand ==
  ASSUME TypeInv, RowsInv, NEW w \in Workers, Step(w), NEW v \in Workers \ {w}, HandKnown(v)
  PROVE  HandKnown(v)'
<1>1. Untouched(v) /\ contended \subseteq contended'
  BY OthersUntouched, ContendedGrows
<1>2. overtaken[v] \subseteq overtaken'[v] /\ overtaken'[v] \subseteq contended'
  BY <1>1, OvertakenGrows DEF HandKnown
<1>3. CASE items' = items
  BY <1>1, <1>2, <1>3 DEF HandKnown, Untouched, Listed
<1>4. CASE Committed(w)
  <2>1. \A i \in DOMAIN itemRows[v] : i \in Items /\ i \notin DOMAIN itemRows[w]
    BY DEF RowsInv, ItemLocksApart, TypeInv, TypeOK
  <2>2. \A i \in DOMAIN itemRows[v] : items'[i] = items[i]
    BY <1>4, <2>1 DEF Committed, SeenItem
  <2>3. ASSUME NEW i \in batch[v], items'[i] # items[i]
        PROVE  items'[i] \in {None} \cup overtaken'[v]
    <3>1. i \in Items /\ i \in DOMAIN itemRows[w] /\ items'[i] = itemRows[w][i]
      BY <1>4, <2>3 DEF Committed, SeenItem, TypeInv, TypeOK
    <3>2. items'[i] \in Crossed(w, v) \cup {None}
      BY <2>3, <3>1 DEF Crossed
    <3> QED
      BY <1>4, <3>2, OvertakenGrows
  <2> QED
    BY <1>1, <1>2, <2>2, <2>3 DEF HandKnown, Untouched, Listed
<1> QED
  BY <1>3, <1>4, TablesChange DEF tables, Store

LEMMA OwnHand ==
  ASSUME TypeInv, RowsInv, NEW w \in Workers, Step(w), HandKnown(w)
  PROVE  HandKnown(w)'
<1>0. TypeOK /\ RowsOK
  BY DEF TypeInv
<1>1. ASSUME Finish(w), overtaken'[w] = overtaken[w], contended \subseteq contended'
      PROVE  HandKnown(w)'
  BY <1>0, <1>1 DEF Finish, HandKnown, TypeOK, RowsOK, Empty
<1>2. CASE \E kind \in Kinds, o \in Orders : Receive(w, kind, o)
  <2>1. /\ pc[w] = "idle" /\ pc'[w] = "fetch" /\ itemRows' = itemRows /\ overtaken'[w] = {}
    BY <1>0, <1>2 DEF Receive, txn, TypeOK
  <2> QED
    BY <2>1 DEF HandKnown, RowsInv, MergeRows, Merging
<1>3. ASSUME UNCHANGED <<tables, history, job, itemRows>>, pc'[w] # "move"
      PROVE  HandKnown(w)'
  BY <1>3 DEF HandKnown, tables, history
<1>4. CASE (Fetch(w) /\ ~Finish(w)) \/ Drop(w) \/ Sum(w) \/ Save(w)
  BY <1>0, <1>3, <1>4 DEF Fetch, Drop, Sum, Save, txn, TypeOK
<1>5. CASE NextOrder(w)
  <2>1. UNCHANGED <<tables, history, job, itemRows>>
    BY <1>5 DEF NextOrder, txn
  <2>2. \/ pc'[w] # "move"
        \/ pc'[w] = "move" /\ next' = next /\ batch'[w] = ItemsOf(w, Listed(w))
    BY <1>0, <1>5 DEF NextOrder, TypeOK
  <2>3. \A i \in ItemsOf(w, Listed(w)) \ DOMAIN itemRows[w] : items[i] = Listed(w)
    BY DEF ItemsOf, SeenItem
  <2> QED
    BY <1>3, <2>1, <2>2, <2>3 DEF HandKnown, Listed, tables, history
<1>6. CASE Move(w)
  <2>1. UNCHANGED <<tables, history, job, next>> /\ pc[w] = "move"
    BY <1>6 DEF Move
  <2>2. CASE pc'[w] = "wipe" /\ UNCHANGED itemRows
    BY <1>3, <2>1, <2>2
  <2>3. CASE \E i \in batch[w] :
               /\ batch'[w] = batch[w] \ {i}
               /\ itemRows'[w] = With(itemRows[w], i, Main(w))
    <3>1. PICK i \in batch[w] :
               /\ batch'[w] = batch[w] \ {i}
               /\ itemRows'[w] = With(itemRows[w], i, Main(w))
      BY <2>3
    <3>2. DOMAIN itemRows'[w] = DOMAIN itemRows[w] \cup {i}
      BY <3>1 DEF With
    <3>3. items[i] \in ToSet(job[w].list) \cup overtaken[w] \cup {None}
      BY <2>1, ListedTyped DEF HandKnown
    <3> QED
      BY <2>1, <3>1, <3>2, <3>3 DEF HandKnown, Listed, tables, history
  <2> QED
    BY <1>0, <1>6, <2>2, <2>3 DEF Move, MovedTo, TypeOK, RowsOK
<1>7. CASE Wipe(w)
  <2> DEFINE doomed == ItemsOf(w, Listed(w))
  <2>1. /\ UNCHANGED <<tables, history, job>> /\ pc[w] = "wipe" /\ pc'[w] = "drop"
        /\ DOMAIN itemRows'[w] = DOMAIN itemRows[w] \cup doomed
    BY <1>0, <1>7 DEF Wipe, TypeOK, RowsOK
  <2>2. \A i \in doomed \ DOMAIN itemRows[w] : items[i] \in ToSet(job[w].list)
    BY <2>1, ListedTyped DEF ItemsOf, SeenItem
  <2> QED
    BY <2>1, <2>2 DEF HandKnown, tables, history
<1>8. CASE Commit(w) \/ Store(w) \/ DeadlockAbort(w) \/ Fail(w)
  BY <1>0, <1>1, <1>8 DEF Commit, Store, DeadlockAbort, Fail, Contend, history, TypeOK
<1> QED
  BY <1>1, <1>2, <1>4, <1>5, <1>6, <1>7, <1>8 DEF Step, Serve, Fetch, history

LEMMA StepHand == TypeInv /\ RowsInv /\ HandInv /\ [Next]_vars => HandInv'
<1>1. ASSUME TypeInv, RowsInv, HandInv, NEW w \in Workers, Step(w) PROVE HandInv'
  BY <1>1, OwnHand, OthersHand DEF HandInv
<1>2. ASSUME HandInv, UNCHANGED vars PROVE HandInv'
  BY <1>2 DEF HandInv, HandKnown, Listed, vars, tables, txn, history
<1> QED
  BY <1>1, <1>2, NextSteps
-----------------------------------------------------------------------------
(***************************************************************************)
(* Subtotals                                                               *)
(***************************************************************************)
\* The subtotal computed is that of the items the transaction sees, until the main
\* order is contended; at the commit it is the one written.
SumFresh(w) ==
  /\ pc[w] \in {"save", "commit"} /\ Main(w) \notin contended
       => sum[w] = Cardinality(ItemsOf(w, Main(w)))
  /\ pc[w] = "commit" => orderRows[w][Main(w)] = Saved(w)

SubtotalInv == SubtotalsNeedContention /\ \A w \in Workers : SumFresh(w)

LEMMA InitSubtotal == Init => SubtotalInv
BY DEF Init, SubtotalInv, SubtotalsNeedContention, SumFresh

\* A commit takes an item from an order only if the order is written, contended,
\* or was gone already; and it puts items into the main order only, which it wrote.
LEMMA ItemsTaken ==
  ASSUME TypeInv, PaidInv, RowsInv, VisitedInv, HandInv, NEW w \in Workers, Committed(w),
         NEW i \in Items, items'[i] # items[i]
  PROVE  /\ items[i] \in Orders =>
              \/ items[i] \in DOMAIN orderRows[w]
              \/ orders[items[i]] = None
              \/ items[i] \in contended'
         /\ items'[i] \in Orders => items'[i] = Main(w) /\ Main(w) \in DOMAIN orderRows[w]
<1>1. /\ i \in DOMAIN itemRows[w] /\ items'[i] = itemRows[w][i]
      /\ pc[w] = "commit" /\ Main(w) \in DOMAIN orderRows[w]
  BY DEF Committed, SeenItem, PaidInv, PaymentKnown
<1>2. items'[i] \in {Main(w), None}
  BY <1>1 DEF RowsInv, MergeRows
<1>3. CASE items[i] = Main(w)
  BY <1>1, <1>2, <1>3, NoneAssumption
<1>4. CASE items[i] \in ToSet(job[w].list)
  <2>1. PICK k \in DOMAIN job[w].list : items[i] = job[w].list[k]
    BY <1>4 DEF ToSet
  <2>2. Gone(w, items[i])
    BY <1>1, <2>1 DEF VisitedInv, ListVisited, Merging
  <2> QED
    BY <1>1, <1>2, <2>2, NoneAssumption DEF Gone, Committed, Contend
<1>5. CASE items[i] \in Orders /\ items[i] \notin ToSet(job[w].list) \cup {Main(w)}
  <2>1. items[i] \in contended
    BY <1>1, <1>5, NoneAssumption DEF HandInv, HandKnown
  <2> QED
    BY <1>1, <1>2, <2>1, NoneAssumption DEF Committed, Contend
<1> QED
  BY <1>1, <1>2, <1>3, <1>4, <1>5, NoneAssumption

\* A commit does not change the items another handler is about to save a sum of,
\* unless it makes their order contended.
LEMMA SumKept ==
  ASSUME TypeInv, PaidInv, RowsInv, FreshInv, VisitedInv, HandInv, NEW w \in Workers, Committed(w),
         NEW v \in Workers \ {w}, pc[v] \in {"save", "commit"}, Untouched(v),
         Main(v) \notin contended'
  PROVE  ItemsOf(v, Main(v))' = ItemsOf(v, Main(v))
<1> DEFINE m == Main(v)
<1>1. m \in Orders /\ m # None /\ m' = m
  BY MainTyped DEF Untouched, Main
<1>2. m \notin DOMAIN orderRows[w]
  <2>1. CASE pc[v] = "commit"
    BY <2>1 DEF PaidInv, PaymentKnown, LocksApart
  <2>2. CASE pc[v] = "save"
    <3>1. m \in InHand(v)
      BY <2>2 DEF InHand
    <3> QED
      BY <1>1, <3>1 DEF Committed, Contend, Crossed, Touched
  <2> QED
    BY <2>1, <2>2
<1>3. m \notin contended /\ orders[m] # None
  BY <1>1 DEF Committed, Contend, FreshInv, OrderFresh, Handing
<1>4. ASSUME NEW i \in Items PROVE SeenItem(v, i)' = m <=> SeenItem(v, i) = m
  <2>1. CASE i \in DOMAIN itemRows[v]
    BY <2>1 DEF SeenItem, Untouched
  <2>2. CASE i \notin DOMAIN itemRows[v]
    <3>1. SeenItem(v, i) = items[i] /\ SeenItem(v, i)' = items'[i]
      BY <2>2 DEF SeenItem, Untouched
    <3>2. CASE items'[i] = items[i]
      BY <3>1, <3>2
    <3>3. CASE items'[i] # items[i]
      BY <1>1, <1>2, <1>3, <3>1, <3>3, ItemsTaken
    <3> QED
      BY <3>2, <3>3
  <2> QED
    BY <2>1, <2>2
<1> QED
  BY <1>1, <1>4 DEF ItemsOf

\* A commit writes the subtotal of its main order, and leaves the items of the other
\* orders where they are unless they are deleted or contended.
LEMMA CommitSubtotal ==
  ASSUME TypeInv, PaidInv, RowsInv, VisitedInv, HandInv, SubtotalInv, NEW w \in Workers,
         Committed(w)
  PROVE  SubtotalsNeedContention'
<1> SUFFICES ASSUME NEW o \in Orders, o \notin contended', orders'[o] # None
             PROVE  orders'[o].subtotal = Cardinality({i \in Items : items'[i] = o})
  BY DEF SubtotalsNeedContention
<1>0. o \notin contended /\ TypeOK /\ o # None
  BY NoneAssumption DEF Committed, Contend, TypeInv
<1>1. CASE o \in DOMAIN orderRows[w]
  <2>1. orders'[o] = orderRows[w][o]
    BY <1>1 DEF Committed, SeenOrder
  <2>2. o = Main(w) /\ orders'[o] = Saved(w)
    BY <2>1, <1>1 DEF PaidInv, PaymentKnown, SubtotalInv, SumFresh
  <2>3. Saved(w).subtotal = sum[w]
    BY <1>0 DEF Saved, TypeOK, Order
  <2>4. sum[w] = Cardinality(ItemsOf(w, o))
    BY <1>0, <2>2 DEF SubtotalInv, SumFresh, Committed
  <2>5. ItemsOf(w, o) = {i \in Items : items'[i] = o}
    BY DEF ItemsOf, Committed
  <2> QED
    BY <2>2, <2>3, <2>4, <2>5
<1>2. CASE o \notin DOMAIN orderRows[w]
  <2>1. orders'[o] = orders[o]
    BY <1>2 DEF Committed, SeenOrder
  <2>2. ASSUME NEW i \in Items PROVE items'[i] = o <=> items[i] = o
    BY <1>0, <1>2, <2>1, ItemsTaken
  <2>3. {i \in Items : items'[i] = o} = {i \in Items : items[i] = o}
    BY <2>2
  <2> QED
    BY <1>0, <2>1, <2>3 DEF SubtotalInv, SubtotalsNeedContention
<1> QED
  BY <1>1, <1>2

\* A notice saves the subtotal it read.
LEMMA StoreSubtotal ==
  ASSUME TypeInv, FreshInv, SubtotalInv, NEW w \in Workers, Store(w)
  PROVE  SubtotalsNeedContention'
<1> SUFFICES ASSUME NEW o \in Orders, o \notin contended', orders'[o] # None
             PROVE  orders'[o].subtotal = Cardinality({i \in Items : items'[i] = o})
  BY DEF SubtotalsNeedContention
<1>0. /\ TypeOK /\ items' = items /\ o \notin contended
      /\ pc[w] = "store" /\ orders' = [orders EXCEPT ![Main(w)] = PaidOrder(w)]
  BY DEF Store, Contend, TypeInv
<1>1. PaidOrder(w).subtotal = read[w].subtotal
  BY <1>0 DEF PaidOrder, TypeOK, Order
<1>2. CASE o = Main(w)
  <2>1. orders[o] = read[w] /\ orders[o] # None
    BY <1>0, <1>2 DEF FreshInv, OrderFresh, Handing
  <2>2. orders'[o].subtotal = orders[o].subtotal
    BY <1>0, <1>1, <1>2, <2>1 DEF TypeOK
  <2> QED
    BY <1>0, <2>1, <2>2 DEF SubtotalInv, SubtotalsNeedContention
<1>3. CASE o # Main(w)
  BY <1>0, <1>3 DEF SubtotalInv, SubtotalsNeedContention, TypeOK
<1> QED
  BY <1>2, <1>3

LEMMA OwnSum ==
  ASSUME TypeInv, NEW w \in Workers, SumFresh(w), Step(w)
  PROVE  SumFresh(w)'
<1>0. TypeOK /\ RowsOK
  BY DEF TypeInv
<1>1. CASE pc'[w] \notin {"save", "commit"}
  BY <1>1 DEF SumFresh
<1>2. CASE Sum(w)
  <2>1. /\ UNCHANGED <<tables, history, job, itemRows>> /\ pc'[w] = "save"
        /\ sum'[w] = Cardinality(ItemsOf(w, Main(w)))
    BY <1>0, <1>2 DEF Sum, TypeOK, txn
  <2>2. ItemsOf(w, Main(w))' = ItemsOf(w, Main(w))
    BY <2>1 DEF ItemsOf, SeenItem, Main, tables
  <2> QED
    BY <2>1, <2>2 DEF SumFresh
<1>3. CASE Save(w)
  <2>1. /\ UNCHANGED <<tables, history, job, itemRows, sum, read>>
        /\ pc[w] = "save" /\ pc'[w] = "commit"
    BY <1>0, <1>3 DEF Save, TypeOK
  <2>2. orderRows'[w] = With(orderRows[w], Main(w), Saved(w))
    BY <1>0, <1>3 DEF Save, RowsOK
  <2>3. orderRows'[w][Main(w)] = Saved(w)
    BY <2>2 DEF With
  <2>4. /\ ItemsOf(w, Main(w))' = ItemsOf(w, Main(w))
        /\ Main(w)' = Main(w) /\ Saved(w)' = Saved(w) /\ contended' = contended
    BY <2>1 DEF ItemsOf, SeenItem, Main, Saved, tables, history
  <2> QED
    BY <2>1, <2>3, <2>4 DEF SumFresh
<1>4. CASE Finish(w)
  BY <1>0, <1>1, <1>4 DEF Finish, TypeOK
<1>5. CASE \/ \E kind \in Kinds, o \in Orders : Receive(w, kind, o)
           \/ Fetch(w) /\ ~Finish(w)
           \/ NextOrder(w) \/ Move(w) \/ Wipe(w) \/ Drop(w)
  BY <1>0, <1>1, <1>5 DEF Receive, Fetch, NextOrder, Move, Wipe, Drop, TypeOK
<1>6. CASE Commit(w) \/ Store(w) \/ DeadlockAbort(w) \/ Fail(w)
  BY <1>4, <1>6 DEF Commit, Store, DeadlockAbort, Fail
<1> QED
  BY <1>2, <1>3, <1>4, <1>5, <1>6 DEF Step, Serve
LEMMA StepSubtotal ==
  TypeInv /\ PaidInv /\ RowsInv /\ FreshInv /\ VisitedInv /\ HandInv /\ SubtotalInv /\ [Next]_vars
    => SubtotalInv'
<1> SUFFICES ASSUME TypeInv, PaidInv, RowsInv, FreshInv, VisitedInv, HandInv, SubtotalInv,
                    [Next]_vars
             PROVE  SubtotalInv'
  OBVIOUS
<1>1. ASSUME NEW w \in Workers, Step(w) PROVE SubtotalInv'
  <2>1. SubtotalsNeedContention'
    <3>1. CASE UNCHANGED <<tables, contended>>
      BY <3>1 DEF SubtotalInv, SubtotalsNeedContention, tables
    <3> QED
      BY <1>1, <3>1, TablesChange, CommitSubtotal, StoreSubtotal
  <2>2. SumFresh(w)'
    BY <1>1, OwnSum DEF SubtotalInv
  <2>3. ASSUME NEW v \in Workers \ {w} PROVE SumFresh(v)'
    <3>1. Untouched(v) /\ contended \subseteq contended'
      BY <1>1, OthersUntouched, ContendedGrows
    <3>2. /\ pc'[v] = pc[v] /\ sum'[v] = sum[v] /\ orderRows'[v] = orderRows[v]
          /\ Main(v)' = Main(v) /\ Saved(v)' = Saved(v)
      BY <3>1 DEF Untouched, Main, Saved
    <3>3. ASSUME pc[v] \in {"save", "commit"}, Main(v) \notin contended'
          PROVE  ItemsOf(v, Main(v))' = ItemsOf(v, Main(v))
      <4>1. CASE items' = items
        BY <3>1, <4>1 DEF ItemsOf, SeenItem, Untouched, Main
      <4>2. CASE Committed(w)
        BY <3>1, <3>3, <4>2, SumKept
      <4> QED
        BY <1>1, <4>1, <4>2, TablesChange DEF tables, Store
    <3> QED
      BY <3>1, <3>2, <3>3 DEF SubtotalInv, SumFresh
  <2> QED
    BY <2>1, <2>2, <2>3 DEF SubtotalInv
<1>2. CASE UNCHANGED vars
  BY <1>2 DEF SubtotalInv, SubtotalsNeedContention, SumFresh, ItemsOf, SeenItem, Saved, Main,
              vars, tables, txn, history
<1> QED
  BY <1>1, <1>2, NextSteps

\* Whatever is merged, deleted, rolled back or inserted again, an order's subtotal is
\* the sum of its items unless some request, now or earlier, committed the order while
\* another had read it and was still to use it, or moved an item there which another had
\* fetched (_recalculate_order_amount saves the main order fetched before its
\* transaction).
THEOREM SubtotalsStay == Spec => []SubtotalsNeedContention
<1>1. SubtotalInv => SubtotalsNeedContention
  BY DEF SubtotalInv
<1> QED
  BY <1>1, InitTyped, StepTyped, InitPaid, StepPaid, InitRows, StepRows, InitFresh, StepFresh,
     InitVisited, StepVisited, InitHand, StepHand, InitSubtotal, StepSubtotal, PTL DEF Spec
-----------------------------------------------------------------------------
(***************************************************************************)
(* Lost items                                                              *)
(***************************************************************************)
\* An item written as deleted is an order's that another request committed meanwhile, or
\* the merge lists its own main order; and a merge that deletes an order has in its batch
\* the items that refer to it and are not moved, until the order is so committed.
LossKnown(w) ==
  /\ \A i \in DOMAIN itemRows[w] :
       itemRows[w][i] = None
         => items[i] \in overtaken[w] \cup {None} \/ Main(w) \in ToSet(job[w].list)
  /\ pc[w] \in {"move", "wipe"} =>
       \A i \in Items \ DOMAIN itemRows[w] :
         items[i] = Listed(w) => i \in batch[w] \/ Listed(w) \in overtaken[w]
  /\ pc[w] = "wipe" => batch[w] = {}

LossInv == \A w \in Workers : LossKnown(w)

LEMMA InitLoss == Init => LossInv
BY DEF Init, LossInv, LossKnown, Empty

\* What one handler knows of its items stays true while another one works.
LEMMA OthersLoss ==
  ASSUME TypeInv, RowsInv, NEW w \in Workers, Step(w), NEW v \in Workers \ {w}, LossKnown(v)
  PROVE  LossKnown(v)'
<1>1. Untouched(v) /\ overtaken[v] \subseteq overtaken'[v]
  BY OthersUntouched, OvertakenGrows
<1>2. CASE items' = items
  BY <1>1, <1>2 DEF LossKnown, Untouched, Main, Listed
<1>3. CASE Committed(w)
  <2>1. \A i \in DOMAIN itemRows[v] : i \in Items /\ i \notin DOMAIN itemRows[w]
    BY DEF RowsInv, ItemLocksApart, TypeInv, TypeOK
  <2>2. \A i \in DOMAIN itemRows[v] : items'[i] = items[i]
    BY <1>3, <2>1 DEF Committed, SeenItem
  <2>3. ASSUME pc[v] \in {"move", "wipe"}, NEW i \in Items,
               items'[i] = Listed(v), items[i] # Listed(v)
        PROVE  Listed(v) \in overtaken'[v]
    <3>1. i \in DOMAIN itemRows[w] /\ itemRows[w][i] = Listed(v)
      BY <1>3, <2>3 DEF Committed, SeenItem
    <3>2. Listed(v) \in Touched(w)
      BY <2>3, <3>1, ListedTyped DEF Touched
    <3>3. Listed(v) \in Crossed(w, v)
      BY <2>3, <3>2 DEF Crossed, InHand
    <3> QED
      BY <1>3, <3>3, OvertakenGrows
  <2> QED
    BY <1>1, <2>2, <2>3 DEF LossKnown, Untouched, Main, Listed
<1> QED
  BY <1>2, <1>3, TablesChange DEF tables, Store

LEMMA OwnLoss ==
  ASSUME TypeInv, RowsInv, NEW w \in Workers, Step(w), LossKnown(w)
  PROVE  LossKnown(w)'
<1>0. TypeOK /\ RowsOK
  BY DEF TypeInv
<1>1. CASE Finish(w)
  BY <1>0, <1>1 DEF Finish, LossKnown, TypeOK, RowsOK, Empty
<1>2. CASE \E kind \in Kinds, o \in Orders : Receive(w, kind, o)
  <2>1. /\ pc[w] = "idle" /\ pc'[w] = "fetch" /\ itemRows' = itemRows
    BY <1>0, <1>2 DEF Receive, txn, TypeOK
  <2> QED
    BY <2>1 DEF LossKnown, RowsInv, MergeRows, Merging
\* Steps that write no item and are not within a listed order.
<1>3. ASSUME UNCHANGED <<tables, history, job, itemRows>>, pc'[w] \notin {"move", "wipe"}
      PROVE  LossKnown(w)'
  BY <1>3 DEF LossKnown, Main, tables, history
<1>4. CASE (Fetch(w) /\ ~Finish(w)) \/ Drop(w) \/ Sum(w) \/ Save(w)
  BY <1>0, <1>3, <1>4 DEF Fetch, Drop, Sum, Save, txn, TypeOK
<1>5. CASE NextOrder(w)
  <2>1. UNCHANGED <<tables, history, job, itemRows>>
    BY <1>5 DEF NextOrder, txn
  <2>2. \/ pc'[w] \notin {"move", "wipe"}
        \/ pc'[w] = "move" /\ next' = next /\ batch'[w] = ItemsOf(w, Listed(w))
    BY <1>0, <1>5 DEF NextOrder, TypeOK
  <2>3. \A i \in Items \ DOMAIN itemRows[w] : items[i] = Listed(w) => i \in ItemsOf(w, Listed(w))
    BY DEF ItemsOf, SeenItem
  <2> QED
    BY <1>3, <2>1, <2>2, <2>3 DEF LossKnown, Main, Listed, tables, history
<1>6. CASE Move(w)
  <2>1. UNCHANGED <<tables, history, job, next>> /\ pc[w] = "move"
    BY <1>6 DEF Move
  <2>2. CASE pc'[w] = "wipe" /\ batch[w] = {} /\ UNCHANGED <<batch, itemRows>>
    BY <2>1, <2>2 DEF LossKnown, Main, Listed, tables, history
  <2>3. CASE \E i \in batch[w] :
               /\ pc' = pc
               /\ batch'[w] = batch[w] \ {i}
               /\ itemRows'[w] = With(itemRows[w], i, Main(w))
    <3>1. PICK i \in batch[w] :
               /\ pc' = pc
               /\ batch'[w] = batch[w] \ {i}
               /\ itemRows'[w] = With(itemRows[w], i, Main(w))
      BY <2>3
    <3>2. /\ DOMAIN itemRows'[w] = DOMAIN itemRows[w] \cup {i}
          /\ \A j \in DOMAIN itemRows'[w] :
               itemRows'[w][j] = IF j = i THEN Main(w) ELSE itemRows[w][j]
      BY <3>1 DEF With
    <3>3. Main(w) # None
      BY <2>1, MainTyped
    <3> QED
      BY <2>1, <3>1, <3>2, <3>3 DEF LossKnown, Main, Listed, tables, history
  <2> QED
    BY <1>0, <1>6, <2>2, <2>3 DEF Move, MovedTo, TypeOK, RowsOK
<1>7. CASE Wipe(w)
  <2> DEFINE doomed == ItemsOf(w, Listed(w))
             old == itemRows[w]
             new == [i \in DOMAIN old \cup doomed |-> IF i \in doomed THEN None ELSE old[i]]
  <2>1. /\ UNCHANGED <<tables, history, job>> /\ pc[w] = "wipe" /\ pc'[w] = "drop"
        /\ itemRows'[w] = new
    BY <1>0, <1>7 DEF Wipe, TypeOK, RowsOK
  <2>2. ASSUME NEW i \in doomed
        PROVE  items[i] \in overtaken[w] \cup {None} \/ Main(w) \in ToSet(job[w].list)
    <3>1. Listed(w) \in ToSet(job[w].list) /\ Listed(w) # None
      BY <2>1, ListedTyped
    <3>2. CASE i \in DOMAIN old
      BY <3>1, <3>2 DEF ItemsOf, SeenItem, RowsInv, MergeRows
    <3>3. CASE i \notin DOMAIN old
      BY <2>1, <3>3 DEF ItemsOf, SeenItem, LossKnown
    <3> QED
      BY <3>2, <3>3
  <2> QED
    BY <2>1, <2>2 DEF LossKnown, Main, tables, history
<1>8. CASE Commit(w) \/ Store(w) \/ DeadlockAbort(w) \/ Fail(w)
  BY <1>1, <1>8 DEF Commit, Store, DeadlockAbort, Fail
<1> QED
  BY <1>1, <1>2, <1>4, <1>5, <1>6, <1>7, <1>8 DEF Step, Serve

LEMMA StepLoss == TypeInv /\ RowsInv /\ LossInv /\ [Next]_vars => LossInv'
<1>1. ASSUME TypeInv, RowsInv, LossInv, NEW w \in Workers, Step(w) PROVE LossInv'
  BY <1>1, OwnLoss, OthersLoss DEF LossInv
<1>2. ASSUME LossInv, UNCHANGED vars PROVE LossInv'
  BY <1>2 DEF LossInv, LossKnown, Main, Listed, vars, tables, txn, history
<1> QED
  BY <1>1, <1>2, NextSteps

\* An item disappears only at the commit of a merge, and then from an order it lists
\* together with its own main order, or one that another request committed while this
\* merge had it in hand, or to which another request moved the item when this merge had
\* fetched it ("move all items to the main order", merge_orders).
THEOREM LossesExplained == Spec => LossNeedsContention
<1>1. TypeInv /\ RowsInv /\ HandInv /\ LossInv /\ [Next]_vars
        => [\A i \in Items : items[i] # None /\ items'[i] = None =>
              \E w \in Workers : pc[w] = "commit" /\ pc'[w] = "idle"
                                /\ items[i] \in overtaken[w] \cup Swallowed(w)]_vars
  <2> SUFFICES ASSUME TypeInv, RowsInv, HandInv, LossInv, NEW w \in Workers, Step(w),
                      NEW i \in Items, items[i] # None, items'[i] = None
               PROVE  pc[w] = "commit" /\ pc'[w] = "idle"
                      /\ items[i] \in overtaken[w] \cup Swallowed(w)
    BY NextSteps
  <2>1. Committed(w)
    BY TablesChange DEF tables, Store
  <2>2. i \in DOMAIN itemRows[w] /\ itemRows[w][i] = None
    BY <2>1 DEF Committed, SeenItem
  <2>3. pc[w] = "commit" /\ pc'[w] = "idle"
    BY <2>1 DEF Committed, Finish, TypeInv, TypeOK
  <2>4. CASE Main(w) \in ToSet(job[w].list)
    BY <2>2, <2>3, <2>4 DEF HandInv, HandKnown, Swallowed
  <2>5. CASE Main(w) \notin ToSet(job[w].list)
    BY <2>2, <2>3, <2>5 DEF LossInv, LossKnown
  <2> QED
    BY <2>3, <2>4, <2>5
<1> QED
  BY <1>1, InitTyped, StepTyped, InitRows, StepRows, InitHand, StepHand, InitLoss, StepLoss, PTL
     DEF Spec, LossNeedsContention
=============================================================================
