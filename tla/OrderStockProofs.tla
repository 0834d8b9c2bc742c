-------------------------- MODULE OrderStockProofs --------------------------
(***************************************************************************)
(* Theorems about OrderStock, for every set of workers, SKUs and orders,    *)
(* every quantity, every set of request kinds offered and runnable, and     *)
(* every bound.                                                             *)
(***************************************************************************)
EXTENDS OrderStock, Sums

\* The locals of a handler are those its step needs.
HandlerOK ==
  \A w \in Workers :
    /\ pc[w] # "idle" => job[w] \in Job
    /\ pc[w] # "idle" /\ job[w].order # None =>
         job[w].kind \in OrderKinds \cup {"create", "quick_order"}
    /\ pc[w] \in {"load", "save"} => job[w].kind \in OrderKinds /\ job[w].order \in Orders
    /\ pc[w] = "load" => orders[job[w].order].status # "absent"
    /\ pc[w] \in {"idle", "load", "save"} => line[w] = 1
    /\ pc[w] \in {"read", "write"} => line[w] \in 1..Len(job[w].lines)

\* A SKU row has uncommitted writes of one transaction at most.
LocksOK ==
  /\ \A w \in Workers : pc[w] \in {"idle", "load", "save"} => holds[w] = {}
  /\ \A v, w \in Workers : v # w => holds[v] \cap holds[w] = {}

\* On an uncontended SKU every read still in hand is fresh, and what a
\* transaction is about to commit is what the ledger is about to hold.
ReadsFresh ==
  \A w \in Workers :
    pc[w] = "write" /\ CurrentSku(w) \notin contended => seen[w] = Visible(w, CurrentSku(w))

WritesDue ==
  \A w \in Workers : \A s \in holds[w] \ contended : row[w][s] = due[w][s]

TypeInv == TypeOK /\ HandlerOK
StockInv == LocksOK /\ ReadsFresh /\ WritesDue /\ DriftNeedsContention

-----------------------------------------------------------------------------
\* A line of a request of any kind.
AnyLine == [sku : Skus, qty : Quantities \cup Amounts]

\* The fields of a request, and what the kind says of its lines.
LEMMA JobFields ==
  ASSUME NEW j \in Job
  PROVE  /\ j.kind \in Kinds /\ j.order \in Orders \cup {None} /\ j.status \in Statuses
         /\ j.lines \in Seq(AnyLine)
         /\ j.kind \notin SetKinds => j.lines \in Seq(Line)
         /\ j.kind \in SetKinds => j.lines \in Seq(SetLine) /\ j.order = None
  <1>1. SetKinds \subseteq Kinds /\ Line \subseteq AnyLine /\ SetLine \subseteq AnyLine
    <2>1. SetKinds \subseteq Kinds
      BY DEF SetKinds, Kinds, StockKinds
    <2>2. Line \subseteq AnyLine
      BY DEF Line, AnyLine
    <2>3. SetLine \subseteq AnyLine
      BY DEF SetLine, AnyLine
    <2>4. QED
      BY <2>1, <2>2, <2>3
  <1>2. CASE j \in [kind : Kinds \ SetKinds, order : Orders \cup {None},
                   lines : Seq(Line), status : Statuses]
    <2>1. j.lines \in Seq(Line) /\ j.kind \notin SetKinds
      BY <1>2
    <2>2. j.lines \in Seq(AnyLine)
      BY <1>1, <2>1
    <2>3. QED
      BY <1>2, <2>1, <2>2
  <1>3. CASE j \in [kind : SetKinds, order : {None}, lines : Seq(SetLine), status : Statuses]
    <2>1. j.lines \in Seq(SetLine) /\ j.kind \in SetKinds
      BY <1>3
    <2>2. j.lines \in Seq(AnyLine)
      BY <1>1, <2>1
    <2>3. QED
      BY <1>1, <1>3, <2>1, <2>2
  <1>4. QED
    BY <1>2, <1>3 DEF Job

\* A kind about an order sets no stock by hand.
LEMMA KindsApart ==
  /\ SetKinds \cap OrderKinds = {}
  /\ "create" \notin SetKinds \cup OrderKinds
  /\ "quick_order" \notin SetKinds \cup OrderKinds
  BY DEF SetKinds, OrderKinds

\* save() writes an integer.
LEMMA NewStockInt ==
  ASSUME NEW kind, NEW x \in Int, NEW q \in Quantities \cup Amounts
  PROVE  NewStock(kind, x, q) \in Int
  <1>1. q \in Int
    BY QuantitiesAssumption, AmountsAssumption
  <1>2. QED
    BY <1>1 DEF NewStock, NonNegative

\* The log rows of a write are InventoryLog rows.
LEMMA LogEntriesType ==
  ASSUME NEW kind, NEW s \in Skus, NEW x \in Int, NEW q \in Quantities \cup Amounts
  PROVE  LogEntries(kind, s, x, q) \in Seq(InventoryLog)
  <1>1. NewStock(kind, x, q) \in Int
    BY NewStockInt
  <1>2. \A change \in Int :
          << [sku |-> s, quantity_change |-> change,
              current_quantity |-> NewStock(kind, x, q)] >> \in Seq(InventoryLog)
    BY <1>1 DEF InventoryLog
  <1>3. q \in Int /\ -q \in Int /\ q - x \in Int
    BY QuantitiesAssumption, AmountsAssumption
  <1>4. <<>> \in Seq(InventoryLog)
    OBVIOUS
  <1>5. QED
    BY <1>2, <1>3, <1>4 DEF LogEntries

\* The lines of a request are those its kind may bring.
LEMMA RequestLinesType ==
  ASSUME NEW kind, NEW lines \in RequestLines(kind)
  PROVE  /\ kind \notin SetKinds => lines \in Seq(Line)
         /\ kind \in SetKinds => lines \in Seq(SetLine)
         /\ kind \in OrderKinds => lines = <<>>
  <1>1. CASE kind \in {"create", "quick_order"}
    <2>1. lines \in BoundedSeq(Line, MaxLines)
      BY <1>1 DEF RequestLines
    <2>2. lines \in Seq(Line)
      BY <2>1, BoundsAssumption DEF BoundedSeq, SeqOf
    <2>3. QED
      BY <1>1, <2>2, KindsApart
  <1>2. CASE kind = "bulk_set"
    <2>1. lines \in BoundedSeq(SetLine, MaxLines)
      BY <1>2 DEF RequestLines
    <2>2. lines \in Seq(SetLine)
      BY <2>1, BoundsAssumption DEF BoundedSeq, SeqOf
    <2>3. QED
      BY <1>2, <2>2 DEF SetKinds, OrderKinds
  <1>3. CASE kind = "edit_stock"
    <2>1. PICK l \in SetLine : lines = <<l>>
      BY <1>3 DEF RequestLines
    <2>2. QED
      BY <1>3, <2>1 DEF SetKinds, OrderKinds
  <1>4. CASE kind \in {"increase", "decrease", "edit_price"}
    <2>1. PICK l \in Line : lines = <<l>>
      BY <1>4 DEF RequestLines
    <2>2. QED
      BY <1>4, <2>1 DEF SetKinds, OrderKinds
  <1>5. CASE kind \notin StockKinds
    <2>1. lines = <<>>
      BY <1>5 DEF RequestLines, StockKinds
    <2>2. QED
      BY <1>5, <2>1 DEF SetKinds, StockKinds
  <1>6. QED
    BY <1>1, <1>2, <1>3, <1>4, <1>5 DEF StockKinds

\* A SKU in hand is a SKU.
LEMMA CurrentLineType ==
  ASSUME TypeInv, NEW w \in Workers, pc[w] \in {"read", "write"}
  PROVE  /\ CurrentLine(w) \in AnyLine
         /\ CurrentSku(w) \in Skus
         /\ CurrentLine(w).qty \in Quantities \cup Amounts
         /\ job[w].kind \notin SetKinds => CurrentLine(w).qty \in Quantities
  <1>1. job[w] \in Job /\ line[w] \in 1..Len(job[w].lines)
    BY DEF TypeInv, HandlerOK
  <1>2. /\ job[w].lines \in Seq(AnyLine)
        /\ job[w].kind \notin SetKinds => job[w].lines \in Seq(Line)
    BY <1>1, JobFields
  <1>3. /\ job[w].lines[line[w]] \in AnyLine
        /\ job[w].kind \notin SetKinds => job[w].lines[line[w]] \in Line
    BY <1>1, <1>2
  <1>4. QED
    BY <1>3 DEF CurrentLine, CurrentSku, Line, AnyLine
-----------------------------------------------------------------------------
\* The tables and the idle workers at the start are typed.
LEMMA TypeInit == Init => TypeInv
  <1> SUFFICES ASSUME Init PROVE TypeInv
    OBVIOUS
  <1> USE DEF Init, Blank
  <1>1. TablesOK
    <2>1. stock \in [Skus -> Int] /\ ledger \in [Skus -> Int]
      BY InitialStockAssumption
    <2>2. orders \in [Orders -> Order]
      BY DEF Order
    <2>3. /\ trail \in [Orders -> Seq(StatusLog)] /\ inventory \in Seq(InventoryLog)
          /\ unlogged \in [Orders -> Seq(StatusLog)]
      OBVIOUS
    <2>4. QED
      BY <2>1, <2>2, <2>3 DEF TablesOK
  <1>2. LocalsOK
    BY DEF LocalsOK, Steps, Statuses
  <1>3. HandlerOK
    BY DEF HandlerOK
  <1>4. QED
    BY <1>1, <1>2, <1>3 DEF TypeInv, TypeOK

\* Whatever ends a request leaves the locals of an idle worker.
LEMMA FinishType ==
  ASSUME TypeInv, NEW w \in Workers, Finish(w),
         \A o \in Orders : orders[o].status # "absent" => orders'[o].status # "absent"
  PROVE  LocalsOK' /\ HandlerOK'
  <1>1. LocalsOK'
    BY DEF TypeInv, TypeOK, LocalsOK, Finish, Blank, Steps, Statuses
  <1>2. HandlerOK'
    BY DEF TypeInv, TypeOK, LocalsOK, HandlerOK, Finish
  <1>3. QED
    BY <1>1, <1>2

\* A step that leaves the tables alone leaves them typed.
LEMMA TablesKept ==
  ASSUME TypeInv, UNCHANGED <<db, history>>, served' \in Nat, failures' \in Nat
  PROVE  TablesOK'
  BY DEF TypeInv, TypeOK, TablesOK, db, history

\* A request that is taken has the fields its handler will use.
LEMMA ReceiveType ==
  ASSUME TypeInv, NEW w \in Workers, NEW kind \in Kinds, NEW o \in Orders \cup {None},
         Receive(w, kind, o)
  PROVE  TypeInv'
  <1>0. RequestStatuses(kind) \subseteq Statuses
    BY SettableAssumption DEF RequestStatuses, Statuses
  <1>1. PICK lines \in RequestLines(kind), status \in Statuses :
          /\ job' = [job EXCEPT ![w] = [kind |-> kind, order |-> o,
                                        lines |-> lines, status |-> status]]
          /\ pc' = [pc EXCEPT ![w] = FirstStep(kind, lines)]
    BY <1>0 DEF Receive
  <1>2. /\ kind \notin SetKinds => lines \in Seq(Line)
        /\ kind \in SetKinds => lines \in Seq(SetLine) /\ o = None
    BY RequestLinesType, KindsApart DEF Receive
  <1>3. [kind |-> kind, order |-> o, lines |-> lines, status |-> status] \in Job
    BY <1>2 DEF Job
  <1>4. kind \in OrderKinds => o \in Orders /\ orders[o].status # "absent"
    BY DEF Receive, OrderKinds
  <1>5. o # None => kind \in OrderKinds \cup {"create", "quick_order"}
    BY DEF Receive
  <1>6. /\ FirstStep(kind, lines) \in {"load", "commit", "read"}
        /\ FirstStep(kind, lines) = "load" => kind \in OrderKinds
        /\ FirstStep(kind, lines) = "read" => lines # <<>>
    BY DEF FirstStep
  <1>7. TablesOK'
    BY TablesKept DEF Receive, TypeInv, TypeOK, TablesOK
  <1>8. LocalsOK'
    BY <1>1, <1>3, <1>6 DEF Receive, txn, TypeInv, TypeOK, LocalsOK, Steps
  <1>9. HandlerOK'
    <2> SUFFICES ASSUME NEW v \in Workers
                 PROVE  /\ pc'[v] # "idle" => job'[v] \in Job
                        /\ pc'[v] # "idle" /\ job'[v].order # None =>
                             job'[v].kind \in OrderKinds \cup {"create", "quick_order"}
                        /\ pc'[v] \in {"load", "save"} =>
                             job'[v].kind \in OrderKinds /\ job'[v].order \in Orders
                        /\ pc'[v] = "load" => orders'[job'[v].order].status # "absent"
                        /\ pc'[v] \in {"idle", "load", "save"} => line'[v] = 1
                        /\ pc'[v] \in {"read", "write"} => line'[v] \in 1..Len(job'[v].lines)
      BY DEF HandlerOK
    <2>1. pc[w] = "idle" /\ line' = line /\ line[w] = 1
      BY DEF Receive, TypeInv, HandlerOK
    <2> orders' = orders
      BY DEF Receive, db
    <2>2. CASE v = w
      BY <1>1, <1>2, <1>3, <1>4, <1>5, <1>6, <2>1, <2>2 DEF TypeInv, TypeOK, LocalsOK
    <2>3. CASE v # w
      BY <1>1, <2>1, <2>3 DEF TypeInv, TypeOK, LocalsOK, HandlerOK
    <2>4. QED
      BY <2>2, <2>3
  <1>10. QED
    BY <1>7, <1>8, <1>9 DEF TypeInv, TypeOK

\* The steps that end a request without a commit.
LEMMA AbandonType ==
  ASSUME TypeInv, NEW w \in Workers, Finish(w), UNCHANGED <<db, history, served>>,
         failures' \in Nat
  PROVE  TypeInv'
  <1>1. TablesOK'
    BY TablesKept DEF TypeInv, TypeOK, TablesOK
  <1>2. LocalsOK' /\ HandlerOK'
    BY FinishType DEF db
  <1>3. QED
    BY <1>1, <1>2 DEF TypeInv, TypeOK

\* get_object leaves a typed order in hand, or ends the request.
LEMMA LoadType ==
  ASSUME TypeInv, NEW w \in Workers, Load(w)
  PROVE  TypeInv'
  <1>1. CASE Finish(w)
    BY <1>1, AbandonType DEF Load, TypeInv, TypeOK, TablesOK
  <1>2. CASE ~Finish(w)
    <2> DEFINE o == job[w].order
               items == IF job[w].kind = "cancel" THEN orders[o].lines ELSE <<>>
               st == IF job[w].kind = "edit_order" THEN orders[o].status ELSE job[w].status
    <2>1. /\ pc[w] = "load"
          /\ oldStatus' = [oldStatus EXCEPT ![w] = orders[o].status]
          /\ job' = [job EXCEPT ![w].lines = items, ![w].status = st]
          /\ pc' = [pc EXCEPT ![w] = "save"]
          /\ UNCHANGED <<db, history, txn, line, seen, served, failures>>
      BY <1>2 DEF Load
    <2>2. /\ job[w] \in Job
          /\ job[w].kind \in OrderKinds
          /\ o \in Orders
          /\ orders[o].status # "absent"
          /\ line[w] = 1
      BY <2>1 DEF TypeInv, HandlerOK
    <2>3. orders[o].status \in Statuses /\ items \in Seq(Line) /\ st \in Statuses
      BY <2>2, JobFields DEF TypeInv, TypeOK, TablesOK, Order
    <2>4. /\ [job[w] EXCEPT !.lines = items, !.status = st] \in Job
          /\ [job[w] EXCEPT !.lines = items, !.status = st].kind = job[w].kind
          /\ [job[w] EXCEPT !.lines = items, !.status = st].order = o
      BY <2>2, <2>3, KindsApart DEF Job
    <2>5. /\ job'[w] = [job[w] EXCEPT !.lines = items, !.status = st]
          /\ \A v \in Workers \ {w} : job'[v] = job[v]
          /\ job' \in [Workers -> Job \cup {None}]
      BY <2>1, <2>4 DEF TypeInv, TypeOK, LocalsOK
    <2>6. TablesOK'
      BY <2>1, TablesKept DEF TypeInv, TypeOK, TablesOK
    <2>7. LocalsOK'
      BY <2>1, <2>3, <2>5 DEF txn, TypeInv, TypeOK, LocalsOK, Steps
    <2>8. HandlerOK'
      BY <2>1, <2>2, <2>4, <2>5 DEF db, TypeInv, TypeOK, LocalsOK, HandlerOK
    <2>9. QED
      BY <2>6, <2>7, <2>8 DEF TypeInv, TypeOK
  <1>3. QED
    BY <1>1, <1>2

\* order.save() writes nothing that is not typed.
LEMMA SaveOrderType ==
  ASSUME TypeInv, NEW w \in Workers, SaveOrder(w)
  PROVE  TypeInv'
  <1>1. TablesOK'
    BY TablesKept DEF SaveOrder, TypeInv, TypeOK, TablesOK
  <1>2. LocalsOK'
    BY DEF SaveOrder, TypeInv, TypeOK, LocalsOK, Steps
  <1>3. job[w].lines \in Seq(AnyLine) /\ line[w] = 1
    BY JobFields DEF SaveOrder, TypeInv, HandlerOK
  <1>4. HandlerOK'
    BY <1>3 DEF SaveOrder, db, TypeInv, TypeOK, LocalsOK, HandlerOK
  <1>5. QED
    BY <1>1, <1>2, <1>4 DEF TypeInv, TypeOK

\* A SELECT of stock_quantity returns an integer.
LEMMA VisibleType ==
  ASSUME TypeInv, NEW w \in Workers, NEW s \in Skus
  PROVE  Visible(w, s) \in Int
  BY DEF Visible, TypeInv, TypeOK, TablesOK, LocalsOK

\* Fetching a SKU puts an integer in hand.
LEMMA ReadType ==
  ASSUME TypeInv, NEW w \in Workers, Read(w)
  PROVE  TypeInv'
  <1>1. TablesOK'
    BY TablesKept DEF Read, TypeInv, TypeOK, TablesOK
  <1>2. Visible(w, CurrentSku(w)) \in Int
    BY CurrentLineType, VisibleType DEF Read
  <1>3. LocalsOK'
    BY <1>2 DEF Read, Fetched, txn, TypeInv, TypeOK, LocalsOK, Steps
  <1>4. HandlerOK'
    BY DEF Read, db, TypeInv, TypeOK, LocalsOK, HandlerOK
  <1>5. QED
    BY <1>1, <1>3, <1>4 DEF TypeInv, TypeOK

\* sku.save() and its log row are typed, and the next line exists.
LEMMA WriteType ==
  ASSUME TypeInv, NEW w \in Workers, Write(w)
  PROVE  TypeInv'
  <1> DEFINE s == CurrentSku(w)
             q == CurrentLine(w).qty
             base == IF s \in holds[w] THEN due[w][s] ELSE ledger[s]
             last == line[w] = Len(job[w].lines)
  <1>1. s \in Skus /\ q \in Quantities \cup Amounts
    BY CurrentLineType DEF Write
  <1>2. base \in Int /\ seen[w] \in Int
    BY <1>1 DEF TypeInv, TypeOK, TablesOK, LocalsOK
  <1>3. /\ NewStock(job[w].kind, seen[w], q) \in Int
        /\ NewStock(job[w].kind, base, q) \in Int
        /\ LogEntries(job[w].kind, s, seen[w], q) \in Seq(InventoryLog)
    BY <1>1, <1>2, NewStockInt, LogEntriesType
  <1>4. TablesOK'
    BY TablesKept DEF Write, TypeInv, TypeOK, TablesOK
  <1>5. line[w] \in 1..Len(job[w].lines) /\ job[w].lines \in Seq(AnyLine)
    BY JobFields DEF Write, TypeInv, HandlerOK
  <1>6. LocalsOK'
    <2>1. row' \in [Workers -> [Skus -> Int]] /\ due' \in [Workers -> [Skus -> Int]]
      BY <1>1, <1>3 DEF Write, TypeInv, TypeOK, LocalsOK
    <2>2. entries' \in [Workers -> Seq(InventoryLog)]
      BY <1>3 DEF Write, TypeInv, TypeOK, LocalsOK
    <2>3. holds' \in [Workers -> SUBSET Skus]
      BY <1>1 DEF Write, TypeInv, TypeOK, LocalsOK
    <2>4. line' \in [Workers -> Nat \ {0}] /\ pc' \in [Workers -> Steps]
      BY <1>5 DEF Write, TypeInv, TypeOK, LocalsOK, Steps
    <2>5. QED
      BY <2>1, <2>2, <2>3, <2>4 DEF Write, TypeInv, TypeOK, LocalsOK
  <1>7. HandlerOK'
    BY <1>5 DEF Write, db, TypeInv, TypeOK, LocalsOK, HandlerOK
  <1>8. QED
    BY <1>4, <1>6, <1>7 DEF TypeInv, TypeOK

\* The order row a commit leaves is an order.
LEMMA CommittedOrderType ==
  ASSUME TypeInv, NEW w \in Workers, pc[w] = "commit",
         job[w].kind \in OrderKinds \cup {"create", "quick_order"},
         job[w].order \in Orders
  PROVE  CommittedOrder(w) \in Order /\ CommittedOrder(w).status # "absent"
  <1> DEFINE j == job[w]
             old == orders[j.order]
  <1>1. /\ j.status \in Statuses
        /\ j.lines \in Seq(Line)
        /\ old \in Order
    BY JobFields, KindsApart DEF TypeInv, TypeOK, TablesOK, HandlerOK
  <1>2. j.status # "absent"
    BY <1>1 DEF Statuses
  <1>3. CASE j.kind \in {"create", "quick_order"}
    BY <1>1, <1>2, <1>3 DEF CommittedOrder, Order
  <1>4. CASE j.kind = "cancel"
    <2>1. CommittedOrder(w) = [old EXCEPT !.status = j.status, !.restocked = @ + 1]
      BY <1>4 DEF CommittedOrder
    <2>2. CommittedOrder(w) = [status |-> j.status, lines |-> old.lines,
                               restocked |-> old.restocked + 1]
      BY <1>1, <2>1 DEF Order
    <2>3. QED
      BY <1>1, <1>2, <2>2 DEF Order
  <1>5. CASE j.kind \in OrderKinds \ {"cancel"}
    <2>1. CommittedOrder(w) = [old EXCEPT !.status = j.status]
      BY <1>5 DEF CommittedOrder, OrderKinds
    <2>2. QED
      BY <1>1, <1>2, <2>1 DEF Order
  <1>6. QED
    BY <1>3, <1>4, <1>5 DEF OrderKinds

\* The status log rows of a commit are log rows.
LEMMA StatusLogsType ==
  ASSUME TypeInv, NEW w \in Workers, pc[w] = "commit", NEW logs \in StatusLogs(w)
  PROVE  logs \in Seq(StatusLog)
  <1>1. job[w].status \in Statuses /\ oldStatus[w] \in Statuses
    BY JobFields DEF TypeInv, TypeOK, LocalsOK, HandlerOK
  <1>2. \/ logs = << [old |-> oldStatus[w], new |-> job[w].status] >>
        \/ logs = << [old |-> "pending", new |-> job[w].status] >>
        \/ logs = <<>>
    <2>1. CASE job[w].kind \in {"cancel", "update_status"}
      BY <2>1 DEF StatusLogs
    <2>2. CASE job[w].kind = "create"
      BY <2>2 DEF StatusLogs
    <2>3. CASE job[w].kind \notin {"cancel", "update_status", "create"}
      BY <2>3 DEF StatusLogs
    <2>4. QED
      BY <2>1, <2>2, <2>3
  <1>3. "pending" \in Statuses
    BY DEF Statuses
  <1>4. \A s \in Statuses : << [old |-> s, new |-> job[w].status] >> \in Seq(StatusLog)
    BY <1>1 DEF StatusLog
  <1>5. <<>> \in Seq(StatusLog)
    OBVIOUS
  <1>6. QED
    BY <1>1, <1>2, <1>3, <1>4, <1>5, Zenon

\* So are those it does not write.
LEMMA UnloggedType ==
  ASSUME TypeInv, NEW w \in Workers, pc[w] = "commit"
  PROVE  Unlogged(w) \in Seq(StatusLog)
  <1>1. [old |-> oldStatus[w], new |-> job[w].status] \in StatusLog
    BY JobFields DEF TypeInv, TypeOK, LocalsOK, HandlerOK, StatusLog
  <1>2. QED
    BY <1>1 DEF Unlogged

\* A commit leaves typed tables.
LEMMA CommitType ==
  ASSUME TypeInv, NEW w \in Workers, Commit(w)
  PROVE  TypeInv'
  <1> DEFINE o == job[w].order
  <1>1. pc[w] = "commit" /\ job[w] \in Job
    BY DEF Commit, TypeInv, HandlerOK
  <1>2. o \in Orders => job[w].kind \in OrderKinds \cup {"create", "quick_order"}
    BY <1>1, NoneAssumption DEF TypeInv, HandlerOK
  <1>3. o \in Orders => CommittedOrder(w) \in Order /\ CommittedOrder(w).status # "absent"
    BY <1>1, <1>2, CommittedOrderType
  <1>4. PICK logs \in StatusLogs(w) :
          trail' = [x \in Orders |-> IF x = o THEN trail[x] \o logs ELSE trail[x]]
    BY DEF Commit
  <1>5. logs \in Seq(StatusLog)
    BY <1>1, StatusLogsType
  <1>6. TablesOK'
    <2>1. stock' \in [Skus -> Int] /\ ledger' \in [Skus -> Int]
      BY DEF Commit, TypeInv, TypeOK, TablesOK, LocalsOK
    <2>2. orders' \in [Orders -> Order]
      BY <1>3 DEF Commit, TypeInv, TypeOK, TablesOK
    <2>3. trail' \in [Orders -> Seq(StatusLog)]
      BY <1>4, <1>5 DEF TypeInv, TypeOK, TablesOK
    <2>4. inventory' \in Seq(InventoryLog)
      BY DEF Commit, TypeInv, TypeOK, TablesOK, LocalsOK
    <2>5. contended' \subseteq Skus /\ raced' \subseteq Orders /\ marked' \subseteq Orders
      BY <1>1, JobFields DEF Commit, StaleReads, StaleOrders, Marked, TypeInv, TypeOK, TablesOK,
                             LocalsOK
    <2>6. served' \in Nat /\ failures' \in Nat
      BY DEF Commit, TypeInv, TypeOK, TablesOK
    <2>7. unlogged' \in [Orders -> Seq(StatusLog)]
      BY <1>1, UnloggedType DEF Commit, TypeInv, TypeOK, TablesOK
    <2>8. QED
      BY <2>1, <2>2, <2>3, <2>4, <2>5, <2>6, <2>7 DEF TablesOK
  <1>7. LocalsOK' /\ HandlerOK'
    <2>1. \A x \in Orders : orders[x].status # "absent" => orders'[x].status # "absent"
      BY <1>3 DEF Commit
    <2>2. QED
      BY <2>1, FinishType DEF Commit
  <1>8. QED
    BY <1>6, <1>7 DEF TypeInv, TypeOK

\* Every step keeps the tables and the locals typed.
LEMMA TypeNext == TypeInv /\ [Next]_vars => TypeInv'
  <1> SUFFICES ASSUME TypeInv, [Next]_vars PROVE TypeInv'
    OBVIOUS
  <1>1. ASSUME NEW w \in Workers, NEW kind \in Kinds, NEW o \in Orders \cup {None},
               Receive(w, kind, o)
        PROVE  TypeInv'
    BY <1>1, ReceiveType
  <1>2. ASSUME NEW w \in Workers, NameError(w) PROVE TypeInv'
    BY <1>2, AbandonType DEF NameError, TypeInv, TypeOK, TablesOK
  <1>3. ASSUME NEW w \in Workers, Load(w) PROVE TypeInv'
    BY <1>3, LoadType
  <1>4. ASSUME NEW w \in Workers, SaveOrder(w) PROVE TypeInv'
    BY <1>4, SaveOrderType
  <1>5. ASSUME NEW w \in Workers, Read(w) PROVE TypeInv'
    BY <1>5, ReadType
  <1>6. ASSUME NEW w \in Workers, Write(w) PROVE TypeInv'
    BY <1>6, WriteType
  <1>7. ASSUME NEW w \in Workers, Commit(w) PROVE TypeInv'
    BY <1>7, CommitType
  <1>8. ASSUME NEW w \in Workers, DeadlockAbort(w) PROVE TypeInv'
    BY <1>8, AbandonType DEF DeadlockAbort, TypeInv, TypeOK, TablesOK
  <1>9. ASSUME NEW w \in Workers, Fail(w) PROVE TypeInv'
    BY <1>9, AbandonType DEF Fail, TypeInv, TypeOK, TablesOK
  <1>10. CASE UNCHANGED vars
    BY <1>10 DEF vars, db, txn, history, TypeInv, TypeOK, TablesOK, LocalsOK, HandlerOK
  <1>11. QED
    BY <1>1, <1>2, <1>3, <1>4, <1>5, <1>6, <1>7, <1>8, <1>9, <1>10 DEF Next, Serve

\* Rows and locals keep their types (the shapes of the models and of the
\* handlers' local variables), for any number of requests of any kind.
THEOREM TypeCorrectness == Spec => []TypeOK
  <1>1. Spec => []TypeInv
    BY TypeInit, TypeNext, PTL DEF Spec
  <1>2. TypeInv => TypeOK
    BY DEF TypeInv
  <1>3. QED
    BY <1>1, <1>2, PTL

-----------------------------------------------------------------------------
\* A request that ends without a commit takes nothing with it.
LEMMA AbandonStock ==
  ASSUME TypeInv, StockInv, NEW w \in Workers, Finish(w), UNCHANGED <<db, history>>
  PROVE  StockInv'
  <1>1. /\ pc'[w] = "idle" /\ holds'[w] = {}
        /\ \A v \in Workers \ {w} : /\ pc'[v] = pc[v] /\ holds'[v] = holds[v]
                                    /\ row'[v] = row[v] /\ due'[v] = due[v]
                                    /\ seen'[v] = seen[v] /\ job'[v] = job[v]
                                    /\ line'[v] = line[v]
        /\ stock' = stock /\ ledger' = ledger /\ contended' = contended
    BY DEF Finish, db, history, TypeInv, TypeOK, LocalsOK
  <1>2. LocksOK'
    BY <1>1 DEF StockInv, LocksOK
  <1>3. ReadsFresh'
    BY <1>1 DEF StockInv, ReadsFresh, CurrentSku, CurrentLine, Visible
  <1>4. WritesDue'
    BY <1>1 DEF StockInv, WritesDue
  <1>5. DriftNeedsContention'
    BY <1>1 DEF StockInv, DriftNeedsContention
  <1>6. QED
    BY <1>2, <1>3, <1>4, <1>5 DEF StockInv

\* A step before the first write of a SKU moves no row.
LEMMA QuietStock ==
  ASSUME TypeInv, StockInv, NEW w \in Workers, UNCHANGED <<db, history, holds, row, due>>,
         pc' \in [Workers -> Steps], pc'[w] # "write", pc'[w] \notin {"idle"},
         pc[w] \in {"idle", "load", "save"},
         \A v \in Workers \ {w} : /\ pc'[v] = pc[v] /\ seen'[v] = seen[v]
                                  /\ job'[v] = job[v] /\ line'[v] = line[v]
  PROVE  StockInv'
  <1>1. /\ stock' = stock /\ ledger' = ledger /\ contended' = contended
        /\ holds' = holds /\ row' = row /\ due' = due /\ holds[w] = {}
    BY DEF db, history, StockInv, LocksOK
  <1>2. LocksOK'
    BY <1>1 DEF StockInv, LocksOK
  <1>3. ReadsFresh'
    BY <1>1 DEF StockInv, ReadsFresh, CurrentSku, CurrentLine, Visible
  <1>4. WritesDue' /\ DriftNeedsContention'
    BY <1>1 DEF StockInv, WritesDue, DriftNeedsContention
  <1>5. QED
    BY <1>2, <1>3, <1>4 DEF StockInv

\* A SKU that is read is in hand as it is visible.
LEMMA ReadStock ==
  ASSUME TypeInv, StockInv, NEW w \in Workers, Read(w)
  PROVE  StockInv'
  <1>1. /\ stock' = stock /\ ledger' = ledger /\ contended' = contended
        /\ holds' = holds /\ row' = row /\ due' = due
        /\ job' = job /\ line' = line
        /\ pc' = [pc EXCEPT ![w] = "write"]
        /\ seen' = [seen EXCEPT ![w] = Visible(w, CurrentSku(w))]
        /\ pc[w] = "read"
    BY DEF Read, Fetched, db, history, txn
  <1>2. LocksOK'
    BY <1>1 DEF StockInv, LocksOK, TypeInv, TypeOK, LocalsOK
  <1>3. ReadsFresh'
    <2> SUFFICES ASSUME NEW v \in Workers, pc'[v] = "write", CurrentSku(v)' \notin contended'
                 PROVE  seen'[v] = Visible(v, CurrentSku(v))'
      BY DEF ReadsFresh
    <2>1. Visible(v, CurrentSku(v))' = Visible(v, CurrentSku(v)) /\ CurrentSku(v)' = CurrentSku(v)
      BY <1>1 DEF Visible, CurrentSku, CurrentLine
    <2>2. CASE v = w
      BY <1>1, <2>1, <2>2 DEF TypeInv, TypeOK, LocalsOK
    <2>3. CASE v # w
      <3>1. pc[v] = "write" /\ seen'[v] = seen[v]
        BY <1>1, <2>3 DEF TypeInv, TypeOK, LocalsOK
      <3>2. QED
        BY <1>1, <2>1, <3>1 DEF StockInv, ReadsFresh
    <2>4. QED
      BY <2>2, <2>3
  <1>4. WritesDue' /\ DriftNeedsContention'
    BY <1>1 DEF StockInv, WritesDue, DriftNeedsContention
  <1>5. QED
    BY <1>2, <1>3, <1>4 DEF StockInv

\* A save() over a fresh read writes what the ledger is due.
LEMMA WriteStock ==
  ASSUME TypeInv, StockInv, NEW w \in Workers, Write(w)
  PROVE  StockInv'
  <1> DEFINE s == CurrentSku(w)
             kind == job[w].kind
             q == CurrentLine(w).qty
             base == IF s \in holds[w] THEN due[w][s] ELSE ledger[s]
  <1>1. /\ pc[w] = "write"
        /\ \A v \in Workers \ {w} : s \notin holds[v]
        /\ holds' = [holds EXCEPT ![w] = @ \cup {s}]
        /\ row' = [row EXCEPT ![w][s] = NewStock(kind, seen[w], q)]
        /\ due' = [due EXCEPT ![w][s] = NewStock(kind, base, q)]
        /\ stock' = stock /\ ledger' = ledger /\ contended' = contended
        /\ job' = job /\ seen' = seen
    BY DEF Write, SkuHolders, db, history
  <1>2. pc'[w] \in {"commit", "read"}
    BY DEF Write, TypeInv, TypeOK, LocalsOK
  <1>3. \A v \in Workers \ {w} : /\ pc'[v] = pc[v] /\ line'[v] = line[v]
                                 /\ holds'[v] = holds[v] /\ row'[v] = row[v]
                                 /\ due'[v] = due[v]
    BY DEF Write, TypeInv, TypeOK, LocalsOK
  <1>4. s \in Skus
    BY <1>1, CurrentLineType
  <1>5. holds'[w] = holds[w] \cup {s}
    BY <1>1 DEF TypeInv, TypeOK, LocalsOK
  <1>6. LocksOK'
    BY <1>1, <1>2, <1>3, <1>5 DEF StockInv, LocksOK
  <1>7. ReadsFresh'
    BY <1>1, <1>2, <1>3 DEF StockInv, ReadsFresh, CurrentSku, CurrentLine, Visible
  <1>8. WritesDue'
    <2>1. s \notin contended => seen[w] = base
      BY <1>1, <1>4 DEF StockInv, ReadsFresh, WritesDue, DriftNeedsContention, Visible
    <2>2. /\ row'[w][s] = NewStock(kind, seen[w], q)
          /\ due'[w][s] = NewStock(kind, base, q)
          /\ \A x \in Skus \ {s} : row'[w][x] = row[w][x] /\ due'[w][x] = due[w][x]
      BY <1>1, <1>4 DEF TypeInv, TypeOK, LocalsOK
    <2>3. \A x \in holds'[w] \ contended' : row'[w][x] = due'[w][x]
      BY <1>1, <1>4, <1>5, <2>1, <2>2 DEF StockInv, WritesDue, TypeInv, TypeOK, LocalsOK
    <2>4. QED
      BY <1>1, <1>3, <2>3 DEF StockInv, WritesDue
  <1>9. DriftNeedsContention'
    BY <1>1 DEF StockInv, DriftNeedsContention
  <1>10. QED
    BY <1>6, <1>7, <1>8, <1>9 DEF StockInv

\* A commit moves stock and ledger together, or marks the SKU contended.
LEMMA CommitStock ==
  ASSUME TypeInv, StockInv, NEW w \in Workers, Commit(w)
  PROVE  StockInv'
  <1>1. /\ stock' = [x \in Skus |-> IF x \in holds[w] THEN row[w][x] ELSE stock[x]]
        /\ ledger' = [x \in Skus |-> IF x \in holds[w] THEN due[w][x] ELSE ledger[x]]
        /\ contended' = contended \cup StaleReads(w)
    BY DEF Commit
  <1>2. /\ pc'[w] = "idle" /\ holds'[w] = {}
        /\ \A v \in Workers \ {w} : /\ pc'[v] = pc[v] /\ holds'[v] = holds[v]
                                    /\ row'[v] = row[v] /\ due'[v] = due[v]
                                    /\ seen'[v] = seen[v] /\ job'[v] = job[v]
                                    /\ line'[v] = line[v]
    BY DEF Commit, Finish, TypeInv, TypeOK, LocalsOK
  <1>3. LocksOK'
    BY <1>2 DEF StockInv, LocksOK
  <1>4. ReadsFresh'
    <2> SUFFICES ASSUME NEW v \in Workers, pc'[v] = "write", CurrentSku(v)' \notin contended'
                 PROVE  seen'[v] = Visible(v, CurrentSku(v))'
      BY DEF ReadsFresh
    <2> DEFINE s == CurrentSku(v)
    <2>1. v # w /\ pc[v] = "write" /\ CurrentSku(v)' = s
      BY <1>2 DEF CurrentSku, CurrentLine
    <2>2. s \in Skus /\ s \notin contended
      BY <1>1, <2>1, CurrentLineType
    <2>3. s \notin holds[w]
      BY <1>1, <2>1 DEF StaleReads
    <2>4. seen[v] = Visible(v, s)
      BY <2>1, <2>2 DEF StockInv, ReadsFresh
    <2>5. stock'[s] = stock[s]
      BY <1>1, <2>2, <2>3
    <2>6. QED
      BY <1>2, <2>1, <2>4, <2>5 DEF Visible
  <1>5. WritesDue'
    BY <1>1, <1>2 DEF StockInv, WritesDue
  <1>6. DriftNeedsContention'
    BY <1>1 DEF StockInv, DriftNeedsContention, WritesDue
  <1>7. QED
    BY <1>3, <1>4, <1>5, <1>6 DEF StockInv

\* No SKU is locked, in hand or off its ledger at the start.
LEMMA StockInit == Init => StockInv
  BY DEF Init, StockInv, LocksOK, ReadsFresh, WritesDue, DriftNeedsContention

\* Every step keeps stock with the ledger on uncontended SKUs.
LEMMA StockNext == TypeInv /\ TypeInv' /\ StockInv /\ [Next]_vars => StockInv'
  <1> SUFFICES ASSUME TypeInv, TypeInv', StockInv, [Next]_vars PROVE StockInv'
    OBVIOUS
  <1>1. ASSUME NEW w \in Workers, NEW kind \in Kinds, NEW o \in Orders \cup {None},
               Receive(w, kind, o)
        PROVE  StockInv'
    <2>1. pc'[w] \in {"load", "commit", "read"}
      BY <1>1 DEF Receive, FirstStep, TypeInv, TypeOK, LocalsOK
    <2>2. QED
      BY <1>1, <2>1, QuietStock DEF Receive, txn, TypeInv, TypeOK, LocalsOK
  <1>2. ASSUME NEW w \in Workers, NameError(w) PROVE StockInv'
    BY <1>2, AbandonStock DEF NameError
  <1>3. ASSUME NEW w \in Workers, Load(w) PROVE StockInv'
    <2>1. CASE Finish(w)
      BY <1>3, <2>1, AbandonStock DEF Load
    <2>2. CASE ~Finish(w)
      BY <1>3, <2>2, QuietStock DEF Load, txn, TypeInv, TypeOK, LocalsOK
    <2>3. QED
      BY <2>1, <2>2
  <1>4. ASSUME NEW w \in Workers, SaveOrder(w) PROVE StockInv'
    BY <1>4, QuietStock DEF SaveOrder, TypeInv, TypeOK, LocalsOK
  <1>5. ASSUME NEW w \in Workers, Read(w) PROVE StockInv'
    BY <1>5, ReadStock
  <1>6. ASSUME NEW w \in Workers, Write(w) PROVE StockInv'
    BY <1>6, WriteStock
  <1>7. ASSUME NEW w \in Workers, Commit(w) PROVE StockInv'
    BY <1>7, CommitStock
  <1>8. ASSUME NEW w \in Workers, DeadlockAbort(w) PROVE StockInv'
    BY <1>8, AbandonStock DEF DeadlockAbort
  <1>9. ASSUME NEW w \in Workers, Fail(w) PROVE StockInv'
    BY <1>9, AbandonStock DEF Fail
  <1>10. CASE UNCHANGED vars
    BY <1>10 DEF vars, db, txn, history, StockInv, LocksOK, ReadsFresh, WritesDue,
                 DriftNeedsContention, CurrentSku, CurrentLine, Visible
  <1>11. QED
    BY <1>1, <1>2, <1>3, <1>4, <1>5, <1>6, <1>7, <1>8, <1>9, <1>10 DEF Next, Serve

\* Stock drifts from the ledger of committed requests only on a SKU that was
\* committed under another request's read (stock_quantity read, changed and
\* saved without a lock); whatever the number of workers, items and failures.
THEOREM NoDriftWithoutContention == Spec => []DriftNeedsContention
  <1>1. Spec => [](TypeInv /\ StockInv)
    <2>1. Init => TypeInv /\ StockInv
      BY TypeInit, StockInit
    <2>2. TypeInv /\ StockInv /\ [Next]_vars => (TypeInv /\ StockInv)'
      BY TypeNext, StockNext
    <2>3. QED
      BY <2>1, <2>2, PTL DEF Spec
  <1>2. TypeInv /\ StockInv => DriftNeedsContention
    BY DEF StockInv
  <1>3. QED
    BY <1>1, <1>2, PTL

\* With one worker the stock is always what the committed requests amount to:
\* the handlers are right one at a time, and only their interleaving loses updates.
THEOREM OneWorkerKeepsStock ==
  ASSUME \A v, w \in Workers : v = w
  PROVE  Spec => []StockMatchesLedger
  <1>1. Spec => [](TypeInv /\ StockInv /\ contended = {})
    <2>1. Init => TypeInv /\ StockInv /\ contended = {}
      BY TypeInit, StockInit DEF Init
    <2>2. ASSUME contended = {}, [Next]_vars PROVE contended' = {}
      <3>1. ASSUME NEW w \in Workers PROVE StaleReads(w) = {}
        BY DEF StaleReads
      <3>2. QED
        BY <2>2, <3>1, ZenonT(30) DEF Next, Serve, Receive, NameError, Load, SaveOrder, Read, Write,
                       Commit, DeadlockAbort, Fail, vars, history
    <2>3. TypeInv /\ StockInv /\ contended = {} /\ [Next]_vars
            => (TypeInv /\ StockInv /\ contended = {})'
      BY <2>2, TypeNext, StockNext
    <2>4. QED
      BY <2>1, <2>3, PTL DEF Spec
  <1>2. TypeInv /\ StockInv /\ contended = {} => StockMatchesLedger
    BY DEF TypeInv, TypeOK, TablesOK, StockInv, DriftNeedsContention, StockMatchesLedger
  <1>3. QED
    BY <1>1, <1>2, PTL

-----------------------------------------------------------------------------
(***************************************************************************)
(* The order row and its logs.                                              *)
(***************************************************************************)
Creates(w) == pc[w] # "idle" /\ job[w].kind \in {"create", "quick_order"}
Changes(w) == pc[w] # "idle" /\ job[w].kind \in OrderKinds

\* A new order is seen by its creator only, a changed one exists.
OwnersOK ==
  /\ \A w \in Workers : Creates(w) =>
       /\ job[w].order \in Orders
       /\ orders[job[w].order].status = "absent"
       /\ \A v \in Workers \ {w} : pc[v] # "idle" => job[v].order # job[w].order
  /\ \A w \in Workers : Changes(w) =>
       job[w].order \in Orders /\ orders[job[w].order].status # "absent"

\* An order row has an uncommitted save of one transaction at most.
OrderLocksOK ==
  /\ \A w \in Workers : Changes(w) /\ pc[w] \notin {"load", "save"} => savedOrder[w]
  /\ \A w \in Workers : savedOrder[w] => Changes(w) /\ pc[w] \notin {"load", "save"}
  /\ \A v, w \in Workers : savedOrder[v] /\ savedOrder[w] /\ job[v].order = job[w].order
                              => v = w

\* A status read is still the order's status, and one cancel accepts or the one an
\* edit of other columns writes back.
StatusFresh ==
  \A w \in Workers : Changes(w) /\ pc[w] # "load" =>
    /\ job[w].order \notin raced => oldStatus[w] = orders[job[w].order].status
    /\ job[w].kind = "cancel" => oldStatus[w] \in Cancellable
    /\ job[w].kind = "edit_order" => job[w].status = oldStatus[w]

\* The status a request is to leave.
TargetsOK ==
  \A w \in Workers : pc[w] # "idle" =>
    /\ job[w].kind \in Offered
    /\ job[w].kind = "cancel" => job[w].status = "cancelled"
    /\ job[w].kind = "notice" => job[w].status = "paid"
    /\ Creates(w) => job[w].status \in {"pending", "paid"}

AbsentOK ==
  \A o \in Orders : orders[o].status = "absent" =>
    trail[o] = <<>> /\ unlogged[o] = <<>> /\ orders[o].restocked = 0

OrderInv ==
  /\ OwnersOK
  /\ OrderLocksOK
  /\ StatusFresh
  /\ TargetsOK
  /\ AbsentOK
  /\ TrailIsChain
  /\ CancelRestocksOnce

\* What a step of w leaves of the other workers.
OthersKept(w) ==
  \A v \in Workers \ {w} : /\ pc'[v] = pc[v] /\ job'[v] = job[v]
                           /\ oldStatus'[v] = oldStatus[v] /\ savedOrder'[v] = savedOrder[v]

\* No order exists at the start.
LEMMA OrderInit == Init => OrderInv
  <1>1. Init => CancelRestocksOnce
    <2> SUFFICES ASSUME Init, NEW o \in Orders
                 PROVE  /\ Cardinality(Reopenings(trail[o])) = 0
                        /\ Cardinality(Reopenings(unlogged[o])) = 0
                        /\ orders[o].restocked = 0 /\ orders[o].status = "absent"
      BY DEF CancelRestocksOnce
    <2>1. trail[o] = <<>> /\ unlogged[o] = <<>> /\ Reopenings(<<>>) = {}
      BY DEF Init, Reopenings
    <2> QED
      BY <2>1, FS_EmptySet DEF Init
  <1>2. Init => TrailIsChain
    <2> SUFFICES ASSUME Init, NEW o \in Orders PROVE Cardinality(Gaps(o)) <= Len(unlogged[o])
      BY DEF TrailIsChain
    <2>1. Gaps(o) = {} /\ Len(unlogged[o]) = 0
      BY DEF Init, Gaps
    <2> QED
      BY <2>1, FS_EmptySet
  <1> QED
  BY <1>1, <1>2
     DEF Init, OrderInv, OwnersOK, OrderLocksOK, StatusFresh, TargetsOK, AbsentOK,
         Creates, Changes

\* The end of one request takes nothing from the orders of the others.
LEMMA FinishKeepsOthers ==
  ASSUME TypeInv, NEW w \in Workers, Finish(w)
  PROVE  OthersKept(w) /\ pc'[w] = "idle" /\ ~savedOrder'[w]
  BY DEF Finish, OthersKept, TypeInv, TypeOK, LocalsOK

\* A step that leaves the tables alone keeps what is said of the tables.
LEMMA OrderTablesKept ==
  ASSUME OrderInv, UNCHANGED <<db, history>>
  PROVE  AbsentOK' /\ TrailIsChain' /\ CancelRestocksOnce'
  <1>1. /\ orders' = orders /\ trail' = trail /\ raced' = raced /\ marked' = marked
        /\ unlogged' = unlogged
    BY DEF db, history
  <1>2. \A o : Gaps(o)' = Gaps(o)
    BY <1>1 DEF Gaps
  <1> QED
    BY <1>1, <1>2 DEF OrderInv, AbsentOK, TrailIsChain, CancelRestocksOnce

\* A request that ends without a commit takes nothing with it.
LEMMA AbandonOrder ==
  ASSUME TypeInv, OrderInv, NEW w \in Workers, Finish(w), UNCHANGED <<db, history>>
  PROVE  OrderInv'
  <1>1. OthersKept(w) /\ pc'[w] = "idle" /\ ~savedOrder'[w]
    BY FinishKeepsOthers
  <1>2. orders' = orders /\ raced' = raced
    BY DEF db, history
  <1>3. \A v \in Workers : /\ Creates(v)' => v # w /\ Creates(v)
                           /\ Changes(v)' => v # w /\ Changes(v)
    BY <1>1 DEF OthersKept, Creates, Changes
  <1>4. OwnersOK'
    BY <1>1, <1>2, <1>3 DEF OthersKept, OrderInv, OwnersOK
  <1>5. OrderLocksOK'
    BY <1>1, <1>3 DEF OthersKept, OrderInv, OrderLocksOK, Changes
  <1>6. StatusFresh'
    BY <1>1, <1>2, <1>3 DEF OthersKept, OrderInv, StatusFresh
  <1>7. TargetsOK'
    BY <1>1, <1>3 DEF OthersKept, OrderInv, TargetsOK
  <1>8. QED
    BY <1>4, <1>5, <1>6, <1>7, OrderTablesKept DEF OrderInv

\* A step that moves one handler on, its request, its read of the order and its
\* lock of the order unchanged.
LEMMA MoveOnOrder ==
  ASSUME TypeInv, OrderInv, NEW w \in Workers, UNCHANGED <<db, history, job, oldStatus, savedOrder>>,
         pc[w] \notin {"idle", "load", "save"}, pc'[w] \notin {"idle", "load", "save"},
         OthersKept(w)
  PROVE  OrderInv'
  <1>1. orders' = orders /\ raced' = raced
    BY DEF db, history
  <1>2. \A v \in Workers : /\ pc'[v] = "idle" <=> pc[v] = "idle"
                           /\ Creates(v)' <=> Creates(v)
                           /\ Changes(v)' <=> Changes(v)
                           /\ pc'[v] \in {"load", "save"} <=> pc[v] \in {"load", "save"}
                           /\ pc'[v] = "load" <=> pc[v] = "load"
    BY DEF OthersKept, Creates, Changes
  <1>3. OwnersOK'
    BY <1>1, <1>2 DEF OrderInv, OwnersOK
  <1>4. OrderLocksOK'
    BY <1>2 DEF OrderInv, OrderLocksOK
  <1>5. StatusFresh' /\ TargetsOK'
    BY <1>1, <1>2 DEF OrderInv, StatusFresh, TargetsOK
  <1>6. QED
    BY <1>3, <1>4, <1>5, OrderTablesKept DEF OrderInv

\* A request that is taken creates a fresh order or names one that exists.
LEMMA ReceiveOrder ==
  ASSUME TypeInv, TypeInv', OrderInv, NEW w \in Workers, NEW kind \in Kinds,
         NEW o \in Orders \cup {None}, Receive(w, kind, o)
  PROVE  OrderInv'
  <1>1. PICK lines \in RequestLines(kind),
             status \in RequestStatuses(kind) :
          /\ job' = [job EXCEPT ![w] = [kind |-> kind, order |-> o,
                                        lines |-> lines, status |-> status]]
          /\ pc' = [pc EXCEPT ![w] = FirstStep(kind, lines)]
    BY DEF Receive
  <1>2. /\ kind = "cancel" => status = "cancelled"
        /\ kind = "notice" => status = "paid"
        /\ kind \in {"create", "quick_order"} => status \in {"pending", "paid"}
    BY <1>1 DEF RequestStatuses
  <1>3. /\ job'[w].kind = kind /\ job'[w].order = o /\ job'[w].status = status
        /\ pc'[w] = FirstStep(kind, lines)
        /\ pc'[w] \in {"load", "read", "commit"}
        /\ kind \in OrderKinds => pc'[w] = "load"
    BY <1>1 DEF FirstStep, TypeInv, TypeOK, LocalsOK
  <1>4. /\ pc[w] = "idle" /\ kind \in Offered
        /\ orders' = orders /\ raced' = raced
        /\ oldStatus' = oldStatus /\ savedOrder' = savedOrder
        /\ \A v \in Workers \ {w} : pc'[v] = pc[v] /\ job'[v] = job[v]
    BY <1>1 DEF Receive, db, history, txn, TypeInv, TypeOK, LocalsOK
  <1>5. kind \in {"create", "quick_order"} => FreshOrder(o)
    BY DEF Receive
  <1>6. kind \in OrderKinds => o \in Orders /\ orders[o].status # "absent"
    BY DEF Receive, OrderKinds
  <1>7. o # None => kind \in OrderKinds \cup {"create", "quick_order"}
    BY DEF Receive
  <1>8. \A v \in Workers \ {w} : /\ Creates(v)' <=> Creates(v)
                                 /\ Changes(v)' <=> Changes(v)
    BY <1>4 DEF Creates, Changes
  <1>9. Creates(w)' => FreshOrder(o) /\ o \in Orders
    BY <1>3, <1>5 DEF Creates, FreshOrder
  <1>10. Changes(w)' => pc'[w] = "load" /\ o \in Orders /\ orders[o].status # "absent"
    BY <1>3, <1>6 DEF Changes
  <1>11. OwnersOK'
    <2>1. ASSUME NEW v \in Workers, Creates(v)'
          PROVE  /\ job'[v].order \in Orders
                 /\ orders'[job'[v].order].status = "absent"
                 /\ \A u \in Workers \ {v} : pc'[u] # "idle" => job'[u].order # job'[v].order
      <3>1. CASE v = w
        BY <1>3, <1>4, <1>9, <2>1, <3>1 DEF FreshOrder
      <3>2. CASE v # w
        <4>1. /\ job[v].order \in Orders
              /\ orders[job[v].order].status = "absent"
              /\ \A u \in Workers \ {v} : pc[u] # "idle" => job[u].order # job[v].order
              /\ pc[v] # "idle"
          BY <1>8, <2>1, <3>2 DEF OrderInv, OwnersOK, Creates
        <4>2. job[v].order # o
          <5>1. CASE o = None
            BY <4>1, <5>1, NoneAssumption
          <5>2. CASE kind \in OrderKinds
            BY <1>6, <4>1, <5>2
          <5>3. CASE kind \in {"create", "quick_order"}
            BY <1>5, <4>1, <5>3 DEF FreshOrder
          <5>4. QED
            BY <1>7, <5>1, <5>2, <5>3
        <4>3. QED
          BY <1>3, <1>4, <3>2, <4>1, <4>2
      <3>3. QED
        BY <3>1, <3>2
    <2>2. ASSUME NEW v \in Workers, Changes(v)'
          PROVE  job'[v].order \in Orders /\ orders'[job'[v].order].status # "absent"
      BY <1>3, <1>4, <1>8, <1>10, <2>2 DEF OrderInv, OwnersOK
    <2>3. QED
      BY <2>1, <2>2 DEF OwnersOK
  <1>12. OrderLocksOK'
    <2>1. ~savedOrder[w]
      BY <1>4 DEF OrderInv, OrderLocksOK, Changes
    <2>2. QED
      BY <1>4, <1>8, <1>10, <2>1 DEF OrderInv, OrderLocksOK
  <1>13. StatusFresh'
    BY <1>4, <1>8, <1>10 DEF OrderInv, StatusFresh
  <1>14. TargetsOK'
    BY <1>2, <1>3, <1>4, <1>8 DEF OrderInv, TargetsOK, Creates
  <1>15. AbsentOK' /\ TrailIsChain' /\ CancelRestocksOnce'
    BY OrderTablesKept DEF Receive
  <1>16. QED
    BY <1>11, <1>12, <1>13, <1>14, <1>15 DEF OrderInv

\* get_object puts the committed status in hand.
LEMMA LoadOrder ==
  ASSUME TypeInv, OrderInv, NEW w \in Workers, Load(w), ~Finish(w)
  PROVE  OrderInv'
  <1> DEFINE o == job[w].order
  <1>1. /\ pc[w] = "load"
        /\ job[w].kind = "cancel" => orders[o].status \in Cancellable
        /\ oldStatus' = [oldStatus EXCEPT ![w] = orders[o].status]
        /\ job' = [job EXCEPT
                     ![w].lines = IF job[w].kind = "cancel" THEN orders[o].lines ELSE <<>>,
                     ![w].status = IF job[w].kind = "edit_order" THEN orders[o].status ELSE @]
        /\ pc' = [pc EXCEPT ![w] = "save"]
        /\ orders' = orders /\ raced' = raced /\ savedOrder' = savedOrder
    BY DEF Load, db, history, txn
  <1>2. /\ job[w] \in Job
        /\ job'[w].kind = job[w].kind /\ job'[w].order = o
        /\ job'[w].status = IF job[w].kind = "edit_order" THEN orders[o].status
                                                         ELSE job[w].status
        /\ pc'[w] = "save" /\ oldStatus'[w] = orders[o].status
        /\ \A v \in Workers \ {w} : /\ pc'[v] = pc[v] /\ job'[v] = job[v]
                                    /\ oldStatus'[v] = oldStatus[v]
    BY <1>1 DEF TypeInv, TypeOK, LocalsOK, HandlerOK, Job
  <1>3. \A v \in Workers : /\ Creates(v)' <=> Creates(v)
                           /\ Changes(v)' <=> Changes(v)
                           /\ job'[v].order = job[v].order
                           /\ job'[v].kind = job[v].kind
                           /\ job[v].kind # "edit_order" => job'[v].status = job[v].status
                           /\ pc'[v] = "idle" <=> pc[v] = "idle"
    BY <1>1, <1>2 DEF Creates, Changes
  <1>3a. orders' = orders /\ raced' = raced /\ savedOrder' = savedOrder /\ pc[w] = "load"
    BY <1>1
  <1>4. OwnersOK'
    BY <1>3, <1>3a DEF OrderInv, OwnersOK
  <1>5. OrderLocksOK'
    BY <1>2, <1>3, <1>3a DEF OrderInv, OrderLocksOK
  <1>6. StatusFresh'
    <2> SUFFICES ASSUME NEW v \in Workers, Changes(v)', pc'[v] # "load"
                 PROVE  /\ job'[v].order \notin raced' =>
                             oldStatus'[v] = orders'[job'[v].order].status
                        /\ job'[v].kind = "cancel" => oldStatus'[v] \in Cancellable
                        /\ job'[v].kind = "edit_order" => job'[v].status = oldStatus'[v]
      BY DEF StatusFresh
    <2>1. CASE v = w
      BY <1>1, <1>2, <2>1
    <2>2. CASE v # w
      BY <1>2, <1>3, <1>3a, <2>2 DEF OrderInv, StatusFresh
    <2>3. QED
      BY <2>1, <2>2
  <1>7. TargetsOK'
    BY <1>3 DEF OrderInv, TargetsOK, Creates
  <1>8. AbsentOK' /\ TrailIsChain' /\ CancelRestocksOnce'
    BY OrderTablesKept DEF Load
  <1>9. QED
    BY <1>4, <1>5, <1>6, <1>7, <1>8 DEF OrderInv

\* The lock of an order is taken by one transaction at a time.
LEMMA SaveOrderOrder ==
  ASSUME TypeInv, OrderInv, NEW w \in Workers, SaveOrder(w)
  PROVE  OrderInv'
  <1>1. /\ pc[w] = "save"
        /\ \A v \in Workers \ {w} : savedOrder[v] => job[v].order # job[w].order
        /\ savedOrder' = [savedOrder EXCEPT ![w] = TRUE]
        /\ job' = job /\ oldStatus' = oldStatus /\ orders' = orders /\ raced' = raced
    BY DEF SaveOrder, OrderHolders, db, history
  <1>2. /\ pc'[w] \in {"commit", "read"} /\ savedOrder'[w]
        /\ \A v \in Workers \ {w} : pc'[v] = pc[v] /\ savedOrder'[v] = savedOrder[v]
        /\ Changes(w)
    BY <1>1 DEF SaveOrder, TypeInv, TypeOK, LocalsOK, HandlerOK, Changes
  <1>3. \A v \in Workers : /\ Creates(v)' <=> Creates(v)
                           /\ Changes(v)' <=> Changes(v)
                           /\ pc'[v] = "idle" <=> pc[v] = "idle"
                           /\ pc'[v] = "load" <=> pc[v] = "load"
    BY <1>1, <1>2 DEF Creates, Changes
  <1>4. OwnersOK'
    BY <1>1, <1>3 DEF OrderInv, OwnersOK
  <1>5. OrderLocksOK'
    BY <1>1, <1>2, <1>3 DEF OrderInv, OrderLocksOK
  <1>6. StatusFresh' /\ TargetsOK'
    BY <1>1, <1>3 DEF OrderInv, StatusFresh, TargetsOK
  <1>7. AbsentOK' /\ TrailIsChain' /\ CancelRestocksOnce'
    BY OrderTablesKept DEF SaveOrder
  <1>8. QED
    BY <1>4, <1>5, <1>6, <1>7 DEF OrderInv

\* How often, by what was logged, what was not and its status, an order was cancelled;
\* and that its items went back as often.
Cancels(o) ==
  Cardinality(Reopenings(trail[o])) + Cardinality(Reopenings(unlogged[o]))
    + (IF orders[o].status = "cancelled" THEN 1 ELSE 0)

RestockOK(o) ==
  /\ orders[o].restocked <= Cancels(o)
  /\ o \notin marked => orders[o].restocked = Cancels(o)

\* A row more is a reopening more, if it is one.
LEMMA ReopeningsGrow ==
  ASSUME NEW rows \in Seq(StatusLog), NEW e \in StatusLog
  PROVE  /\ Cardinality(Reopenings(rows)) \in Nat
         /\ Cardinality(Reopenings(rows \o <<e>>)) =
              IF e.old = "cancelled" /\ e.new # "cancelled"
              THEN Cardinality(Reopenings(rows)) + 1 ELSE Cardinality(Reopenings(rows))
  <1> DEFINE n == Len(rows)
             more == rows \o <<e>>
  <1>1. /\ n \in Nat /\ DOMAIN rows = 1..n /\ DOMAIN more = 1..(n + 1)
        /\ \A i \in 1..n : more[i] = rows[i]
        /\ more[n + 1] = e
    OBVIOUS
  <1> HIDE DEF more
  <1>2. Reopenings(rows) \subseteq 1..n /\ n + 1 \notin Reopenings(rows)
    BY <1>1 DEF Reopenings
  <1>3. IsFiniteSet(Reopenings(rows))
    <2>1. IsFiniteSet(1..n)
      BY <1>1, FS_Interval
    <2> QED
      BY <1>2, <2>1, FS_Subset
  <1>4. Reopenings(more) = IF e.old = "cancelled" /\ e.new # "cancelled"
                           THEN Reopenings(rows) \cup {n + 1} ELSE Reopenings(rows)
    BY <1>1 DEF Reopenings
  <1>5. /\ Cardinality(Reopenings(rows)) \in Nat
        /\ Cardinality(Reopenings(more)) =
             IF e.old = "cancelled" /\ e.new # "cancelled"
             THEN Cardinality(Reopenings(rows)) + 1 ELSE Cardinality(Reopenings(rows))
    BY <1>2, <1>3, <1>4, FS_CardinalityType, FS_AddElement
  <1> QED
    BY <1>5 DEF more

\* A row that starts from the status there is and ends in the new one opens no gap.
LEMMA GapsLogged ==
  ASSUME NEW o \in Orders, NEW e \in StatusLog, trail[o] \in Seq(StatusLog),
         trail'[o] = trail[o] \o <<e>>, e.old = orders[o].status, e.new = orders'[o].status
  PROVE  Gaps(o)' = Gaps(o)
  <1> DEFINE n == Len(trail[o])
  <1>1. /\ n \in Nat /\ Len(trail'[o]) = n + 1
        /\ \A i \in 1..n : trail'[o][i] = trail[o][i]
        /\ trail'[o][n + 1] = e
    OBVIOUS
  <1>2. Gaps(o)' = {i \in 1..(n + 1) :
                      trail'[o][i].new # IF i = n + 1 THEN orders'[o].status
                                                      ELSE trail'[o][i + 1].old}
    BY <1>1 DEF Gaps
  <1>3. n + 1 \notin Gaps(o)'
    BY <1>1, <1>2
  <1>4. ASSUME NEW i \in 1..n PROVE i \in Gaps(o)' <=> i \in Gaps(o)
    <2>1. i # n + 1 /\ i \in 1..(n + 1) /\ trail'[o][i] = trail[o][i]
      BY <1>1
    <2>2. trail'[o][i + 1].old = IF i = n THEN orders[o].status ELSE trail[o][i + 1].old
      <3>1. CASE i = n
        BY <1>1, <3>1
      <3>2. CASE i # n
        <4>1. i + 1 \in 1..n
          BY <1>1, <3>2
        <4> QED
          BY <1>1, <3>2, <4>1
      <3> QED
        BY <3>1, <3>2
    <2> QED
      BY <1>2, <2>1, <2>2 DEF Gaps
  <1>5. Gaps(o)' \subseteq 1..(n + 1) /\ Gaps(o) \subseteq 1..n
    BY <1>2 DEF Gaps
  <1>6. 1..(n + 1) = (1..n) \cup {n + 1}
    BY <1>1
  <1> QED
    BY <1>3, <1>4, <1>5, <1>6

\* A change without a row opens one at most, behind the last row.
LEMMA GapsSilent ==
  ASSUME NEW o \in Orders, trail[o] \in Seq(StatusLog), trail'[o] = trail[o]
  PROVE  /\ Cardinality(Gaps(o)) \in Nat
         /\ Cardinality(Gaps(o)') \in Nat
         /\ Cardinality(Gaps(o)') <= Cardinality(Gaps(o)) + 1
         /\ orders'[o].status = orders[o].status => Gaps(o)' = Gaps(o)
  <1> DEFINE n == Len(trail[o])
  <1>1. n \in Nat /\ Gaps(o) \subseteq 1..n
    BY DEF Gaps
  <1>3. Gaps(o)' \subseteq Gaps(o) \cup {n}
    BY DEF Gaps
  <1>7. orders'[o].status = orders[o].status => Gaps(o)' = Gaps(o)
    BY DEF Gaps
  <1> HIDE DEF n
  <1>2. IsFiniteSet(Gaps(o))
    <2>1. IsFiniteSet(1..n)
      BY <1>1, FS_Interval
    <2> QED
      BY <1>1, <2>1, FS_Subset
  <1>4. IsFiniteSet(Gaps(o) \cup {n}) /\ Cardinality(Gaps(o)) \in Nat
        /\ Cardinality(Gaps(o) \cup {n}) <= Cardinality(Gaps(o)) + 1
    <2>1. Cardinality(Gaps(o)) \in Nat
      BY <1>2, FS_CardinalityType
    <2>2. /\ IsFiniteSet(Gaps(o) \cup {n})
          /\ Cardinality(Gaps(o) \cup {n}) = IF n \in Gaps(o) THEN Cardinality(Gaps(o))
                                              ELSE Cardinality(Gaps(o)) + 1
      BY <1>2, FS_AddElement
    <2> QED
      BY <2>1, <2>2
  <1>5. IsFiniteSet(Gaps(o)') /\ Cardinality(Gaps(o)') <= Cardinality(Gaps(o) \cup {n})
    BY <1>3, <1>4, FS_Subset
  <1>6. /\ Cardinality(Gaps(o)') \in Nat /\ Cardinality(Gaps(o) \cup {n}) \in Nat
    BY <1>4, <1>5, FS_CardinalityType
  <1> QED
    BY <1>4, <1>5, <1>6, <1>7

\* The rows a commit adds to the log of its order, and to what the log leaves out:
\* one to one of the two, if it changes the status, from the status it has read.
LEMMA CommitRow ==
  ASSUME TypeInv, OrderInv, NEW w \in Workers, Commit(w), Changes(w), NEW x \in Orders,
         x = job[w].order, x \notin raced, NEW e,
         e = [old |-> orders[x].status, new |-> job[w].status]
  PROVE  /\ e \in StatusLog
         /\ job[w].kind \in {"cancel", "update_status"} =>
              trail'[x] = trail[x] \o <<e>> /\ unlogged'[x] = unlogged[x]
         /\ job[w].kind \in SilentKinds /\ e.old # e.new =>
              trail'[x] = trail[x] /\ unlogged'[x] = unlogged[x] \o <<e>>
         /\ job[w].kind \notin {"cancel", "update_status"} /\ e.old = e.new =>
              trail'[x] = trail[x] /\ unlogged'[x] = unlogged[x]
         /\ job[w].kind = "edit_order" => e.old = e.new
  <1>1. x \in Orders /\ orders[x].status = oldStatus[w] /\ pc[w] = "commit"
        /\ (job[w].kind = "edit_order" => job[w].status = oldStatus[w])
    BY DEF Commit, OrderInv, OwnersOK, StatusFresh
  <1>2. e \in StatusLog
    BY <1>1, JobFields DEF TypeInv, TypeOK, LocalsOK, HandlerOK, StatusLog
  <1>3. /\ e.old = oldStatus[w] /\ e.new = job[w].status
        /\ e = [old |-> oldStatus[w], new |-> job[w].status]
    BY <1>1
  <1>4. trail[x] \in Seq(StatusLog) /\ unlogged[x] \in Seq(StatusLog)
    BY <1>1 DEF TypeInv, TypeOK, TablesOK
  <1>5. PICK logs \in StatusLogs(w) : trail'[x] = trail[x] \o logs
    BY <1>1 DEF Commit
  <1>6. unlogged'[x] = unlogged[x] \o Unlogged(w)
    BY <1>1 DEF Commit
  <1>7. trail[x] \o <<>> = trail[x] /\ unlogged[x] \o <<>> = unlogged[x]
    BY <1>4
  <1>8. CASE job[w].kind \in {"cancel", "update_status"}
    <2>1. logs = <<e>>
      BY <1>3, <1>8 DEF StatusLogs
    <2>2. Unlogged(w) = <<>>
      BY <1>8 DEF Unlogged, SilentKinds
    <2> QED
      BY <1>2, <1>5, <1>6, <1>7, <1>8, <2>1, <2>2 DEF SilentKinds
  <1>9. CASE job[w].kind \in {"notice", "edit_status", "edit_order"}
    <2>1. logs = <<>>
      BY <1>5, <1>9 DEF StatusLogs
    <2>2. Unlogged(w) = IF job[w].kind \in SilentKinds /\ e.old # e.new THEN <<e>> ELSE <<>>
      BY <1>3 DEF Unlogged
    <2> QED
      BY <1>1, <1>2, <1>3, <1>5, <1>6, <1>7, <1>9, <2>1, <2>2
  <1> QED
    BY <1>8, <1>9 DEF Changes, OrderKinds

\* A commit extends the log of its order from the status it had, or marks it raced.
LEMMA CommitOrder ==
  ASSUME TypeInv, TypeInv', OrderInv, NEW w \in Workers, Commit(w)
  PROVE  OrderInv'
  <1> DEFINE o == job[w].order
             new == CommittedOrder(w)
  <1>1. PICK logs \in StatusLogs(w) :
          trail' = [x \in Orders |-> IF x = o THEN trail[x] \o logs ELSE trail[x]]
    BY DEF Commit
  <1>2. /\ pc[w] = "commit"
        /\ orders' = [x \in Orders |-> IF x = o THEN new ELSE orders[x]]
        /\ raced' = raced \cup StaleOrders(w)
        /\ Finish(w)
    BY DEF Commit
  <1>3. OthersKept(w) /\ pc'[w] = "idle" /\ ~savedOrder'[w]
    BY <1>2, FinishKeepsOthers
  <1>4. \A v \in Workers : /\ Creates(v)' => v # w /\ Creates(v)
                           /\ Changes(v)' => v # w /\ Changes(v)
    BY <1>3 DEF OthersKept, Creates, Changes
  <1>5. job[w] \in Job /\ (o \in Orders => Creates(w) \/ Changes(w))
    BY <1>2, NoneAssumption DEF TypeInv, HandlerOK, Creates, Changes
  <1>6. o \in Orders => new \in Order /\ new.status # "absent" /\ new.status = job[w].status
    <2>1. ASSUME o \in Orders PROVE new \in Order /\ new.status # "absent"
      BY <1>2, <1>5, <2>1, CommittedOrderType DEF Creates, Changes
    <2>2. ASSUME o \in Orders PROVE new.status = job[w].status
      <3>1. orders[o] \in Order
        BY <2>2 DEF TypeInv, TypeOK, TablesOK
      <3>2. CASE job[w].kind \in {"create", "quick_order"}
        BY <3>2 DEF CommittedOrder
      <3>3. CASE job[w].kind = "cancel"
        BY <3>1, <3>3 DEF CommittedOrder, Order
      <3>4. CASE job[w].kind \in OrderKinds \ {"cancel"}
        BY <3>1, <3>4 DEF CommittedOrder, Order, OrderKinds
      <3>5. QED
        BY <1>5, <2>2, <3>2, <3>3, <3>4 DEF Creates, Changes, OrderKinds
    <2>3. QED
      BY <2>1, <2>2
  <1>7. \A x \in Orders : orders[x].status # "absent" => orders'[x].status # "absent"
    BY <1>2, <1>6
  <1>8. OwnersOK'
    <2>1. ASSUME NEW v \in Workers, Creates(v)'
          PROVE  /\ job'[v].order \in Orders
                 /\ orders'[job'[v].order].status = "absent"
                 /\ \A u \in Workers \ {v} : pc'[u] # "idle" => job'[u].order # job'[v].order
      <3>1. v # w /\ Creates(v) /\ job'[v] = job[v]
        BY <1>3, <1>4, <2>1 DEF OthersKept
      <3>2. /\ job[v].order \in Orders
            /\ orders[job[v].order].status = "absent"
            /\ \A u \in Workers \ {v} : pc[u] # "idle" => job[u].order # job[v].order
        BY <3>1 DEF OrderInv, OwnersOK
      <3>3. job[v].order # o
        BY <1>2, <3>1, <3>2
      <3>4. QED
        BY <1>2, <1>3, <3>1, <3>2, <3>3 DEF OthersKept
    <2>2. ASSUME NEW v \in Workers, Changes(v)'
          PROVE  job'[v].order \in Orders /\ orders'[job'[v].order].status # "absent"
      BY <1>3, <1>4, <1>7, <2>2 DEF OthersKept, OrderInv, OwnersOK
    <2>3. QED
      BY <2>1, <2>2 DEF OwnersOK
  <1>9. OrderLocksOK'
    BY <1>3, <1>4 DEF OthersKept, OrderInv, OrderLocksOK, Changes
  <1>10. StatusFresh'
    <2> SUFFICES ASSUME NEW v \in Workers, Changes(v)', pc'[v] # "load"
                 PROVE  /\ job'[v].order \notin raced' =>
                             oldStatus'[v] = orders'[job'[v].order].status
                        /\ job'[v].kind = "cancel" => oldStatus'[v] \in Cancellable
                        /\ job'[v].kind = "edit_order" => job'[v].status = oldStatus'[v]
      BY DEF StatusFresh
    <2>1. /\ v # w /\ Changes(v) /\ job'[v] = job[v] /\ pc'[v] = pc[v]
          /\ oldStatus'[v] = oldStatus[v]
      BY <1>3, <1>4 DEF OthersKept
    <2>2. /\ job[v].order \notin raced => oldStatus[v] = orders[job[v].order].status
          /\ job[v].kind = "cancel" => oldStatus[v] \in Cancellable
          /\ job[v].kind = "edit_order" => job[v].status = oldStatus[v]
          /\ job[v].order \in Orders
      BY <2>1 DEF OrderInv, StatusFresh, OwnersOK
    <2>3. ASSUME job[v].order = o PROVE o \in raced'
      <3>1. o # None
        BY <2>2, <2>3, NoneAssumption
      <3>2. pc[v] = "save"
        <4>1. ~Creates(w)
          BY <2>1, <2>3 DEF OrderInv, OwnersOK, Changes
        <4>2. savedOrder[w]
          BY <1>2, <1>5, <2>2, <2>3, <4>1 DEF OrderInv, OrderLocksOK
        <4>3. ~savedOrder[v]
          BY <2>1, <2>3, <4>2 DEF OrderInv, OrderLocksOK
        <4>4. QED
          BY <2>1, <4>3 DEF OrderInv, OrderLocksOK
      <3>3. QED
        BY <1>2, <2>1, <2>3, <3>1, <3>2 DEF StaleOrders
    <2>4. CASE job[v].order = o
      BY <2>1, <2>2, <2>3, <2>4
    <2>5. CASE job[v].order # o
      BY <1>2, <2>1, <2>2, <2>5
    <2>6. QED
      BY <2>4, <2>5
  <1>11. TargetsOK'
    BY <1>3, <1>4 DEF OthersKept, OrderInv, TargetsOK
  <1>12. AbsentOK'
    <2>1. \A x \in Orders : x # o => unlogged'[x] = unlogged[x]
      BY DEF Commit
    <2> QED
      BY <1>1, <1>2, <1>6, <2>1 DEF OrderInv, AbsentOK
  <1>13. TrailIsChain'
    <2> SUFFICES ASSUME NEW x \in Orders, x \notin raced'
                 PROVE  Cardinality(Gaps(x)') <= Len(unlogged'[x])
      BY DEF TrailIsChain
    <2>1. /\ trail[x] \in Seq(StatusLog) /\ unlogged[x] \in Seq(StatusLog)
          /\ Cardinality(Gaps(x)) <= Len(unlogged[x])
          /\ x \notin raced
      BY <1>2 DEF TypeInv, TypeOK, TablesOK, OrderInv, TrailIsChain
    <2>2. CASE x # o
      <3>1. orders'[x] = orders[x] /\ trail'[x] = trail[x] /\ unlogged'[x] = unlogged[x]
        BY <1>1, <1>2, <2>2 DEF Commit
      <3>2. Gaps(x)' = Gaps(x)
        BY <3>1 DEF Gaps
      <3> QED
        BY <2>1, <3>1, <3>2
    <2>3. CASE x = o /\ Changes(w)
      <3> DEFINE e == [old |-> orders[x].status, new |-> job[w].status]
      <3>1. orders'[x].status = job[w].status
        BY <1>2, <1>6, <2>3
      <3>2. /\ e \in StatusLog
            /\ job[w].kind \in {"cancel", "update_status"} =>
                 trail'[x] = trail[x] \o <<e>> /\ unlogged'[x] = unlogged[x]
            /\ job[w].kind \in SilentKinds /\ e.old # e.new =>
                 trail'[x] = trail[x] /\ unlogged'[x] = unlogged[x] \o <<e>>
            /\ job[w].kind \notin {"cancel", "update_status"} /\ e.old = e.new =>
                 trail'[x] = trail[x] /\ unlogged'[x] = unlogged[x]
            /\ job[w].kind = "edit_order" => e.old = e.new
        <4>1. x = job[w].order /\ e = [old |-> orders[x].status, new |-> job[w].status]
          BY <2>3
        <4> HIDE DEF e
        <4> QED
          BY <2>1, <2>3, <4>1, CommitRow, ZenonT(60)
      <3>3. e.old = orders[x].status /\ e.new = orders'[x].status
        BY <3>1
      <3> HIDE DEF e
      <3>4. CASE job[w].kind \in {"cancel", "update_status"}
        <4>1. Gaps(x)' = Gaps(x)
          BY <2>1, <3>2, <3>3, <3>4, GapsLogged
        <4> QED
          BY <2>1, <3>2, <3>4, <4>1
      <3>5. CASE job[w].kind \in SilentKinds /\ e.old # e.new
        <4>1. /\ Cardinality(Gaps(x)) \in Nat /\ Cardinality(Gaps(x)') \in Nat
              /\ Cardinality(Gaps(x)') <= Cardinality(Gaps(x)) + 1
          BY <2>1, <3>2, <3>5, GapsSilent
        <4>2. Len(unlogged'[x]) = Len(unlogged[x]) + 1 /\ Len(unlogged[x]) \in Nat
          BY <2>1, <3>2, <3>5
        <4> QED
          BY <2>1, <4>1, <4>2
      <3>6. CASE job[w].kind \notin {"cancel", "update_status"} /\ e.old = e.new
        <4>1. Gaps(x)' = Gaps(x)
          BY <2>1, <3>2, <3>3, <3>6, GapsSilent
        <4> QED
          BY <2>1, <3>2, <3>6, <4>1
      <3> QED
        BY <2>3, <3>2, <3>4, <3>5, <3>6 DEF Changes, OrderKinds, SilentKinds
    <2>4. CASE x = o /\ Creates(w)
      <3>1. trail[x] = <<>>
        BY <2>4 DEF OrderInv, OwnersOK, AbsentOK
      <3>2. logs = <<>> \/ logs = << [old |-> "pending", new |-> job[w].status] >>
        BY <2>4 DEF StatusLogs, Creates
      <3>3. trail'[x] = logs /\ orders'[x].status = job[w].status
        BY <1>1, <1>2, <1>6, <2>1, <2>4, <3>1, <3>2
      <3>4. Gaps(x)' = {}
        BY <3>2, <3>3 DEF Gaps
      <3>5. Cardinality(Gaps(x)') = 0 /\ unlogged'[x] \in Seq(StatusLog)
        BY <3>4, FS_EmptySet DEF TypeInv, TypeOK, TablesOK
      <3> QED
        BY <3>5
    <2>5. QED
      BY <1>5, <2>2, <2>3, <2>4
  <1>14. CancelRestocksOnce'
    <2> SUFFICES ASSUME NEW x \in Orders, x \notin raced'
                 PROVE  RestockOK(x)'
      BY DEF CancelRestocksOnce, RestockOK, Cancels
    <2>1. /\ RestockOK(x) /\ trail[x] \in Seq(StatusLog) /\ unlogged[x] \in Seq(StatusLog)
          /\ orders[x] \in Order /\ x \notin raced
      BY <1>2 DEF OrderInv, CancelRestocksOnce, RestockOK, Cancels, TypeInv, TypeOK, TablesOK
    <2>2. CASE x # o
      <3>1. /\ orders'[x] = orders[x] /\ trail'[x] = trail[x] /\ unlogged'[x] = unlogged[x]
            /\ x \in marked => x \in marked'
        BY <1>1, <1>2, <2>2 DEF Commit
      <3> QED
        BY <2>1, <3>1 DEF RestockOK, Cancels
    <2>3. CASE x = o /\ Changes(w)
      <3> DEFINE r == Cardinality(Reopenings(trail[x]))
                 u == Cardinality(Reopenings(unlogged[x]))
                 e == [old |-> orders[x].status, new |-> job[w].status]
      <3>1. /\ orders'[x] = new /\ new.status = job[w].status /\ oldStatus[w] = orders[x].status
        BY <1>2, <1>6, <2>1, <2>3 DEF OrderInv, StatusFresh
      <3>2. /\ e \in StatusLog
            /\ job[w].kind \in {"cancel", "update_status"} =>
                 trail'[x] = trail[x] \o <<e>> /\ unlogged'[x] = unlogged[x]
            /\ job[w].kind \in SilentKinds /\ e.old # e.new =>
                 trail'[x] = trail[x] /\ unlogged'[x] = unlogged[x] \o <<e>>
            /\ job[w].kind \notin {"cancel", "update_status"} /\ e.old = e.new =>
                 trail'[x] = trail[x] /\ unlogged'[x] = unlogged[x]
            /\ job[w].kind = "edit_order" => e.old = e.new
        <4>1. x = job[w].order /\ e = [old |-> orders[x].status, new |-> job[w].status]
          BY <2>3
        <4> HIDE DEF e
        <4> QED
          BY <2>1, <2>3, <4>1, CommitRow, ZenonT(60)
      <3>2a. e.old = orders[x].status /\ e.new = job[w].status
        OBVIOUS
      <3> HIDE DEF e
      <3>3. /\ r \in Nat /\ u \in Nat
            /\ Cardinality(Reopenings(trail'[x])) + Cardinality(Reopenings(unlogged'[x])) =
                 IF e.old = "cancelled" /\ e.new # "cancelled" THEN r + u + 1 ELSE r + u
        <4> DEFINE t1 == Cardinality(Reopenings(trail'[x]))
                   u1 == Cardinality(Reopenings(unlogged'[x]))
        <4>1. /\ r \in Nat /\ u \in Nat
              /\ Cardinality(Reopenings(trail[x] \o <<e>>)) =
                   IF e.old = "cancelled" /\ e.new # "cancelled" THEN r + 1 ELSE r
              /\ Cardinality(Reopenings(unlogged[x] \o <<e>>)) =
                   IF e.old = "cancelled" /\ e.new # "cancelled" THEN u + 1 ELSE u
          BY <2>1, <3>2, ReopeningsGrow
        <4>2. CASE job[w].kind \in {"cancel", "update_status"}
          <5>1. trail'[x] = trail[x] \o <<e>> /\ unlogged'[x] = unlogged[x]
            BY <3>2, <4>2
          <5>2. u1 = u /\ t1 = IF e.old = "cancelled" /\ e.new # "cancelled" THEN r + 1 ELSE r
            BY <4>1, <5>1, Zenon
          <5> HIDE DEF t1, u1, r, u
          <5>3. t1 + u1 = IF e.old = "cancelled" /\ e.new # "cancelled" THEN r + u + 1 ELSE r + u
            BY <4>1, <5>2
          <5> QED
            BY <4>1, <5>3 DEF t1, u1
        <4>3. CASE job[w].kind \in SilentKinds /\ e.old # e.new
          <5>1. trail'[x] = trail[x] /\ unlogged'[x] = unlogged[x] \o <<e>>
            BY <3>2, <4>3
          <5>2. t1 = r /\ u1 = IF e.old = "cancelled" /\ e.new # "cancelled" THEN u + 1 ELSE u
            BY <4>1, <5>1, Zenon
          <5> HIDE DEF t1, u1, r, u
          <5>3. t1 + u1 = IF e.old = "cancelled" /\ e.new # "cancelled" THEN r + u + 1 ELSE r + u
            BY <4>1, <5>2
          <5> QED
            BY <4>1, <5>3 DEF t1, u1
        <4>4. CASE job[w].kind \notin {"cancel", "update_status"} /\ e.old = e.new
          BY <3>2, <4>1, <4>4
        <4> QED
          BY <2>3, <3>2, <4>2, <4>3, <4>4 DEF Changes, OrderKinds, SilentKinds
      <3> HIDE DEF r, u
      <3>4. CASE job[w].kind = "cancel"
        <4>1. job[w].status = "cancelled" /\ orders[x].status \in Cancellable
          BY <1>2, <2>3, <3>1, <3>4 DEF OrderInv, TargetsOK, StatusFresh
        <4>2. new.restocked = orders[x].restocked + 1 /\ orders[x].restocked \in Nat
          BY <2>1, <2>3, <3>4 DEF CommittedOrder, Order
        <4>3. x \in marked => x \in marked'
          BY DEF Commit
        <4>4. Cancels(x)' = Cancels(x) + 1 /\ Cancels(x) \in Nat
          BY <3>1, <3>2a, <3>3, <4>1 DEF Cancels, Cancellable, r, u
        <4> QED
          BY <2>1, <3>1, <4>2, <4>3, <4>4 DEF RestockOK
      <3>5. CASE job[w].kind \in OrderKinds \ {"cancel"}
        <4>1. new.restocked = orders[x].restocked /\ orders[x].restocked \in Nat
          BY <2>1, <2>3, <3>5 DEF CommittedOrder, Order, OrderKinds
        <4>2. ASSUME x \notin marked'
              PROVE  x \notin marked /\ (job[w].status # "cancelled" \/ orders[x].status = "cancelled")
          <5>1. marked' = marked \cup Marked(w) /\ o # None
            BY <2>3, NoneAssumption DEF Commit
          <5>2. CASE job[w].kind \in {"update_status", "edit_status"}
            BY <2>3, <3>1, <5>2, <4>2, <5>1 DEF Marked
          <5>3. CASE job[w].kind = "notice"
            BY <1>2, <2>3, <4>2, <5>1, <5>3 DEF OrderInv, TargetsOK
          <5>4. CASE job[w].kind = "edit_order"
            BY <3>2, <3>2a, <4>2, <5>1, <5>4
          <5> QED
            BY <3>5, <5>2, <5>3, <5>4 DEF OrderKinds
        <4>3. /\ Cancels(x) \in Nat /\ Cancels(x)' \in Nat /\ Cancels(x) <= Cancels(x)'
              /\ job[w].status # "cancelled" \/ orders[x].status = "cancelled"
                   => Cancels(x)' = Cancels(x)
          BY <3>1, <3>2a, <3>3 DEF Cancels, r, u
        <4>4. orders'[x].restocked = orders[x].restocked
          BY <3>1, <4>1
        <4>5. orders[x].restocked <= Cancels(x) /\ (x \notin marked => orders[x].restocked = Cancels(x))
          BY <2>1 DEF RestockOK
        <4>6. orders'[x].restocked <= Cancels(x)'
          BY <4>1, <4>3, <4>4, <4>5
        <4>7. x \notin marked' => orders'[x].restocked = Cancels(x)'
          <5> SUFFICES ASSUME x \notin marked' PROVE orders'[x].restocked = Cancels(x)'
            OBVIOUS
          <5>1. x \notin marked
            BY <4>2
          <5>2. job[w].status # "cancelled" \/ orders[x].status = "cancelled"
            BY <4>2
          <5>3. Cancels(x)' = Cancels(x)
            BY <4>3, <5>2
          <5> QED
            BY <4>4, <4>5, <5>1, <5>3
        <4> QED
          BY <4>6, <4>7 DEF RestockOK
      <3> QED
        BY <2>3, <3>4, <3>5 DEF Changes
    <2>4. CASE x = o /\ Creates(w)
      <3>1. orders'[x] = new /\ new.status = job[w].status /\ new.restocked = 0
            /\ job[w].status \in {"pending", "paid"}
        BY <1>2, <1>6, <2>4 DEF CommittedOrder, Creates, OrderInv, TargetsOK
      <3>2. trail[x] = <<>> /\ unlogged[x] = <<>>
        BY <2>4 DEF OrderInv, OwnersOK, AbsentOK
      <3>3. logs = <<>> \/ logs = << [old |-> "pending", new |-> job[w].status] >>
        BY <2>4 DEF StatusLogs, Creates
      <3>4. trail'[x] = logs
        BY <1>1, <2>1, <2>4, <3>2, <3>3
      <3>5. Unlogged(w) = <<>>
        BY <2>4 DEF Unlogged, Creates, SilentKinds
      <3>6. unlogged'[x] = <<>>
        BY <2>4, <3>2, <3>5 DEF Commit
      <3>7. Reopenings(trail'[x]) = {} /\ Reopenings(unlogged'[x]) = {}
        BY <3>3, <3>4, <3>6 DEF Reopenings
      <3>8. Cancels(x)' = 0
        BY <3>1, <3>7, FS_EmptySet DEF Cancels
      <3> QED
        BY <3>1, <3>8 DEF RestockOK
    <2> QED
      BY <1>5, <2>2, <2>3, <2>4
  <1>15. QED
    BY <1>8, <1>9, <1>10, <1>11, <1>12, <1>13, <1>14 DEF OrderInv

\* Every step keeps the order invariant.
LEMMA OrderNext == TypeInv /\ TypeInv' /\ OrderInv /\ [Next]_vars => OrderInv'
  <1> SUFFICES ASSUME TypeInv, TypeInv', OrderInv, [Next]_vars PROVE OrderInv'
    OBVIOUS
  <1>1. ASSUME NEW w \in Workers, NEW kind \in Kinds, NEW o \in Orders \cup {None},
               Receive(w, kind, o)
        PROVE  OrderInv'
    BY <1>1, ReceiveOrder
  <1>2. ASSUME NEW w \in Workers, NameError(w) PROVE OrderInv'
    BY <1>2, AbandonOrder DEF NameError
  <1>3. ASSUME NEW w \in Workers, Load(w) PROVE OrderInv'
    <2>1. CASE Finish(w)
      BY <1>3, <2>1, AbandonOrder DEF Load
    <2>2. CASE ~Finish(w)
      BY <1>3, <2>2, LoadOrder
    <2>3. QED
      BY <2>1, <2>2
  <1>4. ASSUME NEW w \in Workers, SaveOrder(w) PROVE OrderInv'
    BY <1>4, SaveOrderOrder
  <1>5. ASSUME NEW w \in Workers, Read(w) PROVE OrderInv'
    BY <1>5, MoveOnOrder DEF Read, txn, OthersKept, TypeInv, TypeOK, LocalsOK
  <1>6. ASSUME NEW w \in Workers, Write(w) PROVE OrderInv'
    BY <1>6, MoveOnOrder DEF Write, OthersKept, TypeInv, TypeOK, LocalsOK
  <1>7. ASSUME NEW w \in Workers, Commit(w) PROVE OrderInv'
    BY <1>7, CommitOrder
  <1>8. ASSUME NEW w \in Workers, DeadlockAbort(w) PROVE OrderInv'
    BY <1>8, AbandonOrder DEF DeadlockAbort
  <1>9. ASSUME NEW w \in Workers, Fail(w) PROVE OrderInv'
    BY <1>9, AbandonOrder DEF Fail
  <1>10. CASE UNCHANGED vars
    BY <1>10 DEF vars, db, txn, history, OrderInv, OwnersOK, OrderLocksOK, StatusFresh,
                 TargetsOK, AbsentOK, TrailIsChain, CancelRestocksOnce, Gaps,
                 Creates, Changes
  <1>11. QED
    BY <1>1, <1>2, <1>3, <1>4, <1>5, <1>6, <1>7, <1>8, <1>9, <1>10 DEF Next, Serve

\* The order invariant holds in every reachable state.
LEMMA OrderInvariant == Spec => [](TypeInv /\ OrderInv)
  <1>1. Init => TypeInv /\ OrderInv
    BY TypeInit, OrderInit
  <1>2. TypeInv /\ OrderInv /\ [Next]_vars => (TypeInv /\ OrderInv)'
    BY TypeNext, OrderNext
  <1>3. QED
    BY <1>1, <1>2, PTL DEF Spec

\* The status log of an order is a chain ending in its status, broken at most once per
\* change a payment notice or an edit made without a row, unless two requests about
\* the order overlapped (get_object before, save() after).
THEOREM TrailChained == Spec => []TrailIsChain
  <1>1. TypeInv /\ OrderInv => TrailIsChain
    BY DEF OrderInv
  <1>2. QED
    BY <1>1, OrderInvariant, PTL

\* Whatever statuses an order is given, a cancel puts its items back, and once for
\* every time it was open, which its log tells or an unlogged change of a payment
\* notice or an edit; unless a status change marked it as cancelled or two requests
\* about it overlapped (OrderViewSet.cancel and update_status, _process_payment_result).
THEOREM CancelledOnce == Spec => []CancelRestocksOnce
  <1>1. TypeInv /\ OrderInv => CancelRestocksOnce
    BY DEF OrderInv
  <1>2. QED
    BY <1>1, OrderInvariant, PTL
-----------------------------------------------------------------------------
(***************************************************************************)
(* What a handler has done so far                                           *)
(***************************************************************************)
\* The lines it has saved the SKUs of.
Done(w) == SubSeq(job[w].lines, 1, IF pc[w] = "commit" THEN Len(job[w].lines) ELSE line[w] - 1)

\* What a handler makes of a stock of x with lines about q of the SKU, if any names it.
Took(kind, x, q, named, y) ==
  CASE kind = "create"      -> y = x - q
    [] kind = "quick_order" -> y = IF named /\ x < q THEN 0 ELSE x - q
    [] kind = "cancel"      -> y = x + q
    [] OTHER                -> x >= 0 => y >= 0

\* One of the lines sets SKU s to x.
Sets(items, s, x) == \E i \in DOMAIN items : items[i] = [sku |-> s, qty |-> x]

\* The SKUs of those lines are the ones it holds; an uncontended one is as the lines,
\* one after the other, make it, and one set by hand as a line of them says.
EffectOK(w) ==
  pc[w] \in {"read", "write", "commit"} =>
    \A s \in Skus :
      /\ s \in holds[w] <=> Named(Done(w), s)
      /\ s \notin contended /\ job[w].kind \notin SetKinds =>
           Took(job[w].kind, stock[s], QuantityOf(Done(w), s), s \in holds[w], Visible(w, s))
      /\ s \in holds[w] /\ job[w].kind \in SetKinds => Sets(Done(w), s, row[w][s])

\* The status and the lines a request brings or finds.
JobOK(w) ==
  pc[w] # "idle" =>
    /\ job[w].kind = "create" => job[w].status = "pending"
    /\ job[w].kind = "quick_order" => job[w].status = "paid"
    /\ Creates(w) => job[w].lines \in BoundedSeq(Line, MaxLines)
    /\ job[w].kind \in OrderKinds \ {"cancel"} => job[w].lines = <<>>
    /\ job[w].kind = "cancel" /\ pc[w] # "load" => job[w].lines = orders[job[w].order].lines

EffectInv == \A w \in Workers : EffectOK(w) /\ JobOK(w)

AllInv == TypeInv /\ StockInv /\ OrderInv /\ EffectInv

\* Quantities of lines.
LEMMA QuantityPieces ==
  ASSUME NEW lines, NEW s
  PROVE  QuantityOf(lines, s) = Pieces(lines, {i \in DOMAIN lines : lines[i].sku = s})
BY DEF QuantityOf, Pieces

LEMMA LinesQuantified ==
  ASSUME NEW lines \in Seq(Line), NEW S \in SUBSET DOMAIN lines
  PROVE  Quantified(lines, S)
<1>1. DOMAIN lines = 1..Len(lines) /\ Len(lines) \in Nat
  OBVIOUS
<1>2. IsFiniteSet(1..Len(lines))
  BY <1>1, FS_Interval
<1>3. IsFiniteSet(S)
  BY <1>1, <1>2, FS_Subset
<1>4. \A i \in DOMAIN lines : lines[i].qty \in Nat
  <2>1. \A l \in Line : l.qty \in Nat
    BY QuantitiesAssumption DEF Line
  <2>2. \A i \in DOMAIN lines : lines[i] \in Line
    BY <1>1
  <2> QED
    BY <2>1, <2>2
<1> QED
  BY <1>3, <1>4 DEF Quantified

LEMMA QuantityTyped ==
  ASSUME NEW lines \in Seq(Line), NEW s
  PROVE  QuantityOf(lines, s) \in Nat
BY QuantityPieces, LinesQuantified, PiecesTyped

LEMMA QuantityNone ==
  ASSUME NEW lines, NEW s, ~Named(lines, s)
  PROVE  QuantityOf(lines, s) = 0
<1>1. {i \in DOMAIN lines : lines[i].sku = s} = {}
  BY DEF Named
<1> QED
  BY <1>1, QuantityPieces, PiecesNone

LEMMA NothingNamed ==
  ASSUME NEW s
  PROVE  ~Named(<<>>, s)
BY DEF Named

LEMMA QuantityGrows ==
  ASSUME NEW lines \in Seq(Line), NEW n \in 0..Len(lines) - 1, NEW s
  PROVE  /\ SubSeq(lines, 1, n) \in Seq(Line) /\ SubSeq(lines, 1, n + 1) \in Seq(Line)
         /\ QuantityOf(SubSeq(lines, 1, n + 1), s) =
              QuantityOf(SubSeq(lines, 1, n), s)
                + (IF lines[n + 1].sku = s THEN lines[n + 1].qty ELSE 0)
<1> DEFINE t == SubSeq(lines, 1, n + 1)
           u == SubSeq(lines, 1, n)
           S == {i \in DOMAIN t : t[i].sku = s}
           R == {i \in DOMAIN u : u[i].sku = s}
<1>1. /\ t \in Seq(Line) /\ u \in Seq(Line) /\ DOMAIN t = 1..n + 1 /\ DOMAIN u = 1..n
      /\ n + 1 \in 1..n + 1
  OBVIOUS
<1>2. /\ \A i \in 1..n + 1 : t[i] = lines[i]
      /\ \A i \in 1..n : u[i] = lines[i]
  OBVIOUS
<1>3. Quantified(t, S) /\ Quantified(t, R) /\ Quantified(u, R)
  <2>1. S \in SUBSET DOMAIN t /\ R \in SUBSET DOMAIN t /\ R \in SUBSET DOMAIN u
    BY <1>1
  <2> HIDE DEF t, u, S, R
  <2> QED
    BY <1>1, <2>1, LinesQuantified
<1>4. Pieces(t, R) = Pieces(u, R)
  <2>1. \A i \in R : t[i].qty = u[i].qty
    BY <1>1, <1>2
  <2> HIDE DEF t, u, S, R
  <2> QED
    BY <1>3, <2>1, PiecesSame
<1>5. Pieces(u, R) \in Nat /\ QuantityOf(t, s) = Pieces(t, S) /\ QuantityOf(u, s) = Pieces(u, R)
  <2> HIDE DEF t, u
  <2> QED
    BY <1>3, PiecesTyped, QuantityPieces
<1>6. CASE lines[n + 1].sku = s
  <2>1. n + 1 \in S /\ S \ {n + 1} = R /\ t[n + 1].qty = lines[n + 1].qty
    BY <1>1, <1>2, <1>6
  <2> HIDE DEF t, u, S, R
  <2>2. Pieces(t, S) = Pieces(t, R) + lines[n + 1].qty
    BY <1>3, <2>1, PiecesSplit
  <2> QED
    BY <1>1, <1>4, <1>5, <1>6, <2>2 DEF t, u
<1>7. CASE lines[n + 1].sku # s
  <2>1. S = R
    BY <1>1, <1>2, <1>7
  <2> HIDE DEF t, u, S, R
  <2> QED
    BY <1>1, <1>4, <1>5, <1>7, <2>1 DEF t, u
<1> QED
  BY <1>6, <1>7

\* One line more names its SKU and may set it.
LEMMA NamedGrows ==
  ASSUME NEW lines \in Seq(AnyLine), NEW n \in 0..Len(lines) - 1, NEW s
  PROVE  /\ Named(SubSeq(lines, 1, n + 1), s)
               <=> Named(SubSeq(lines, 1, n), s) \/ lines[n + 1].sku = s
         /\ \A x : Sets(SubSeq(lines, 1, n), s, x) => Sets(SubSeq(lines, 1, n + 1), s, x)
         /\ Sets(SubSeq(lines, 1, n + 1), lines[n + 1].sku, lines[n + 1].qty)
<1> DEFINE t == SubSeq(lines, 1, n + 1)
           u == SubSeq(lines, 1, n)
<1>1. DOMAIN t = 1..n + 1 /\ DOMAIN u = 1..n /\ n + 1 \in 1..n + 1 /\ 1..n \subseteq 1..n + 1
  OBVIOUS
<1>2. /\ \A i \in 1..n + 1 : t[i] = lines[i]
      /\ \A i \in 1..n : u[i] = lines[i]
      /\ \A i \in 1..n + 1 : i \in 1..n \/ i = n + 1
  OBVIOUS
<1>3. lines[n + 1] = [sku |-> lines[n + 1].sku, qty |-> lines[n + 1].qty]
  <2>1. lines[n + 1] \in AnyLine
    OBVIOUS
  <2> QED
    BY <2>1 DEF AnyLine
<1> HIDE DEF t, u
<1>4. Named(t, s) <=> Named(u, s) \/ lines[n + 1].sku = s
  BY <1>1, <1>2 DEF Named
<1>5. \A x : Sets(u, s, x) => Sets(t, s, x)
  BY <1>1, <1>2 DEF Sets
<1>6. Sets(t, lines[n + 1].sku, lines[n + 1].qty)
  BY <1>1, <1>2, <1>3 DEF Sets
<1> QED
  BY <1>4, <1>5, <1>6 DEF t, u

\* No line, no effect; a line more, its effect more.
LEMMA TookNothing ==
  ASSUME NEW kind, NEW x \in Int
  PROVE  Took(kind, x, 0, FALSE, x)
BY DEF Took

LEMMA TookLine ==
  ASSUME NEW kind \in (StockKinds \ SetKinds) \cup {"cancel"},
         NEW x \in Int, NEW q \in Nat, NEW y \in Int, NEW named \in BOOLEAN,
         ~named => q = 0, NEW d \in Quantities, Took(kind, x, q, named, y)
  PROVE  Took(kind, x, q + d, TRUE, NewStock(kind, y, d))
<1>1. d \in Nat
  BY QuantitiesAssumption
<1>2. CASE kind \in {"create", "cancel"}
  BY <1>1, <1>2 DEF Took, NewStock
<1>3. CASE kind = "quick_order"
  <2>1. CASE named
    BY <1>1, <1>3, <2>1 DEF Took, NewStock, NonNegative
  <2>2. CASE ~named
    BY <1>1, <1>3, <2>2 DEF Took, NewStock, NonNegative
  <2> QED
    BY <2>1, <2>2
<1>4. CASE kind \in {"increase", "decrease", "edit_price"}
  BY <1>1, <1>4 DEF Took, NewStock, NonNegative
<1> QED
  BY <1>2, <1>3, <1>4 DEF StockKinds, SetKinds

\* A handler before its first line has done nothing.
LEMMA StartEffect ==
  ASSUME TypeInv', NEW w \in Workers, holds'[w] = {}, pc'[w] # "write",
         pc'[w] = "read" => line'[w] = 1, pc'[w] = "commit" => job'[w].lines = <<>>
  PROVE  EffectOK(w)'
<1> SUFFICES ASSUME pc'[w] \in {"read", "commit"}, NEW s \in Skus
             PROVE  /\ ~Named(Done(w), s)'
                    /\ Took(job'[w].kind, stock'[s], QuantityOf(Done(w), s)', FALSE, Visible(w, s)')
  BY DEF EffectOK, Took
<1>1. Done(w)' = <<>>
  <2>1. job'[w].lines \in Seq(AnyLine)
    BY JobFields DEF TypeInv, HandlerOK
  <2> QED
    BY <2>1 DEF Done
<1>2. ~Named(Done(w), s)' /\ QuantityOf(Done(w), s)' = 0
  BY <1>1, NothingNamed, QuantityNone
<1>3. Visible(w, s)' = stock'[s] /\ stock'[s] \in Int
  BY DEF Visible, TypeInv, TypeOK, TablesOK
<1> QED
  BY <1>2, <1>3, TookNothing

\* Whoever commits, an uncontended SKU that is read or held stays as it is.
LEMMA KeepEffect ==
  ASSUME TypeInv, TypeInv', NEW w \in Workers, EffectOK(w),
         pc'[w] \in {"read", "write", "commit"} =>
           /\ pc[w] \in {"read", "write", "commit"}
           /\ job'[w] = job[w] /\ holds'[w] = holds[w] /\ row'[w] = row[w] /\ Done(w)' = Done(w),
         \A s \in holds[w] : stock'[s] = stock[s], contended \subseteq contended'
  PROVE  EffectOK(w)'
<1> SUFFICES ASSUME pc'[w] \in {"read", "write", "commit"}, NEW s \in Skus
             PROVE  /\ s \in holds'[w] <=> Named(Done(w), s)'
                    /\ s \notin contended' /\ job'[w].kind \notin SetKinds =>
                         Took(job'[w].kind, stock'[s], QuantityOf(Done(w), s)', s \in holds'[w],
                              Visible(w, s)')
                    /\ s \in holds'[w] /\ job'[w].kind \in SetKinds =>
                         Sets(Done(w)', s, row'[w][s])
  BY DEF EffectOK
<1>1. /\ Done(w)' = Done(w) /\ holds'[w] = holds[w] /\ row'[w] = row[w] /\ job'[w] = job[w]
      /\ QuantityOf(Done(w), s)' = QuantityOf(Done(w), s)
      /\ Named(Done(w), s)' <=> Named(Done(w), s)
  OBVIOUS
<1>2. /\ s \in holds[w] <=> Named(Done(w), s)
      /\ s \notin contended /\ job[w].kind \notin SetKinds =>
           Took(job[w].kind, stock[s], QuantityOf(Done(w), s), s \in holds[w], Visible(w, s))
      /\ s \in holds[w] /\ job[w].kind \in SetKinds => Sets(Done(w), s, row[w][s])
  BY DEF EffectOK
<1>3. CASE s \in holds[w]
  <2>1. Visible(w, s)' = Visible(w, s) /\ stock'[s] = stock[s]
    BY <1>1, <1>3 DEF Visible
  <2> QED
    BY <1>1, <1>2, <2>1
<1>4. CASE s \notin holds[w]
  <2>1. QuantityOf(Done(w), s)' = 0
    BY <1>1, <1>2, <1>4, QuantityNone
  <2>2. Visible(w, s)' = stock'[s] /\ stock'[s] \in Int
    BY <1>1, <1>4 DEF Visible, TypeInv, TypeOK, TablesOK
  <2>3. Took(job'[w].kind, stock'[s], QuantityOf(Done(w), s)', FALSE, Visible(w, s)')
    BY <2>1, <2>2, TookNothing
  <2>4. Took(job'[w].kind, stock'[s], QuantityOf(Done(w), s)', s \in holds'[w], Visible(w, s)')
    BY <1>1, <1>4, <2>3 DEF Took
  <2> QED
    BY <1>1, <1>2, <1>4, <2>4
<1> QED
  BY <1>3, <1>4

\* A save() adds its line to what was done.
LEMMA WriteEffect ==
  ASSUME AllInv, TypeInv', NEW w \in Workers, Write(w)
  PROVE  EffectOK(w)'
<1> DEFINE kind == job[w].kind
           lines == job[w].lines
           n == line[w] - 1
           z == CurrentSku(w)
           d == CurrentLine(w).qty
<1>0. /\ TypeInv /\ StockInv /\ EffectOK(w) /\ JobOK(w) /\ pc[w] = "write"
      /\ kind \in StockKinds \cup {"cancel"} /\ z \in Skus
      /\ lines \in Seq(AnyLine) /\ n \in 0..Len(lines) - 1 /\ line[w] = n + 1
      /\ line[w] \in Nat
      /\ kind \notin SetKinds => lines \in Seq(Line) /\ d \in Quantities
  <2>1. TypeInv /\ StockInv /\ EffectOK(w) /\ JobOK(w) /\ pc[w] = "write"
    BY DEF AllInv, EffectInv, Write
  <2>2. job[w] \in Job /\ line[w] \in 1..Len(lines)
    BY <2>1 DEF TypeInv, HandlerOK
  <2>3. /\ lines \in Seq(AnyLine) /\ kind \in Kinds
        /\ kind \notin SetKinds => lines \in Seq(Line)
    BY <2>2, JobFields
  <2>4. n \in 0..Len(lines) - 1 /\ line[w] = n + 1 /\ lines # <<>> /\ line[w] \in Nat
    BY <2>2, <2>3
  <2>5. kind \notin OrderKinds \ {"cancel"}
    BY <2>1, <2>4 DEF JobOK
  <2> QED
    BY <2>1, <2>3, <2>4, <2>5, CurrentLineType DEF Kinds
<1>1. /\ holds'[w] = holds[w] \cup {z} /\ job' = job /\ stock' = stock /\ contended' = contended
      /\ row'[w] = [row[w] EXCEPT ![z] = NewStock(kind, seen[w], d)]
      /\ row[w] \in [Skus -> Int]
  BY <1>0 DEF Write, db, history, TypeInv, TypeOK, LocalsOK
<1>2. \/ pc'[w] = "commit" /\ n + 1 = Len(lines)
      \/ pc'[w] = "read" /\ line'[w] - 1 = n + 1
  <2>1. /\ pc' = [pc EXCEPT ![w] = IF line[w] = Len(lines) THEN "commit" ELSE "read"]
        /\ line' = [line EXCEPT ![w] = IF line[w] = Len(lines) THEN @ ELSE @ + 1]
    BY DEF Write
  <2>2. /\ pc'[w] = IF line[w] = Len(lines) THEN "commit" ELSE "read"
        /\ line'[w] = IF line[w] = Len(lines) THEN line[w] ELSE line[w] + 1
    BY <1>0, <2>1 DEF TypeInv, TypeOK, LocalsOK
  <2>3. Len(lines) \in Nat
    BY <1>0
  <2>4. CASE line[w] = Len(lines)
    <3>1. pc'[w] = "commit"
      BY <2>2, <2>4
    <3>2. n + 1 = line[w]
      BY <1>0
    <3>3. n + 1 = Len(lines)
      BY <2>4, <3>2
    <3> QED
      BY <3>1, <3>3
  <2>5. CASE line[w] # Len(lines)
    <3>1. pc'[w] = "read" /\ line'[w] = line[w] + 1
      BY <2>2, <2>5
    <3> HIDE DEF lines
    <3> QED
      BY <1>0, <3>1
  <2> QED
    BY <2>4, <2>5
<1>3. Done(w) = SubSeq(lines, 1, n) /\ Done(w)' = SubSeq(lines, 1, n + 1)
  BY <1>0, <1>1, <1>2 DEF Done
<1>4. lines[n + 1] = CurrentLine(w) /\ lines[n + 1].sku = z /\ lines[n + 1].qty = d
  BY <1>0 DEF CurrentLine, CurrentSku
<1> HIDE DEF kind, lines, n, z, d
<1> SUFFICES ASSUME NEW s \in Skus
             PROVE  /\ s \in holds'[w] <=> Named(Done(w), s)'
                    /\ s \notin contended' /\ job'[w].kind \notin SetKinds =>
                         Took(job'[w].kind, stock'[s], QuantityOf(Done(w), s)', s \in holds'[w],
                              Visible(w, s)')
                    /\ s \in holds'[w] /\ job'[w].kind \in SetKinds =>
                         Sets(Done(w)', s, row'[w][s])
  BY DEF EffectOK
<1> DEFINE q == QuantityOf(Done(w), s)
           r == QuantityOf(Done(w), s)'
<1>5. /\ s \in holds[w] <=> Named(Done(w), s)
      /\ s \notin contended /\ kind \notin SetKinds =>
           Took(kind, stock[s], q, s \in holds[w], Visible(w, s))
      /\ s \in holds[w] /\ kind \in SetKinds => Sets(Done(w), s, row[w][s])
  BY <1>0 DEF EffectOK, kind
<1>6. /\ Named(Done(w), s)' <=> Named(Done(w), s) \/ s = z
      /\ \A x : Sets(Done(w), s, x) => Sets(Done(w)', s, x)
      /\ Sets(Done(w)', z, d)
  <2>1. /\ Named(SubSeq(lines, 1, n + 1), s) <=> Named(SubSeq(lines, 1, n), s) \/ s = z
        /\ \A x : Sets(SubSeq(lines, 1, n), s, x) => Sets(SubSeq(lines, 1, n + 1), s, x)
        /\ Sets(SubSeq(lines, 1, n + 1), z, d)
    BY <1>0, <1>4, NamedGrows
  <2> QED
    BY <1>3, <2>1
<1>7. job'[w].kind = kind /\ stock'[s] = stock[s] /\ stock[s] \in Int /\ Visible(w, s) \in Int
  BY <1>0, <1>1, VisibleType DEF TypeInv, TypeOK, TablesOK, kind
<1>8. ASSUME kind \notin SetKinds
      PROVE  q \in Nat /\ r = q + (IF s = z THEN d ELSE 0) /\ d \in Nat
  <2>1. Done(w) \in Seq(Line)
    BY <1>0, <1>3, <1>8, QuantityGrows
  <2>2. q \in Nat
    BY <2>1, QuantityTyped
  <2>3. r = QuantityOf(SubSeq(lines, 1, n + 1), s)
    BY <1>3
  <2>4. QuantityOf(SubSeq(lines, 1, n + 1), s) = q + (IF s = z THEN d ELSE 0)
    BY <1>0, <1>3, <1>4, <1>8, QuantityGrows
  <2> QED
    BY <1>0, <1>8, <2>2, <2>3, <2>4, QuantitiesAssumption
<1>9. s \in holds'[w] <=> Named(Done(w), s)'
  BY <1>1, <1>5, <1>6
<1>10. ASSUME s \in holds'[w], kind \in SetKinds
       PROVE  Sets(Done(w)', s, row'[w][s])
  <2>1. CASE s = z
    <3>1. row'[w][s] = d
      BY <1>0, <1>1, <1>10, <2>1 DEF NewStock, SetKinds
    <3> QED
      BY <1>6, <2>1, <3>1
  <2>2. CASE s # z
    <3>1. s \in holds[w] /\ row'[w][s] = row[w][s]
      BY <1>1, <1>10, <2>2
    <3> QED
      BY <1>5, <1>6, <1>10, <3>1
  <2> QED
    BY <2>1, <2>2
<1>11. ASSUME s \notin contended', kind \notin SetKinds
       PROVE  Took(kind, stock[s], r, s \in holds'[w], Visible(w, s)')
  <2>0. q \in Nat /\ r = q + (IF s = z THEN d ELSE 0) /\ d \in Nat
    BY <1>8, <1>11
  <2>1. Took(kind, stock[s], q, s \in holds[w], Visible(w, s)) /\ s \notin contended
    BY <1>1, <1>5, <1>11
  <2>2. s \notin holds[w] => q = 0
    BY <1>5, QuantityNone
  <2> HIDE DEF q, r
  <2>3. CASE s = z
    <3>1. Visible(w, s)' = NewStock(kind, seen[w], d) /\ s \in holds'[w]
      BY <1>0, <1>1, <2>3 DEF Visible
    <3>2. seen[w] = Visible(w, s)
      BY <1>0, <2>1, <2>3 DEF StockInv, ReadsFresh, z
    <3>3. PICK named \in BOOLEAN : named <=> s \in holds[w]
      OBVIOUS
    <3>4. Took(kind, stock[s], q, named, Visible(w, s)) /\ (~named => q = 0)
      BY <2>1, <2>2, <3>3
    <3>5. kind \in (StockKinds \ SetKinds) \cup {"cancel"} /\ d \in Quantities
      BY <1>0, <1>11
    <3>6. Took(kind, stock[s], q + d, TRUE, NewStock(kind, Visible(w, s), d))
      BY <1>7, <2>0, <3>4, <3>5, TookLine
    <3> QED
      BY <2>0, <2>3, <3>1, <3>2, <3>6
  <2>4. CASE s # z
    <3>1. Visible(w, s)' = Visible(w, s) /\ (s \in holds'[w] <=> s \in holds[w]) /\ r = q
      BY <1>1, <2>0, <2>4 DEF Visible
    <3> QED
      BY <2>1, <3>1
  <2> QED
    BY <2>3, <2>4
<1> QED
  BY <1>7, <1>9, <1>10, <1>11 DEF r

\* What a step of one worker leaves of the effects of the others.
OthersEffect(w) ==
  \A v \in Workers \ {w} : /\ pc'[v] = pc[v] /\ job'[v] = job[v] /\ line'[v] = line[v]
                           /\ holds'[v] = holds[v] /\ row'[v] = row[v]

\* The lines of a recorded order stay.
LinesStay == \A o \in Orders : orders[o].status # "absent" => orders'[o].lines = orders[o].lines

LEMMA OthersStay ==
  ASSUME AllInv, TypeInv', NEW w \in Workers, OthersEffect(w), LinesStay,
         \A s \in Skus : stock'[s] = stock[s] \/ s \in holds[w], contended \subseteq contended'
  PROVE  \A v \in Workers \ {w} : EffectOK(v)' /\ JobOK(v)'
<1> SUFFICES ASSUME NEW v \in Workers \ {w} PROVE EffectOK(v)' /\ JobOK(v)'
  OBVIOUS
<1>0. /\ TypeInv /\ StockInv /\ OrderInv /\ EffectOK(v) /\ JobOK(v)
      /\ pc'[v] = pc[v] /\ job'[v] = job[v] /\ line'[v] = line[v]
      /\ holds'[v] = holds[v] /\ row'[v] = row[v]
  BY DEF AllInv, EffectInv, OthersEffect
<1>1. holds[v] \cap holds[w] = {} /\ holds[v] \subseteq Skus
  BY <1>0 DEF StockInv, LocksOK, TypeInv, TypeOK, LocalsOK
<1>2. EffectOK(v)'
  BY <1>0, <1>1, KeepEffect DEF Done
<1>3. JobOK(v)'
  <2>1. pc[v] # "idle" /\ job[v].kind = "cancel" =>
          job[v].order \in Orders /\ orders[job[v].order].status # "absent"
    BY <1>0 DEF OrderInv, OwnersOK, Changes, OrderKinds
  <2>2. JobOK(v)' <=>
          (pc[v] # "idle" =>
            /\ job[v].kind = "create" => job[v].status = "pending"
            /\ job[v].kind = "quick_order" => job[v].status = "paid"
            /\ Creates(v) => job[v].lines \in BoundedSeq(Line, MaxLines)
            /\ job[v].kind \in OrderKinds \ {"cancel"} => job[v].lines = <<>>
            /\ job[v].kind = "cancel" /\ pc[v] # "load" =>
                 job[v].lines = orders'[job[v].order].lines)
    BY <1>0 DEF JobOK, Creates
  <2> QED
    BY <1>0, <2>1, <2>2 DEF JobOK, LinesStay
<1> QED
  BY <1>2, <1>3

\* A request that ends leaves nothing.
LEMMA EndEffect ==
  ASSUME AllInv, TypeInv', NEW w \in Workers, Finish(w), LinesStay,
         \A s \in Skus : stock'[s] = stock[s] \/ s \in holds[w], contended \subseteq contended'
  PROVE  EffectInv'
<1>1. OthersEffect(w) /\ pc'[w] = "idle"
  BY DEF Finish, OthersEffect, AllInv, TypeInv, TypeOK, LocalsOK
<1>2. EffectOK(w)' /\ JobOK(w)'
  BY <1>1 DEF EffectOK, JobOK
<1> QED
  BY <1>1, <1>2, OthersStay DEF EffectInv

LEMMA QuietEffect ==
  ASSUME AllInv, TypeInv', NEW w \in Workers, OthersEffect(w), UNCHANGED <<db, history>>,
         EffectOK(w)', JobOK(w)'
  PROVE  EffectInv'
<1>1. LinesStay
  BY DEF db, LinesStay
<1>2. (\A s \in Skus : stock'[s] = stock[s]) /\ contended \subseteq contended'
  BY DEF db, history
<1> QED
  BY <1>1, <1>2, OthersStay DEF EffectInv

LEMMA ReceiveEffect ==
  ASSUME AllInv, TypeInv', NEW w \in Workers, NEW kind \in Kinds, NEW o \in Orders \cup {None},
         Receive(w, kind, o)
  PROVE  EffectInv'
<1>0. TypeInv /\ StockInv /\ pc[w] = "idle" /\ line[w] = 1 /\ holds[w] = {}
  BY DEF AllInv, Receive, TypeInv, HandlerOK, StockInv, LocksOK
<1>1. PICK lines, status :
        /\ lines \in RequestLines(kind)
        /\ job' = [job EXCEPT ![w] = [kind |-> kind, order |-> o,
                                      lines |-> lines, status |-> status]]
        /\ pc' = [pc EXCEPT ![w] = FirstStep(kind, lines)]
        /\ kind = "quick_order" => status = "paid"
        /\ kind = "create" => status = "pending"
  BY DEF Receive, RequestStatuses
<1>2. /\ UNCHANGED <<db, history>> /\ line' = line /\ holds' = holds /\ row' = row
      /\ OthersEffect(w)
  BY <1>0, <1>1 DEF Receive, txn, OthersEffect, TypeInv, TypeOK, LocalsOK
<1>3. /\ pc'[w] = FirstStep(kind, lines) /\ job'[w].lines = lines /\ job'[w].kind = kind
      /\ job'[w].status = status
  BY <1>0, <1>1 DEF TypeInv, TypeOK, LocalsOK
<1>4. /\ pc'[w] \in {"load", "commit", "read"}
      /\ pc'[w] = "commit" => lines = <<>>
      /\ kind \in OrderKinds => pc'[w] = "load"
  BY <1>3 DEF FirstStep
<1>5. EffectOK(w)'
  <2>1. holds'[w] = {} /\ pc'[w] # "write"
    BY <1>0, <1>2, <1>4
  <2>2. pc'[w] = "read" => line'[w] = 1
    BY <1>0, <1>2
  <2>3. pc'[w] = "commit" => job'[w].lines = <<>>
    BY <1>3, <1>4
  <2> QED
    BY <2>1, <2>2, <2>3, StartEffect
<1>6. JobOK(w)'
  <2>1. kind \in {"create", "quick_order"} => lines \in BoundedSeq(Line, MaxLines)
    <3>1. ASSUME kind \in {"create", "quick_order"}
          PROVE  RequestLines(kind) = BoundedSeq(Line, MaxLines)
      BY <3>1 DEF RequestLines, OrderKinds
    <3> QED
      BY <1>1, <3>1
  <2>2. kind \in OrderKinds => lines = <<>>
    BY <1>1, RequestLinesType
  <2> QED
    BY <1>1, <1>3, <1>4, <2>1, <2>2 DEF JobOK, Creates, OrderKinds
<1> QED
  BY <1>2, <1>5, <1>6, QuietEffect

LEMMA LoadEffect ==
  ASSUME AllInv, TypeInv', NEW w \in Workers, Load(w), ~Finish(w)
  PROVE  EffectInv'
<1>0. TypeInv /\ StockInv /\ JobOK(w) /\ pc[w] = "load" /\ job[w] \in Job
      /\ job[w].kind \in OrderKinds /\ job[w].order \in Orders
  BY DEF AllInv, EffectInv, Load, TypeInv, HandlerOK
<1> DEFINE new == IF job[w].kind = "cancel" THEN orders[job[w].order].lines ELSE <<>>
           st == IF job[w].kind = "edit_order" THEN orders[job[w].order].status ELSE job[w].status
<1>1. /\ job' = [job EXCEPT ![w].lines = new,
                            ![w].status = IF job[w].kind = "edit_order"
                                          THEN orders[job[w].order].status ELSE @]
      /\ pc' = [pc EXCEPT ![w] = "save"]
      /\ UNCHANGED <<db, history, txn, line>>
  BY DEF Load
<1>2. job'[w] = [job[w] EXCEPT !.lines = new, !.status = st] /\ pc'[w] = "save"
  BY <1>0, <1>1 DEF TypeInv, TypeOK, LocalsOK
<1>2a. OthersEffect(w)
  BY <1>0, <1>1 DEF OthersEffect, TypeInv, TypeOK, LocalsOK, txn
<1>3. job'[w].lines = new /\ job'[w].kind = job[w].kind /\ job'[w].order = job[w].order
  BY <1>0, <1>2 DEF Job
<1>4. EffectOK(w)'
  BY <1>2 DEF EffectOK
<1>5. JobOK(w)'
  BY <1>0, <1>1, <1>2, <1>3 DEF JobOK, Creates, OrderKinds, db
<1> QED
  BY <1>1, <1>2a, <1>4, <1>5, QuietEffect

LEMMA SaveOrderEffect ==
  ASSUME AllInv, TypeInv', NEW w \in Workers, SaveOrder(w)
  PROVE  EffectInv'
<1>0. TypeInv /\ StockInv /\ JobOK(w) /\ pc[w] = "save" /\ line[w] = 1 /\ holds[w] = {}
  BY DEF AllInv, EffectInv, SaveOrder, TypeInv, HandlerOK, StockInv, LocksOK
<1>1. /\ pc'[w] = (IF job[w].lines = <<>> THEN "commit" ELSE "read") /\ job' = job
      /\ UNCHANGED <<db, history, line, holds, row>> /\ OthersEffect(w)
  BY <1>0 DEF SaveOrder, OthersEffect, TypeInv, TypeOK, LocalsOK
<1>2. EffectOK(w)'
  BY <1>0, <1>1, StartEffect
<1>3. JobOK(w)'
  BY <1>0, <1>1 DEF JobOK, Creates, db
<1> QED
  BY <1>1, <1>2, <1>3, QuietEffect

LEMMA ReadEffect ==
  ASSUME AllInv, TypeInv', NEW w \in Workers, Read(w)
  PROVE  EffectInv'
<1>0. TypeInv /\ EffectOK(w) /\ JobOK(w) /\ pc[w] = "read"
  BY DEF AllInv, EffectInv, Read
<1>1. /\ pc'[w] = "write" /\ UNCHANGED <<job, db, history, line, holds, row>> /\ OthersEffect(w)
  BY <1>0 DEF Read, OthersEffect, TypeInv, TypeOK, LocalsOK, txn
<1>2. Done(w)' = Done(w)
  BY <1>0, <1>1 DEF Done
<1>3. EffectOK(w)'
  BY <1>0, <1>1, <1>2, KeepEffect DEF db, history
<1>4. JobOK(w)'
  BY <1>0, <1>1 DEF JobOK, Creates, db
<1> QED
  BY <1>1, <1>3, <1>4, QuietEffect

LEMMA CommitLines ==
  ASSUME AllInv, NEW w \in Workers, Commit(w)
  PROVE  LinesStay
<1> SUFFICES ASSUME NEW o \in Orders, orders[o].status # "absent"
             PROVE  orders'[o].lines = orders[o].lines
  BY DEF LinesStay
<1>0. TypeInv /\ OrderInv /\ pc[w] = "commit"
  BY DEF AllInv, Commit
<1>1. orders'[o] = IF o = job[w].order THEN CommittedOrder(w) ELSE orders[o]
  BY DEF Commit
<1>2. CASE o # job[w].order
  BY <1>1, <1>2
<1>3. CASE o = job[w].order
  <2>1. job[w].kind \in OrderKinds
    BY <1>0, <1>3, NoneAssumption
       DEF TypeInv, HandlerOK, OrderInv, OwnersOK, Creates
  <2>2. orders[o] \in Order
    BY <1>0 DEF TypeInv, TypeOK, TablesOK
  <2> QED
    BY <1>1, <1>3, <2>1, <2>2 DEF CommittedOrder, OrderKinds, Order
<1> QED
  BY <1>2, <1>3

LEMMA EffectNext ==
  ASSUME AllInv, TypeInv', [Next]_vars
  PROVE  EffectInv'
<1>0. TypeInv
  BY DEF AllInv
<1>1. ASSUME NEW w \in Workers, Finish(w), UNCHANGED <<db, history>> PROVE EffectInv'
  BY <1>1, EndEffect DEF db, history, LinesStay
<1>2. ASSUME NEW w \in Workers, NEW kind \in Kinds, NEW o \in Orders \cup {None},
             Receive(w, kind, o)
      PROVE  EffectInv'
  BY <1>2, ReceiveEffect
<1>3. ASSUME NEW w \in Workers, NameError(w) \/ DeadlockAbort(w) \/ Fail(w) PROVE EffectInv'
  BY <1>1, <1>3 DEF NameError, DeadlockAbort, Fail
<1>4. ASSUME NEW w \in Workers, Load(w) PROVE EffectInv'
  BY <1>1, <1>4, LoadEffect DEF Load
<1>5. ASSUME NEW w \in Workers, Write(w) PROVE EffectInv'
  <2>1. EffectOK(w)'
    BY <1>5, WriteEffect
  <2>2. OthersEffect(w) /\ UNCHANGED <<db, history, job>> /\ pc[w] = "write"
        /\ pc'[w] \in {"commit", "read"}
    BY <1>0, <1>5 DEF Write, OthersEffect, TypeInv, TypeOK, LocalsOK
  <2>3. JobOK(w)'
    BY <2>2 DEF AllInv, EffectInv, JobOK, Creates, db
  <2> QED
    BY <2>1, <2>2, <2>3, QuietEffect
<1>6. ASSUME NEW w \in Workers, Commit(w) PROVE EffectInv'
  <2>1. LinesStay
    BY <1>6, CommitLines
  <2>2. Finish(w) /\ contended \subseteq contended'
        /\ \A s \in Skus : stock'[s] = stock[s] \/ s \in holds[w]
    BY <1>6 DEF Commit
  <2> QED
    BY <2>1, <2>2, EndEffect
<1>7. CASE UNCHANGED vars
  BY <1>7 DEF AllInv, EffectInv, EffectOK, JobOK, Creates, Done, Visible, vars, db, txn, history
<1> QED
  BY <1>2, <1>3, <1>4, <1>5, <1>6, <1>7, SaveOrderEffect, ReadEffect DEF Next, Serve

LEMMA AllInvariant == Spec => []AllInv
<1>1. Init => AllInv
  BY TypeInit, StockInit, OrderInit DEF Init, AllInv, EffectInv, EffectOK, JobOK
<1>2. AllInv /\ [Next]_vars => AllInv'
  BY TypeNext, StockNext, OrderNext, EffectNext DEF AllInv
<1> QED
  BY <1>1, <1>2, PTL DEF Spec
-----------------------------------------------------------------------------
(***************************************************************************)
(* What a commit does to stock and orders                                   *)
(***************************************************************************)
\* A commit shows, of an uncontended SKU, what the lines of its request make of it.
LEMMA CommitTakes ==
  ASSUME AllInv, NEW w \in Workers, Commit(w), NEW s \in Skus
  PROVE  /\ stock[s] \in Int /\ stock'[s] \in Int
         /\ s \in holds[w] <=> Named(job[w].lines, s)
         /\ s \notin holds[w] => stock'[s] = stock[s]
         /\ job[w].kind \notin SetKinds => QuantityOf(job[w].lines, s) \in Nat
         /\ job[w].kind \notin SetKinds /\ s \notin contended =>
              Took(job[w].kind, stock[s], QuantityOf(job[w].lines, s), s \in holds[w], stock'[s])
         /\ job[w].kind \in SetKinds /\ s \in holds[w] => Sets(job[w].lines, s, stock'[s])
<1>0. TypeInv /\ EffectOK(w) /\ pc[w] = "commit" /\ job[w] \in Job
  BY DEF AllInv, EffectInv, Commit, TypeInv, HandlerOK
<1>1. /\ job[w].lines \in Seq(AnyLine)
      /\ job[w].kind \notin SetKinds => job[w].lines \in Seq(Line)
  BY <1>0, JobFields
<1>2. Done(w) = job[w].lines
  BY <1>0, <1>1 DEF Done
<1>3. /\ stock'[s] = Visible(w, s)
      /\ s \notin holds[w] => stock'[s] = stock[s]
      /\ s \in holds[w] => stock'[s] = row[w][s]
  BY DEF Commit, Visible
<1>4. stock[s] \in Int /\ Visible(w, s) \in Int
  BY <1>0, VisibleType DEF TypeInv, TypeOK, TablesOK
<1>5. job[w].kind \notin SetKinds => QuantityOf(job[w].lines, s) \in Nat
  BY <1>1, QuantityTyped
<1> QED
  BY <1>0, <1>2, <1>3, <1>4, <1>5 DEF EffectOK

\* Only a commit writes the tables.
LEMMA TablesChange ==
  ASSUME [Next]_vars
  PROVE  UNCHANGED <<db, history>> \/ \E w \in Workers : Commit(w)
<1>1. ASSUME NEW w \in Workers, NEW kind \in Kinds, NEW o \in Orders \cup {None},
             Receive(w, kind, o)
      PROVE  UNCHANGED <<db, history>>
  BY <1>1 DEF Receive
<1>2. ASSUME NEW w \in Workers,
             NameError(w) \/ Load(w) \/ SaveOrder(w) \/ DeadlockAbort(w) \/ Fail(w)
      PROVE  UNCHANGED <<db, history>>
  BY <1>2 DEF NameError, Load, SaveOrder, DeadlockAbort, Fail
<1>3. ASSUME NEW w \in Workers, Read(w) \/ Write(w)
      PROVE  UNCHANGED <<db, history>>
  BY <1>3 DEF Read, Write
<1>4. CASE UNCHANGED vars
  BY <1>4 DEF vars
<1> QED
  BY <1>1, <1>2, <1>3, <1>4 DEF Next, Serve

\* An order appears in the commit of the request that creates it.
LEMMA AppearsCreated ==
  ASSUME AllInv, NEW w \in Workers, Commit(w), NEW o \in Orders, Appears(o)
  PROVE  /\ job[w].order = o
         /\ job[w].kind = "create" \/ job[w].kind = "quick_order"
         /\ job[w].kind = "create" <=> orders'[o].status = "pending"
         /\ job[w].kind = "quick_order" <=> orders'[o].status = "paid"
         /\ orders'[o].lines = job[w].lines
<1>0. TypeInv /\ OrderInv /\ JobOK(w) /\ pc[w] = "commit" /\ job[w] \in Job
  BY DEF AllInv, EffectInv, Commit, TypeInv, HandlerOK
<1>1. orders'[o] = IF o = job[w].order THEN CommittedOrder(w) ELSE orders[o]
  BY DEF Commit
<1>2. job[w].order = o
  BY <1>1 DEF Appears
<1>3. job[w].kind \in {"create", "quick_order"}
  <2>1. ~Changes(w)
    BY <1>2 DEF OrderInv, OwnersOK, AllInv, Appears
  <2>2. job[w].kind \in OrderKinds \cup {"create", "quick_order"}
    BY <1>0, <1>2, NoneAssumption DEF TypeInv, HandlerOK
  <2> QED
    BY <1>0, <2>1, <2>2 DEF Changes
<1>4. orders'[o] = [status |-> job[w].status, lines |-> job[w].lines, restocked |-> 0]
  BY <1>1, <1>2, <1>3 DEF CommittedOrder
<1> QED
  BY <1>0, <1>2, <1>3, <1>4 DEF JobOK

\* Items are given back in the commit of a cancel, which has the order's lines.
LEMMA GivenBackByCancel ==
  ASSUME AllInv, NEW w \in Workers, Commit(w), NEW o \in Orders, GivesBack(o)
  PROVE  job[w].order = o /\ job[w].kind = "cancel" /\ orders'[o].lines = job[w].lines
<1>0. /\ TypeInv /\ OrderInv /\ JobOK(w) /\ pc[w] = "commit" /\ job[w] \in Job
      /\ orders[o] \in Order
  BY DEF AllInv, EffectInv, Commit, TypeInv, HandlerOK, TypeOK, TablesOK
<1>1. orders'[o] = IF o = job[w].order THEN CommittedOrder(w) ELSE orders[o]
  BY DEF Commit
<1>2. job[w].order = o
  BY <1>0, <1>1 DEF GivesBack, Order
<1>3. job[w].kind \in OrderKinds \cup {"create", "quick_order"}
  BY <1>0, <1>2, NoneAssumption DEF TypeInv, HandlerOK
<1>4. job[w].kind = "cancel"
  <2>1. job[w].kind \notin {"create", "quick_order"}
    BY <1>0, <1>1, <1>2 DEF CommittedOrder, GivesBack, Order
  <2>2. job[w].kind \notin OrderKinds \ {"cancel"}
    BY <1>0, <1>1, <1>2 DEF CommittedOrder, GivesBack, Order, OrderKinds
  <2> QED
    BY <1>3, <2>1, <2>2
<1>5. orders'[o].lines = orders[o].lines
  BY <1>0, <1>1, <1>2, <1>4 DEF CommittedOrder, Order
<1> QED
  BY <1>0, <1>2, <1>4, <1>5 DEF JobOK

\* An order takes, of every uncontended SKU and in the step that shows it, exactly
\* what its items name, and gives as much back in the step that cancels it:
\* CreateOrderSerializer.create, create_quick_order and cancel inside
\* transaction.atomic, whatever the other workers do.
THEOREM OrdersMoveStock == Spec => OrderMovesItsStock
<1>1. ASSUME AllInv, [Next]_vars, NEW o \in Orders, Appears(o), NEW s \in Skus \ contended
      PROVE  LET q == QuantityOf(orders'[o].lines, s)
                 left == stock[s] - q
             IN  stock'[s] = IF orders'[o].status = "paid" /\ left < 0
                                  /\ Named(orders'[o].lines, s)
                             THEN 0 ELSE left
  <2>1. PICK w \in Workers : Commit(w)
    BY <1>1, TablesChange DEF Appears, db
  <2> DEFINE n == QuantityOf(job[w].lines, s)
  <2>2. /\ job[w].kind = "create" \/ job[w].kind = "quick_order"
        /\ job[w].kind = "create" <=> orders'[o].status = "pending"
        /\ job[w].kind = "quick_order" <=> orders'[o].status = "paid"
        /\ orders'[o].lines = job[w].lines
    BY <1>1, <2>1, AppearsCreated
  <2>3. /\ stock[s] \in Int /\ stock'[s] \in Int /\ n \in Nat
        /\ s \in holds[w] <=> Named(job[w].lines, s)
        /\ Took(job[w].kind, stock[s], n, s \in holds[w], stock'[s])
    BY <1>1, <2>1, <2>2, CommitTakes, KindsApart
  <2>4. QuantityOf(orders'[o].lines, s) = n /\ (Named(orders'[o].lines, s) <=> s \in holds[w])
    BY <2>2, <2>3
  <2> HIDE DEF n
  <2>5. stock'[s] = IF orders'[o].status = "paid" /\ stock[s] - n < 0 /\ s \in holds[w]
                    THEN 0 ELSE stock[s] - n
    BY <2>2, <2>3 DEF Took
  <2> QED
    BY <2>4, <2>5
<1>2. ASSUME AllInv, [Next]_vars, NEW o \in Orders, GivesBack(o), NEW s \in Skus \ contended
      PROVE  stock'[s] = stock[s] + QuantityOf(orders'[o].lines, s)
  <2>1. PICK w \in Workers : Commit(w)
    <3>1. orders[o] \in Order
      BY <1>2 DEF AllInv, TypeInv, TypeOK, TablesOK
    <3>2. orders' # orders
      BY <1>2, <3>1 DEF GivesBack, Order
    <3> QED
      BY <1>2, <3>2, TablesChange DEF db
  <2>2. job[w].kind = "cancel" /\ orders'[o].lines = job[w].lines
    BY <1>2, <2>1, GivenBackByCancel
  <2>3. Took(job[w].kind, stock[s], QuantityOf(job[w].lines, s), s \in holds[w], stock'[s])
    BY <1>2, <2>1, <2>2, CommitTakes DEF SetKinds
  <2> QED
    BY <2>2, <2>3 DEF Took
<1>3. AllInv /\ [Next]_vars =>
        \A o \in Orders, s \in Skus \ contended :
          LET q == QuantityOf(orders'[o].lines, s)
              left == stock[s] - q
          IN /\ Appears(o) => stock'[s] = IF orders'[o].status = "paid" /\ left < 0
                                               /\ Named(orders'[o].lines, s)
                                          THEN 0 ELSE left
             /\ GivesBack(o) => stock'[s] = stock[s] + q
  BY <1>1, <1>2
<1> QED
  BY <1>3, AllInvariant, PTL DEF Spec, OrderMovesItsStock

\* Of the writers of stock_quantity only two take an uncontended SKU below zero: the
\* web order, then it is a new pending order that names it, and the edit or the bulk
\* update that somebody filled in with the very number the stock becomes.
THEOREM OversellingIsByOrders == Spec => OnlyOrdersOversell
<1>1. ASSUME AllInv, [Next]_vars, NEW s \in Skus \ contended, stock[s] >= 0, stock'[s] < 0
      PROVE  \/ \E o \in Orders : Appears(o) /\ orders'[o].status = "pending"
                                /\ QuantityOf(orders'[o].lines, s) > 0
             \/ \E w \in Workers : SetsTo(w, s, stock'[s])
  <2>1. PICK w \in Workers : Commit(w)
    <3>1. stock[s] \in Int
      BY <1>1 DEF AllInv, TypeInv, TypeOK, TablesOK
    <3> QED
      BY <1>1, <3>1, TablesChange DEF db
  <2> DEFINE q == QuantityOf(job[w].lines, s)
             o == job[w].order
  <2>2. /\ stock[s] \in Int /\ stock'[s] \in Int /\ s \in holds[w]
        /\ job[w].kind \notin SetKinds =>
             q \in Nat /\ Took(job[w].kind, stock[s], q, s \in holds[w], stock'[s])
        /\ job[w].kind \in SetKinds => Sets(job[w].lines, s, stock'[s])
    BY <1>1, <2>1, CommitTakes
  <2>3. CASE job[w].kind \in SetKinds
    <3>1. pc[w] = "commit" /\ pc'[w] = "idle"
      BY <1>1, <2>1 DEF Commit, Finish, AllInv, TypeInv, TypeOK, LocalsOK
    <3> QED
      BY <2>2, <2>3, <3>1 DEF SetsTo, Sets
  <2>4. CASE job[w].kind \notin SetKinds
    <3>1. q > 0 /\ job[w].kind = "create"
      <4> HIDE DEF q
      <4> QED
        BY <1>1, <2>2, <2>4 DEF Took
    <3>2. o \in Orders /\ orders[o].status = "absent" /\ job[w].status = "pending"
      BY <1>1, <2>1, <3>1
         DEF AllInv, OrderInv, OwnersOK, Creates, EffectInv, JobOK, Commit
    <3>3. orders'[o] = [status |-> "pending", lines |-> job[w].lines, restocked |-> 0]
      BY <2>1, <3>1, <3>2 DEF Commit, CommittedOrder
    <3>4. Appears(o) /\ orders'[o].status = "pending" /\ orders'[o].lines = job[w].lines
      BY <3>2, <3>3 DEF Appears
    <3> HIDE DEF o
    <3> QED
      BY <3>1, <3>2, <3>4
  <2> QED
    BY <2>3, <2>4
<1>2. AllInv /\ [Next]_vars =>
        \A s \in Skus \ contended : stock[s] >= 0 /\ stock'[s] < 0 =>
          \/ \E o \in Orders : Appears(o) /\ orders'[o].status = "pending"
                             /\ QuantityOf(orders'[o].lines, s) > 0
          \/ \E w \in Workers : SetsTo(w, s, stock'[s])
  BY <1>1
<1> QED
  BY <1>2, AllInvariant, PTL DEF Spec, OnlyOrdersOversell
-----------------------------------------------------------------------------
(***************************************************************************)
(* The handlers implement StockBook                                         *)
(***************************************************************************)
\* StockBook counts the lines of an order as OrderStock does.
LEMMA SameQuantity ==
  ASSUME NEW items, NEW s
  PROVE  Book!Quantity(items, s) = QuantityOf(items, s)
BY DEF Book!Quantity, QuantityOf, Book!MapThenSumSet, MapThenSumSet,
       Book!MapThenFoldSet, MapThenFoldSet

\* A till sale takes what there is.
LEMMA AtLeastNothing ==
  ASSUME NEW x \in Int
  PROVE  Book!Max({0, x}) = IF x < 0 THEN 0 ELSE x
<1> DEFINE m == IF x < 0 THEN 0 ELSE x
<1>1. m \in {0, x} /\ \A y \in {0, x} : y <= m
  OBVIOUS
<1>2. \A z \in {0, x} : (\A y \in {0, x} : y <= z) => z = m
  BY <1>1
<1> QED
  BY <1>1, <1>2 DEF Book!Max

LEMMA BookInit == Init => Book!Init
BY DEF Init, Book!Init

\* What a committed order request leaves of the orders.
LEMMA BookRecord ==
  ASSUME AllInv, NEW w \in Workers, Commit(w), Creates(w)
  PROVE  /\ job[w].order \in Orders
         /\ job[w].lines \in Book!BoundedSeq(Book!Line, MaxLines)
         /\ Book!Record(job[w].order, job[w].lines, job[w].status)
<1> DEFINE o == job[w].order
<1>1. /\ o \in Orders /\ orders[o].status = "absent" /\ orders[o].restocked = 0
      /\ job[w].lines \in BoundedSeq(Line, MaxLines)
  BY DEF AllInv, OrderInv, OwnersOK, AbsentOK, EffectInv, JobOK, Creates
<1>2. orders' = [x \in Orders |->
                  IF x = o THEN [status |-> job[w].status, lines |-> job[w].lines,
                                 restocked |-> 0]
                  ELSE orders[x]]
  BY DEF Commit, Creates, CommittedOrder
<1>2a. BoundedSeq(Line, MaxLines) = Book!BoundedSeq(Book!Line, MaxLines)
  BY DEF Book!BoundedSeq, BoundedSeq, Book!SeqOf, SeqOf, Book!Line, Line
<1> HIDE DEF o
<1>3. /\ [x \in Orders |-> orders'[x].status]
           = [[x \in Orders |-> orders[x].status] EXCEPT ![o] = job[w].status]
      /\ [x \in Orders |-> orders'[x].lines]
           = [[x \in Orders |-> orders[x].lines] EXCEPT ![o] = job[w].lines]
      /\ [x \in Orders |-> orders'[x].restocked] = [x \in Orders |-> orders[x].restocked]
  BY <1>1, <1>2
<1>4. raced \subseteq raced'
  BY DEF Commit
<1> QED
  BY <1>1, <1>2a, <1>3, <1>4 DEF Book!Record, o

\* What a commit leaves of the stock.
LEMMA BookBecomes ==
  ASSUME TypeInv', NEW w \in Workers, Commit(w), NEW next,
         \A s \in Skus \ contended : stock'[s] = next[s]
  PROVE  Book!Becomes(next)
<1>1. stock' \in [Skus -> Int]
  BY DEF TypeInv, TypeOK, TablesOK
<1>2. contended \subseteq contended'
  BY DEF Commit
<1> QED
  BY <1>1, <1>2 DEF Book!Becomes

LEMMA BookOrder ==
  ASSUME AllInv, TypeInv', NEW w \in Workers, Commit(w), job[w].kind = "create"
  PROVE  Book!Order(job[w].order, job[w].lines)
<1>1. Book!Record(job[w].order, job[w].lines, "pending")
  <2>1. Creates(w) /\ job[w].status = "pending"
    BY DEF AllInv, EffectInv, JobOK, Creates, Commit
  <2> QED
    BY <2>1, BookRecord DEF Book!Record
<1> DEFINE next == [s \in Skus |-> stock[s] - Book!Quantity(job[w].lines, s)]
<1>2. ASSUME NEW s \in Skus \ contended PROVE stock'[s] = next[s]
  <2>1. stock'[s] = stock[s] - QuantityOf(job[w].lines, s)
    BY CommitTakes, KindsApart DEF Took
  <2> QED
    BY <2>1, SameQuantity
<1>3. Book!Becomes(next)
  <2> HIDE DEF next
  <2> QED
    BY <1>2, BookBecomes
<1> QED
  BY <1>1, <1>3 DEF Book!Order

LEMMA BookTillSale ==
  ASSUME AllInv, TypeInv', NEW w \in Workers, Commit(w), job[w].kind = "quick_order"
  PROVE  Book!TillSale(job[w].order, job[w].lines)
<1>1. Book!Record(job[w].order, job[w].lines, "paid")
  <2>1. Creates(w) /\ job[w].status = "paid"
    BY DEF AllInv, EffectInv, JobOK, Creates, Commit
  <2> QED
    BY <2>1, BookRecord DEF Book!Record
<1> DEFINE next == [s \in Skus |->
                     IF \E i \in DOMAIN job[w].lines : job[w].lines[i].sku = s
                     THEN Book!Max({0, stock[s] - Book!Quantity(job[w].lines, s)}) ELSE stock[s]]
<1>2. ASSUME NEW s \in Skus \ contended PROVE stock'[s] = next[s]
  <2> DEFINE q == QuantityOf(job[w].lines, s)
  <2>1. /\ stock[s] \in Int /\ stock'[s] \in Int /\ q \in Nat
        /\ s \in holds[w] <=> Named(job[w].lines, s)
        /\ s \notin holds[w] => stock'[s] = stock[s]
        /\ Took("quick_order", stock[s], q, s \in holds[w], stock'[s])
    BY CommitTakes, KindsApart
  <2>2. next[s] = IF s \in holds[w] THEN Book!Max({0, stock[s] - q}) ELSE stock[s]
    BY <2>1, SameQuantity DEF Named
  <2> HIDE DEF q, next
  <2>3. PICK left \in Int : left = stock[s] - q
    BY <2>1
  <2>4. Book!Max({0, left}) = IF left < 0 THEN 0 ELSE left
    BY AtLeastNothing
  <2> QED
    BY <2>1, <2>2, <2>3, <2>4 DEF Took
<1>3. Book!Becomes(next)
  <2> HIDE DEF next
  <2> QED
    BY <1>2, BookBecomes
<1> QED
  BY <1>1, <1>3 DEF Book!TillSale

\* What a request about a recorded order leaves of the orders.
LEMMA BookChange ==
  ASSUME AllInv, NEW w \in Workers, Commit(w), job[w].kind \in OrderKinds
  PROVE  /\ job[w].order \in Orders /\ orders[job[w].order].status # "absent"
         /\ [x \in Orders |-> orders'[x].status]
              = [[x \in Orders |-> orders[x].status] EXCEPT ![job[w].order] = job[w].status]
         /\ [x \in Orders |-> orders'[x].lines] = [x \in Orders |-> orders[x].lines]
         /\ job[w].kind = "cancel" =>
              [x \in Orders |-> orders'[x].restocked]
                = [[x \in Orders |-> orders[x].restocked] EXCEPT ![job[w].order] = @ + 1]
         /\ job[w].kind # "cancel" =>
              [x \in Orders |-> orders'[x].restocked] = [x \in Orders |-> orders[x].restocked]
<1> DEFINE o == job[w].order
           new == CommittedOrder(w)
<1>1. o \in Orders /\ orders[o].status # "absent" /\ orders[o] \in Order
  BY DEF AllInv, OrderInv, OwnersOK, Changes, Commit, TypeInv, TypeOK, TablesOK
<1>2. orders' = [x \in Orders |-> IF x = o THEN new ELSE orders[x]]
  BY DEF Commit
<1>3. /\ new.status = job[w].status /\ new.lines = orders[o].lines
      /\ new.restocked = IF job[w].kind = "cancel" THEN orders[o].restocked + 1
                         ELSE orders[o].restocked
  BY <1>1 DEF CommittedOrder, OrderKinds, Order
<1> HIDE DEF o, new
<1>4. /\ [x \in Orders |-> orders'[x].status]
           = [[x \in Orders |-> orders[x].status] EXCEPT ![o] = job[w].status]
      /\ [x \in Orders |-> orders'[x].lines] = [x \in Orders |-> orders[x].lines]
      /\ job[w].kind = "cancel" =>
           [x \in Orders |-> orders'[x].restocked]
             = [[x \in Orders |-> orders[x].restocked] EXCEPT ![o] = @ + 1]
      /\ job[w].kind # "cancel" =>
           [x \in Orders |-> orders'[x].restocked] = [x \in Orders |-> orders[x].restocked]
  BY <1>1, <1>2, <1>3
<1> QED
  BY <1>1, <1>4 DEF o

LEMMA BookCancel ==
  ASSUME AllInv, TypeInv', NEW w \in Workers, Commit(w),
         job[w].kind = "cancel", NEW o, o = job[w].order
  PROVE  Book!Cancel(o)
<1>0. pc[w] = "commit" /\ OrderInv /\ JobOK(w) /\ Changes(w)
  BY DEF AllInv, EffectInv, Commit, Changes, OrderKinds
<1>1. job[w].status = "cancelled" /\ job[w].lines = orders[o].lines
  BY <1>0 DEF OrderInv, TargetsOK, JobOK
<1>2. o \in Orders /\ (orders[o].status \in Cancellable \/ o \in raced)
  BY <1>0 DEF OrderInv, OwnersOK, StatusFresh
<1> DEFINE next == [s \in Skus |-> stock[s] + Book!Quantity(orders[o].lines, s)]
<1>3. ASSUME NEW s \in Skus \ contended PROVE stock'[s] = next[s]
  <2>1. stock'[s] = stock[s] + QuantityOf(orders[o].lines, s)
    BY <1>1, CommitTakes DEF Took, SetKinds
  <2> QED
    BY <2>1, SameQuantity
<1>4. Book!Becomes(next)
  <2> HIDE DEF next
  <2> QED
    BY <1>3, BookBecomes
<1>5. job[w].kind \in OrderKinds /\ raced \subseteq raced'
  BY DEF OrderKinds, Commit
<1> QED
  BY <1>1, <1>2, <1>4, <1>5, BookChange DEF Book!Cancel

\* The other order requests name no SKU, so they write none.
LEMMA BookSetStatus ==
  ASSUME AllInv, NEW w \in Workers, Commit(w),
         job[w].kind \in OrderKinds \ {"cancel"}
  PROVE  Book!SetStatus(job[w].order, job[w].status) /\ job[w].status \in Statuses
<1>1. job[w].lines = <<>> /\ job[w].status \in Statuses
  <2>1. job[w] \in Job /\ JobOK(w) /\ pc[w] # "idle"
    BY DEF AllInv, EffectInv, Commit, TypeInv, HandlerOK
  <2> QED
    BY <2>1, JobFields DEF JobOK
<1>2. ASSUME NEW s \in Skus PROVE s \notin holds[w] /\ stock'[s] = stock[s]
  BY <1>1, CommitTakes, NothingNamed
<1>3. stock' = stock
  <2>1. stock' = [s \in Skus |-> stock'[s]] /\ stock = [s \in Skus |-> stock[s]]
    BY DEF Commit, AllInv, TypeInv, TypeOK, TablesOK
  <2> QED
    BY <1>2, <2>1
<1>4. contended' = contended /\ raced \subseteq raced'
  <2>1. holds[w] = {}
    BY <1>2 DEF AllInv, TypeInv, TypeOK, LocalsOK
  <2> QED
    BY <2>1 DEF Commit, StaleReads
<1> QED
  BY <1>1, <1>3, <1>4, BookChange DEF Book!SetStatus

\* The requests about SKUs only are adjustments.
LEMMA BookAdjust ==
  ASSUME AllInv, TypeInv', NEW w \in Workers, Commit(w),
         job[w].kind \notin OrderKinds \cup {"create", "quick_order"}
  PROVE  Book!AdjustStock
<1>1. job[w].order = None
  BY DEF AllInv, TypeInv, HandlerOK, Commit
<1>2. orders' = [x \in Orders |-> orders[x]]
  BY <1>1, NoneAssumption DEF Commit
<1>3. stock' \in [Skus -> Int]
  BY DEF TypeInv, TypeOK, TablesOK
<1>4. contended \subseteq contended' /\ raced' = raced
  BY <1>1 DEF Commit, StaleOrders
<1> QED
  BY <1>2, <1>3, <1>4 DEF Book!AdjustStock

LEMMA BookStep ==
  ASSUME AllInv, TypeInv', [Next]_vars
  PROVE  [Book!Next]_(Book!vars)
<1>1. CASE UNCHANGED <<db, history>>
  BY <1>1 DEF db, history, Book!vars
<1>2. ASSUME NEW w \in Workers, Commit(w) PROVE Book!Next
  <2>1. job[w] \in Job /\ pc[w] = "commit"
    BY <1>2 DEF AllInv, TypeInv, HandlerOK, Commit
  <2>2. PICK o, items, st : o = job[w].order /\ items = job[w].lines /\ st = job[w].status
    OBVIOUS
  <2>3. CASE Creates(w)
    <3>1. o \in Orders /\ items \in Book!BoundedSeq(Book!Line, MaxLines)
      BY <1>2, <2>2, <2>3, BookRecord
    <3>2. CASE job[w].kind = "create"
      <4>1. Book!Order(o, items)
        BY <1>2, <2>2, <3>2, BookOrder DEF Book!Order, Book!Record
      <4> QED
        BY <3>1, <4>1 DEF Book!Next
    <3>3. CASE job[w].kind = "quick_order"
      <4>1. Book!TillSale(o, items)
        BY <1>2, <2>2, <3>3, BookTillSale DEF Book!TillSale, Book!Record
      <4> QED
        BY <3>1, <4>1 DEF Book!Next
    <3> QED
      BY <2>3, <3>2, <3>3 DEF Creates
  <2>4. CASE job[w].kind \in OrderKinds
    <3>1. o \in Orders
      BY <1>2, <2>2, <2>4, BookChange
    <3>2. CASE job[w].kind = "cancel"
      <4>1. Book!Cancel(o)
        BY <1>2, <2>2, <3>2, BookCancel
      <4> QED
        BY <3>1, <4>1 DEF Book!Next
    <3>3. CASE job[w].kind # "cancel"
      <4>1. Book!SetStatus(o, st) /\ st \in Statuses
        BY <1>2, <2>2, <2>4, <3>3, BookSetStatus DEF Book!SetStatus
      <4> QED
        BY <3>1, <4>1 DEF Book!Next
    <3> QED
      BY <3>2, <3>3
  <2>5. CASE job[w].kind \notin OrderKinds \cup {"create", "quick_order"}
    BY <1>2, <2>5, BookAdjust DEF Book!Next
  <2> QED
    BY <2>1, <2>3, <2>4, <2>5 DEF Creates
<1> QED
  BY <1>1, <1>2, TablesChange

\* However many workers serve them, every step of the handlers is a step of the book
\* that StockBook keeps, or none: an order and its stock, a cancel and what it puts
\* back, are one step (transaction.atomic around the loops of orders/serializers.py
\* and orders/api.py), but for the stock of SKUs and the status of orders that a
\* request committed between the read and the save() of another.
THEOREM HandlersImplementBook == Spec => ImplementsBook
<1>1. AllInv /\ AllInv' /\ [Next]_vars => [Book!Next]_(Book!vars)
  BY BookStep DEF AllInv
<1> QED
  BY <1>1, AllInvariant, BookInit, PTL DEF Spec, ImplementsBook, Book!Spec
-----------------------------------------------------------------------------
(***************************************************************************)
(* What a handler has logged so far                                         *)
(***************************************************************************)
Logging == {"increase", "decrease", "bulk_set"}

\* Log rows that make y of a stock of x: the changes sum to the difference, but for
\* a decrease that stopped at zero, and the last shows the result.
Tells(kind, rows, s, x, y) ==
  /\ \/ y = x + NetChange(rows, s)
     \/ kind = "decrease" /\ y = 0 /\ x + NetChange(rows, s) < 0
  /\ About(rows, s) # {} => rows[Max(About(rows, s))].current_quantity = y

\* The rows a handler has to log tell what it makes of an uncontended SKU.
TellOK(w) ==
  /\ pc[w] = "idle" => entries[w] = <<>>
  /\ pc[w] # "idle" /\ job[w].kind \notin Logging => entries[w] = <<>>
  /\ pc[w] # "idle" /\ job[w].kind \in Logging =>
       \A s \in Skus \ contended :
         /\ Tells(job[w].kind, entries[w], s, stock[s], Visible(w, s))
         /\ About(entries[w], s) # {} => s \in holds[w]

TellInv == \A w \in Workers : TellOK(w)

\* Changes of log rows.
LEMMA NetMoves ==
  ASSUME NEW rows, NEW s
  PROVE  NetChange(rows, s) = Moves(rows, About(rows, s))
BY DEF NetChange, Moves

LEMMA RowsMoved ==
  ASSUME NEW rows \in Seq(InventoryLog), NEW S \in SUBSET DOMAIN rows
  PROVE  Moved(rows, S)
<1>1. DOMAIN rows = 1..Len(rows) /\ Len(rows) \in Nat
  OBVIOUS
<1>2. IsFiniteSet(1..Len(rows))
  BY <1>1, FS_Interval
<1>3. IsFiniteSet(S)
  BY <1>1, <1>2, FS_Subset
<1>4. \A i \in DOMAIN rows : rows[i] \in InventoryLog
  BY <1>1
<1> QED
  BY <1>3, <1>4 DEF Moved, InventoryLog

LEMMA NetNone ==
  ASSUME NEW rows, NEW s, About(rows, s) = {}
  PROVE  NetChange(rows, s) = 0
BY NetMoves, MovesNone

LEMMA NoRows ==
  ASSUME NEW s
  PROVE  About(<<>>, s) = {} /\ NetChange(<<>>, s) = 0
<1>1. About(<<>>, s) = {}
  BY DEF About
<1> QED
  BY <1>1, NetNone

\* A row more about the SKU is the last of them, and counts.
LEMMA RowMore ==
  ASSUME NEW rows \in Seq(InventoryLog), NEW e \in InventoryLog
  PROVE  /\ About(rows \o <<e>>, e.sku) # {}
         /\ (rows \o <<e>>)[Max(About(rows \o <<e>>, e.sku))] = e
         /\ NetChange(rows \o <<e>>, e.sku) = NetChange(rows, e.sku) + e.quantity_change
         /\ NetChange(rows, e.sku) \in Int
<1> DEFINE t == rows \o <<e>>
           n == Len(rows)
           R == About(rows, e.sku)
           S == About(t, e.sku)
<1>1. /\ t \in Seq(InventoryLog) /\ n \in Nat /\ DOMAIN t = 1..n + 1 /\ DOMAIN rows = 1..n
      /\ t[n + 1] = e /\ \A i \in 1..n : t[i] = rows[i]
  OBVIOUS
<1> HIDE DEF t, n
<1>2. R \in SUBSET (1..n) /\ S = R \cup {n + 1} /\ S \in SUBSET DOMAIN t /\ S \ {n + 1} = R
  BY <1>1 DEF About
<1> HIDE DEF R, S
<1>3. Max(S) = n + 1
  BY <1>1, <1>2, MaxOfMore
<1>4. Moved(t, S)
  BY <1>1, <1>2, RowsMoved
<1>5. \A i \in S \ {n + 1} : t[i] = rows[i]
  BY <1>1, <1>2
<1>6. Moves(t, S) = Moves(rows, R) + e.quantity_change /\ Moves(rows, R) \in Int
  <2>1. n + 1 \in S
    BY <1>2
  <2>2. Moves(t, S) = Moves(rows, S \ {n + 1}) + t[n + 1].quantity_change
        /\ Moves(rows, S \ {n + 1}) \in Int
    BY <1>4, <1>5, <2>1, MovesMore
  <2> QED
    BY <1>1, <1>2, <2>2
<1>7. NetChange(t, e.sku) = Moves(t, S) /\ NetChange(rows, e.sku) = Moves(rows, R)
  BY NetMoves DEF R, S
<1>8. S # {} /\ t[Max(S)] = e
  BY <1>1, <1>2, <1>3
<1> QED
  BY <1>6, <1>7, <1>8 DEF t, S

\* A row more about another SKU changes nothing.
LEMMA RowElsewhere ==
  ASSUME NEW rows \in Seq(InventoryLog), NEW e \in InventoryLog, NEW s, e.sku # s
  PROVE  /\ About(rows \o <<e>>, s) = About(rows, s)
         /\ About(rows, s) # {} =>
              (rows \o <<e>>)[Max(About(rows \o <<e>>, s))] = rows[Max(About(rows, s))]
         /\ NetChange(rows \o <<e>>, s) = NetChange(rows, s)
<1> DEFINE t == rows \o <<e>>
           n == Len(rows)
           R == About(rows, s)
<1>1. /\ t \in Seq(InventoryLog) /\ n \in Nat /\ DOMAIN t = 1..n + 1 /\ DOMAIN rows = 1..n
      /\ t[n + 1] = e /\ \A i \in 1..n : t[i] = rows[i]
  OBVIOUS
<1> HIDE DEF t, n
<1>2. R \in SUBSET (1..n) /\ About(t, s) = R
  BY <1>1 DEF About
<1> HIDE DEF R
<1>3. R # {} => Max(R) \in 1..n
  BY <1>1, <1>2, MaxIs
<1>4. \A i \in R : t[i].quantity_change = rows[i].quantity_change
  BY <1>1, <1>2
<1>5. Moved(t, R) /\ Moved(rows, R)
  <2>1. R \in SUBSET DOMAIN t /\ R \in SUBSET DOMAIN rows
    BY <1>1, <1>2
  <2> QED
    BY <1>1, <2>1, RowsMoved
<1>6. Moves(t, R) = Moves(rows, R)
  <2>1. \A i \in R : Move(t, R)[i] = Move(rows, R)[i]
    BY <1>4 DEF Move
  <2> QED
    BY <1>5, <2>1, MovesTotal, TotalSame
<1>7. NetChange(t, s) = NetChange(rows, s)
  BY <1>2, <1>6, NetMoves DEF R
<1>8. R # {} => t[Max(About(t, s))] = rows[Max(R)]
  BY <1>1, <1>2, <1>3
<1> QED
  BY <1>2, <1>7, <1>8 DEF t, R

\* A handler that has written nothing has logged nothing.
LEMMA StartTell ==
  ASSUME TypeInv', NEW w \in Workers, entries'[w] = <<>>, holds'[w] = {}
  PROVE  TellOK(w)'
<1> SUFFICES ASSUME NEW s \in Skus
             PROVE  /\ Tells(job[w].kind, entries[w], s, stock[s], Visible(w, s))'
                    /\ About(entries[w], s)' = {}
  BY DEF TellOK
<1>1. About(entries[w], s)' = {} /\ NetChange(entries[w], s)' = 0
  BY NoRows
<1>2. Visible(w, s)' = stock'[s] /\ stock'[s] \in Int
  BY DEF Visible, TypeInv, TypeOK, TablesOK
<1> QED
  BY <1>1, <1>2 DEF Tells

\* Whoever commits, what a handler has logged goes on telling what it makes of the
\* SKUs: those it has logged it holds, and nobody else writes them.
LEMMA KeepTell ==
  ASSUME TypeInv, TypeInv', NEW w \in Workers, TellOK(w), entries'[w] = entries[w],
         pc'[w] = "idle" <=> pc[w] = "idle",
         pc[w] # "idle" => job'[w].kind = job[w].kind /\ holds'[w] = holds[w] /\ row'[w] = row[w],
         \A s \in holds[w] : stock'[s] = stock[s], contended \subseteq contended'
  PROVE  TellOK(w)'
<1>1. /\ pc'[w] = "idle" => entries'[w] = <<>>
      /\ pc'[w] # "idle" /\ job'[w].kind \notin Logging => entries'[w] = <<>>
  BY DEF TellOK
<1>2. ASSUME pc'[w] # "idle", job'[w].kind \in Logging, NEW s \in Skus \ contended'
      PROVE  /\ Tells(job[w].kind, entries[w], s, stock[s], Visible(w, s))'
             /\ About(entries[w], s)' # {} => s \in holds'[w]
  <2>1. /\ Tells(job[w].kind, entries[w], s, stock[s], Visible(w, s))
        /\ About(entries[w], s) # {} => s \in holds[w]
    BY <1>2 DEF TellOK
  <2>2. About(entries[w], s)' = About(entries[w], s)
        /\ NetChange(entries[w], s)' = NetChange(entries[w], s)
    OBVIOUS
  <2>3. holds'[w] = holds[w] /\ row'[w] = row[w] /\ job'[w].kind = job[w].kind
    BY <1>2
  <2>4. CASE s \in holds[w]
    <3>1. Visible(w, s)' = Visible(w, s) /\ stock'[s] = stock[s]
      BY <2>3, <2>4 DEF Visible
    <3> QED
      BY <2>1, <2>2, <2>3, <3>1 DEF Tells
  <2>5. CASE s \notin holds[w]
    <3>1. About(entries[w], s)' = {} /\ NetChange(entries[w], s)' = 0
      BY <2>1, <2>2, <2>5, NetNone
    <3>2. Visible(w, s)' = stock'[s] /\ stock'[s] \in Int
      BY <2>3, <2>5 DEF Visible, TypeInv, TypeOK, TablesOK
    <3> QED
      BY <3>1, <3>2 DEF Tells
  <2> QED
    BY <2>4, <2>5
<1> QED
  BY <1>1, <1>2 DEF TellOK

\* e is the row a save() logs.
Logged(kind, s, x, q, e) ==
  /\ LogEntries(kind, s, x, q) = <<e>> /\ e.sku = s
  /\ e.current_quantity = NewStock(kind, x, q)
  /\ kind = "increase" => e.quantity_change = q
  /\ kind = "decrease" => e.quantity_change = -q
  /\ kind = "bulk_set" => e.quantity_change = q - x

\* A save() of a kind that logs does, but for a bulk update that changes nothing.
LEMMA LogEntryOf ==
  ASSUME NEW kind, NEW s \in Skus, NEW x \in Int, NEW q \in Quantities \cup Amounts
  PROVE  /\ kind \notin Logging => LogEntries(kind, s, x, q) = <<>>
         /\ kind \in Logging =>
              \/ kind = "bulk_set" /\ x = q /\ LogEntries(kind, s, x, q) = <<>>
              \/ \E e \in InventoryLog : Logged(kind, s, x, q, e)
<1>0. q \in Int /\ NewStock(kind, x, q) \in Int
  BY QuantitiesAssumption, AmountsAssumption, NewStockInt
<1> DEFINE entry(c) == [sku |-> s, quantity_change |-> c, current_quantity |-> NewStock(kind, x, q)]
<1>1. \A c \in Int : entry(c) \in InventoryLog
  BY <1>0 DEF InventoryLog
<1>2. CASE kind = "increase"
  <2>1. LogEntries(kind, s, x, q) = <<entry(q)>> /\ entry(q) \in InventoryLog
    BY <1>0, <1>1, <1>2 DEF LogEntries
  <2> QED
    BY <1>2, <2>1 DEF Logging, Logged
<1>3. CASE kind = "decrease"
  <2>1. LogEntries(kind, s, x, q) = <<entry(-q)>> /\ entry(-q) \in InventoryLog
    BY <1>0, <1>1, <1>3 DEF LogEntries
  <2> QED
    BY <1>3, <2>1 DEF Logging, Logged
<1>4. CASE kind = "bulk_set" /\ x # q
  <2>1. LogEntries(kind, s, x, q) = <<entry(q - x)>> /\ entry(q - x) \in InventoryLog
    BY <1>0, <1>1, <1>4 DEF LogEntries
  <2> QED
    BY <1>4, <2>1 DEF Logging, Logged
<1>5. CASE kind \notin Logging \/ (kind = "bulk_set" /\ x = q)
  BY <1>5 DEF LogEntries, Logging
<1> QED
  BY <1>2, <1>3, <1>4, <1>5 DEF Logging

\* A save() and its log row tell one more line.
LEMMA TellsMore ==
  ASSUME NEW kind \in Logging, NEW rows \in Seq(InventoryLog), NEW e \in InventoryLog,
         NEW x \in Int, NEW y \in Int, NEW q \in Int, kind \notin SetKinds => q \in Nat,
         Tells(kind, rows, e.sku, x, y),
         e.current_quantity = NewStock(kind, y, q),
         kind = "increase" => e.quantity_change = q,
         kind = "decrease" => e.quantity_change = -q,
         kind = "bulk_set" => e.quantity_change = q - y
  PROVE  Tells(kind, rows \o <<e>>, e.sku, x, NewStock(kind, y, q))
<1>0. e.quantity_change \in Int
  BY DEF InventoryLog
<1>1. PICK told \in Int : told = NetChange(rows, e.sku)
  BY RowMore
<1>2. NetChange(rows \o <<e>>, e.sku) = told + e.quantity_change
  BY <1>1, RowMore
<1>3. (rows \o <<e>>)[Max(About(rows \o <<e>>, e.sku))].current_quantity = NewStock(kind, y, q)
  BY RowMore
<1>4. y = x + told \/ (kind = "decrease" /\ y = 0 /\ x + told < 0)
  BY <1>1 DEF Tells
<1>5. \/ NewStock(kind, y, q) = x + (told + e.quantity_change)
      \/ kind = "decrease" /\ NewStock(kind, y, q) = 0 /\ x + (told + e.quantity_change) < 0
  <2>1. CASE kind = "increase"
    BY <1>0, <1>4, <2>1 DEF NewStock
  <2>2. CASE kind = "decrease"
    <3>1. q \in Nat
      BY <2>2 DEF SetKinds
    <3> QED
      BY <1>0, <1>4, <2>2, <3>1 DEF NewStock, NonNegative
  <2>3. CASE kind = "bulk_set"
    BY <1>0, <1>4, <2>3 DEF NewStock
  <2> QED
    BY <2>1, <2>2, <2>3 DEF Logging
<1> QED
  BY <1>2, <1>3, <1>5 DEF Tells

\* A save() goes on telling.
LEMMA WriteTell ==
  ASSUME AllInv, TypeInv', TellInv, NEW w \in Workers, Write(w)
  PROVE  TellOK(w)'
<1>0. /\ TypeInv /\ StockInv /\ TellOK(w) /\ pc[w] = "write" /\ job[w] \in Job
      /\ entries[w] \in Seq(InventoryLog) /\ seen[w] \in Int
  BY DEF AllInv, TellInv, Write, TypeInv, HandlerOK, TypeOK, LocalsOK
<1>1. PICK k, z, q : k = job[w].kind /\ z = CurrentSku(w) /\ q = CurrentLine(w).qty
  OBVIOUS
<1>2. /\ z \in Skus /\ q \in Quantities \cup Amounts /\ q \in Int
      /\ k \notin SetKinds => q \in Nat
  <2>1. /\ z \in Skus /\ q \in Quantities \cup Amounts
        /\ k \notin SetKinds => q \in Quantities
    BY <1>0, <1>1, CurrentLineType
  <2> QED
    BY <2>1, QuantitiesAssumption, AmountsAssumption
<1>3. /\ holds'[w] = holds[w] \cup {z}
      /\ row'[w] = [row[w] EXCEPT ![z] = NewStock(k, seen[w], q)]
      /\ entries'[w] = entries[w] \o LogEntries(k, z, seen[w], q)
      /\ pc'[w] # "idle" /\ UNCHANGED <<job, db, history>>
  BY <1>0, <1>1 DEF Write, TypeInv, TypeOK, LocalsOK
<1>4. row[w] \in [Skus -> Int] /\ stock \in [Skus -> Int]
  BY <1>0 DEF TypeInv, TypeOK, LocalsOK, TablesOK
<1>5. \A s \in Skus : Visible(w, s)' = IF s = z THEN NewStock(k, seen[w], q) ELSE Visible(w, s)
  BY <1>2, <1>3, <1>4 DEF Visible, db
<1>6. z \notin contended => seen[w] = Visible(w, z)
  BY <1>0, <1>1 DEF StockInv, ReadsFresh
<1>7. \A s \in Skus : Visible(w, s) \in Int /\ NewStock(k, seen[w], q) \in Int
  BY <1>0, <1>2, VisibleType, NewStockInt
<1>8. k \in Logging => \A s \in Skus \ contended :
        /\ Tells(k, entries[w], s, stock[s], Visible(w, s))
        /\ About(entries[w], s) # {} => s \in holds[w]
  BY <1>0, <1>1 DEF TellOK
<1>9. CASE LogEntries(k, z, seen[w], q) = <<>> /\ (k \in Logging => k = "bulk_set" /\ seen[w] = q)
  <2>1. entries'[w] = entries[w]
    BY <1>0, <1>3, <1>9
  <2>2. ASSUME k \in Logging, NEW s \in Skus \ contended
        PROVE  Visible(w, s)' = Visible(w, s)
    <3>1. CASE s = z
      <4>1. NewStock(k, seen[w], q) = q
        BY <1>9, <2>2 DEF NewStock
      <4> QED
        BY <1>5, <1>6, <1>9, <2>2, <3>1, <4>1
    <3>2. CASE s # z
      BY <1>5, <3>2
    <3> QED
      BY <3>1, <3>2
  <2>3. ASSUME k \in Logging, NEW s \in Skus \ contended
        PROVE  /\ Tells(job[w].kind, entries[w], s, stock[s], Visible(w, s))'
               /\ About(entries[w], s)' # {} => s \in holds'[w]
    <3>1. Tells(k, entries[w], s, stock[s], Visible(w, s))
          /\ (About(entries[w], s) # {} => s \in holds[w])
      BY <1>8, <2>3
    <3>2. Visible(w, s)' = Visible(w, s) /\ stock'[s] = stock[s] /\ job'[w].kind = k
      BY <1>1, <1>3, <2>2, <2>3 DEF db
    <3>3. /\ About(entries[w], s)' = About(entries[w], s)
          /\ NetChange(entries[w], s)' = NetChange(entries[w], s)
      BY <2>1
    <3> QED
      BY <1>3, <2>1, <3>1, <3>2, <3>3 DEF Tells
  <2>4. k \notin Logging => entries'[w] = <<>>
    BY <1>0, <1>1, <2>1 DEF TellOK
  <2> QED
    BY <1>1, <1>3, <2>3, <2>4 DEF TellOK, history
<1>10. CASE k \in Logging /\ \E e \in InventoryLog : Logged(k, z, seen[w], q, e)
  <2>9. PICK e \in InventoryLog : Logged(k, z, seen[w], q, e)
    BY <1>10
  <2>1. /\ LogEntries(k, z, seen[w], q) = <<e>> /\ e.sku = z
        /\ e.current_quantity = NewStock(k, seen[w], q)
        /\ k = "increase" => e.quantity_change = q
        /\ k = "decrease" => e.quantity_change = -q
        /\ k = "bulk_set" => e.quantity_change = q - seen[w]
    BY <2>9 DEF Logged
  <2>2. PICK rows \in Seq(InventoryLog) : rows = entries[w]
    BY <1>0
  <2>3. entries'[w] = rows \o <<e>> /\ job'[w].kind = k
    BY <1>1, <1>3, <2>1, <2>2
  <2>4. ASSUME NEW s \in Skus \ contended
        PROVE  /\ Tells(job[w].kind, entries[w], s, stock[s], Visible(w, s))'
               /\ About(entries[w], s)' # {} => s \in holds'[w]
    <3>1. Tells(k, rows, s, stock[s], Visible(w, s)) /\ (About(rows, s) # {} => s \in holds[w])
      BY <1>8, <1>10, <2>2, <2>4
    <3>2. stock'[s] = stock[s] /\ stock[s] \in Int
      BY <1>3, <1>4 DEF db
    <3>3. /\ About(entries[w], s)' = About(rows \o <<e>>, s)
          /\ NetChange(entries[w], s)' = NetChange(rows \o <<e>>, s)
      BY <2>3
    <3>4. CASE s = z
      <4>1. PICK x \in Int, y \in Int : x = stock[s] /\ y = Visible(w, s)
        BY <1>7, <3>2
      <4>2. seen[w] = y /\ Visible(w, s)' = NewStock(k, y, q)
        BY <1>5, <1>6, <3>4, <4>1
      <4>3. Tells(k, rows \o <<e>>, e.sku, x, NewStock(k, y, q))
        BY <1>2, <1>10, <2>1, <3>1, <3>4, <4>1, <4>2, TellsMore
      <4> QED
        BY <1>3, <2>1, <2>3, <3>2, <3>3, <3>4, <4>1, <4>2, <4>3 DEF Tells
    <3>5. CASE s # z
      <4>1. Visible(w, s)' = Visible(w, s)
        BY <1>5, <3>5
      <4>2. /\ About(rows \o <<e>>, s) = About(rows, s)
            /\ About(rows, s) # {} =>
                 (rows \o <<e>>)[Max(About(rows \o <<e>>, s))] = rows[Max(About(rows, s))]
            /\ NetChange(rows \o <<e>>, s) = NetChange(rows, s)
        BY <2>1, <3>5, RowElsewhere
      <4> QED
        BY <1>3, <2>3, <3>1, <3>2, <3>3, <4>1, <4>2 DEF Tells
    <3> QED
      BY <3>4, <3>5
  <2> QED
    BY <1>1, <1>3, <1>10, <2>4 DEF TellOK, history
<1> QED
  <2>1. /\ k \notin Logging => LogEntries(k, z, seen[w], q) = <<>>
        /\ k \in Logging =>
             \/ k = "bulk_set" /\ seen[w] = q /\ LogEntries(k, z, seen[w], q) = <<>>
             \/ \E e \in InventoryLog : Logged(k, z, seen[w], q, e)
    BY <1>0, <1>2, LogEntryOf
  <2> QED
    BY <1>9, <1>10, <2>1

\* What a step of one worker leaves of the others is what they have logged, too.
LEMMA OthersTell ==
  ASSUME AllInv, TypeInv', TellInv, NEW w \in Workers, OthersEffect(w),
         \A v \in Workers \ {w} : entries'[v] = entries[v],
         \A s \in Skus : stock'[s] = stock[s] \/ s \in holds[w], contended \subseteq contended'
  PROVE  \A v \in Workers \ {w} : TellOK(v)'
<1> SUFFICES ASSUME NEW v \in Workers \ {w} PROVE TellOK(v)'
  OBVIOUS
<1>0. /\ TypeInv /\ StockInv /\ TellOK(v) /\ entries'[v] = entries[v]
      /\ pc'[v] = pc[v] /\ job'[v] = job[v] /\ holds'[v] = holds[v] /\ row'[v] = row[v]
  BY DEF AllInv, TellInv, OthersEffect
<1>1. holds[v] \cap holds[w] = {} /\ holds[v] \subseteq Skus
  BY <1>0 DEF StockInv, LocksOK, TypeInv, TypeOK, LocalsOK
<1> QED
  BY <1>0, <1>1, KeepTell

\* Every step keeps the handlers telling.
LEMMA TellNext ==
  ASSUME AllInv, TypeInv', TellInv, [Next]_vars
  PROVE  TellInv'
<1>0. TypeInv /\ StockInv
  BY DEF AllInv
<1>1. ASSUME NEW w \in Workers, Finish(w), contended \subseteq contended',
             \A s \in Skus : stock'[s] = stock[s] \/ s \in holds[w]
      PROVE  TellInv'
  <2>1. /\ OthersEffect(w) /\ \A v \in Workers \ {w} : entries'[v] = entries[v]
        /\ entries'[w] = <<>> /\ holds'[w] = {}
    BY <1>0, <1>1 DEF Finish, OthersEffect, TypeInv, TypeOK, LocalsOK
  <2> QED
    BY <1>1, <2>1, StartTell, OthersTell DEF TellInv
<1>2. ASSUME NEW w \in Workers, Finish(w), UNCHANGED <<db, history>> PROVE TellInv'
  BY <1>1, <1>2 DEF db, history
<1>3. ASSUME NEW w \in Workers, NEW kind \in Kinds, NEW o \in Orders \cup {None},
             Receive(w, kind, o)
      PROVE  TellInv'
  <2>1. /\ pc[w] = "idle" /\ UNCHANGED <<db, txn, history, line>>
        /\ \A v \in Workers \ {w} : pc'[v] = pc[v] /\ job'[v] = job[v]
    BY <1>0, <1>3 DEF Receive, TypeInv, TypeOK, LocalsOK
  <2>2. entries'[w] = <<>> /\ holds'[w] = {}
    BY <1>0, <2>1 DEF TellInv, TellOK, StockInv, LocksOK, txn
  <2>3. OthersEffect(w) /\ \A v \in Workers \ {w} : entries'[v] = entries[v]
    BY <2>1 DEF OthersEffect, txn
  <2> QED
    BY <2>1, <2>2, <2>3, StartTell, OthersTell DEF TellInv, db, history
<1>4. ASSUME NEW w \in Workers, NameError(w) \/ DeadlockAbort(w) \/ Fail(w) PROVE TellInv'
  BY <1>2, <1>4 DEF NameError, DeadlockAbort, Fail
<1>5. ASSUME NEW w \in Workers, OthersEffect(w), UNCHANGED <<db, history, entries, holds, row>>,
             job'[w].kind = job[w].kind, pc[w] # "idle", pc'[w] # "idle"
      PROVE  TellInv'
  <2>1. TellOK(w)'
    BY <1>0, <1>5, KeepTell DEF TellInv, db, history
  <2> QED
    BY <1>5, <2>1, OthersTell DEF TellInv, db, history
<1>6. ASSUME NEW w \in Workers, Load(w) PROVE TellInv'
  <2>1. CASE Finish(w)
    BY <1>2, <1>6, <2>1 DEF Load
  <2>2. CASE ~Finish(w)
    <3> DEFINE found == orders[job[w].order]
               new == IF job[w].kind = "cancel" THEN found.lines ELSE <<>>
               st == IF job[w].kind = "edit_order" THEN found.status ELSE job[w].status
    <3>0. job' = [job EXCEPT ![w].lines = new, ![w].status = st]
      BY <1>6, <2>2 DEF Load
    <3> HIDE DEF new, st
    <3>1. /\ pc' = [pc EXCEPT ![w] = "save"]
          /\ UNCHANGED <<db, history, txn, line>> /\ pc[w] = "load"
      BY <1>6, <2>2 DEF Load
    <3>2. job[w] \in Job
      BY <1>0, <3>1 DEF TypeInv, HandlerOK
    <3>3. job'[w].kind = job[w].kind /\ pc'[w] = "save" /\ OthersEffect(w)
      BY <1>0, <3>0, <3>1, <3>2 DEF OthersEffect, TypeInv, TypeOK, LocalsOK, txn, Job
    <3> QED
      BY <1>5, <3>1, <3>3 DEF txn
  <2> QED
    BY <2>1, <2>2
<1>7. ASSUME NEW w \in Workers, SaveOrder(w) PROVE TellInv'
  <2>1. /\ pc[w] = "save" /\ pc'[w] # "idle" /\ OthersEffect(w)
        /\ UNCHANGED <<db, history, entries, holds, row, job>>
    BY <1>0, <1>7 DEF SaveOrder, OthersEffect, TypeInv, TypeOK, LocalsOK
  <2> QED
    BY <1>5, <2>1
<1>8. ASSUME NEW w \in Workers, Read(w) PROVE TellInv'
  <2>1. /\ pc[w] = "read" /\ pc'[w] # "idle" /\ OthersEffect(w)
        /\ UNCHANGED <<db, history, entries, holds, row, job>>
    BY <1>0, <1>8 DEF Read, OthersEffect, TypeInv, TypeOK, LocalsOK, txn
  <2> QED
    BY <1>5, <2>1
<1>9. ASSUME NEW w \in Workers, Write(w) PROVE TellInv'
  <2>1. OthersEffect(w) /\ UNCHANGED <<db, history>> /\ \A v \in Workers \ {w} : entries'[v] = entries[v]
    BY <1>0, <1>9 DEF Write, OthersEffect, TypeInv, TypeOK, LocalsOK
  <2>2. TellOK(w)'
    BY <1>9, WriteTell
  <2> QED
    BY <2>1, <2>2, OthersTell DEF TellInv, db, history
<1>10. ASSUME NEW w \in Workers, Commit(w) PROVE TellInv'
  BY <1>1, <1>10 DEF Commit
<1>11. CASE UNCHANGED vars
  <2>1. UNCHANGED <<pc, job, holds, row, entries, stock, contended>>
    BY <1>11 DEF vars, db, txn, history
  <2>2. ASSUME NEW w \in Workers PROVE TellOK(w)'
    <3>1. TellOK(w)
      BY DEF TellInv
    <3> QED
      BY <1>0, <2>1, <3>1, KeepTell
  <2> QED
    BY <2>2 DEF TellInv
<1> QED
  BY <1>3, <1>4, <1>6, <1>7, <1>8, <1>9, <1>10, <1>11 DEF Next, Serve

LEMMA TellInvariant == Spec => [](AllInv /\ TellInv)
<1>1. Init => TellInv
  BY DEF Init, TellInv, TellOK
<1>2. AllInv /\ AllInv' /\ TellInv /\ [Next]_vars => TellInv'
  BY TellNext DEF AllInv
<1> QED
  BY <1>1, <1>2, AllInvariant, PTL DEF Spec

\* The rows a commit adds to the inventory log are those its handler wrote.
LEMMA CommitRows ==
  ASSUME TypeInv, NEW w \in Workers, Commit(w)
  PROVE  NewRows = entries[w]
<1>1. inventory \in Seq(InventoryLog) /\ entries[w] \in Seq(InventoryLog)
      /\ inventory' = inventory \o entries[w]
  BY DEF Commit, TypeInv, TypeOK, TablesOK, LocalsOK
<1> QED
  BY <1>1 DEF NewRows

\* The log rows a request commits tell what it did to the stock of every SKU nobody
\* committed between another's read and save, for any number of workers.
THEOREM LogsTell == Spec => LogTellsTheChange
<1>1. ASSUME AllInv, TellInv, [Next]_vars, NEW s \in Skus \ contended, About(NewRows, s) # {}
      PROVE  LET told == stock[s] + NetChange(NewRows, s)
             IN /\ NewRows[Max(About(NewRows, s))].current_quantity = stock'[s]
                /\ stock'[s] = told \/ (stock'[s] = 0 /\ told < 0)
  <2>0. TypeInv
    BY <1>1 DEF AllInv
  <2>1. CASE UNCHANGED <<db, history>>
    <3>1. NewRows = <<>>
      BY <2>0, <2>1 DEF NewRows, db, TypeInv, TypeOK, TablesOK
    <3> QED
      BY <1>1, <3>1 DEF About
  <2>2. ASSUME NEW w \in Workers, Commit(w)
        PROVE  LET told == stock[s] + NetChange(NewRows, s)
               IN /\ NewRows[Max(About(NewRows, s))].current_quantity = stock'[s]
                  /\ stock'[s] = told \/ (stock'[s] = 0 /\ told < 0)
    <3>1. PICK rows : rows = entries[w]
      OBVIOUS
    <3>2. NewRows = rows /\ About(rows, s) # {}
      BY <1>1, <2>0, <2>2, <3>1, CommitRows
    <3>3. TellOK(w) /\ pc[w] = "commit"
      BY <1>1, <2>2 DEF TellInv, Commit
    <3>4. entries[w] # <<>>
      BY <3>1, <3>2 DEF About
    <3>5. Tells(job[w].kind, rows, s, stock[s], Visible(w, s))
      BY <1>1, <3>1, <3>3, <3>4 DEF TellOK
    <3>6. stock'[s] = Visible(w, s)
      BY <2>2 DEF Commit, Visible
    <3> QED
      BY <3>2, <3>5, <3>6 DEF Tells
  <2> QED
    BY <1>1, <2>1, <2>2, TablesChange
<1>2. AllInv /\ TellInv /\ [Next]_vars =>
        [\A s \in Skus \ contended :
           LET told == stock[s] + NetChange(NewRows, s)
           IN About(NewRows, s) # {} =>
                /\ NewRows[Max(About(NewRows, s))].current_quantity = stock'[s]
                /\ stock'[s] = told \/ (stock'[s] = 0 /\ told < 0)]_vars
  BY <1>1
<1> QED
  BY <1>2, TellInvariant, PTL DEF Spec, LogTellsTheChange
=============================================================================
