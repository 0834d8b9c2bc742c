--------------------------- MODULE PaymentsProofs ---------------------------
(***************************************************************************)
(* Theorems about Payments, for every set of workers, orders, transactions *)
(* and refund requests, every price and amount, and every bound.           *)
(***************************************************************************)
EXTENDS Payments, Sums

\* A handler has what its step needs; rows it names exist.
HasRow(w) == job[w].txn \in Transactions /\ row[w] \in Transaction
HasTarget(w) == job[w].txn \in Transactions /\ txns[job[w].txn] # None
HasRequest(w) == job[w].request \in Requests /\ requests[job[w].request] # None

HandlerOK(w) ==
  /\ pc[w] # "idle" => job[w] \in Job
  /\ pc[w] \in {"check", "prepay", "commit"} =>
       job[w].kind = "pay" /\ job[w].order \in Orders /\ job[w].txn \in Transactions
  /\ pc[w] \in {"find", "mark", "settle"} => job[w].kind = "notice" /\ job[w].order \in Orders
  /\ pc[w] \in {"insert", "log"} =>
       HasTarget(w) /\ job[w].request \in Requests /\ job[w].amount \in Refunds
  /\ pc[w] = "load" => job[w].kind \in {"refund", "approve", "reject"}
  /\ pc[w] = "load" /\ job[w].kind = "refund" =>
       HasTarget(w) /\ job[w].request \in Requests /\ job[w].amount \in Refunds
  /\ pc[w] = "load" /\ job[w].kind # "refund" => HasRequest(w)
  /\ pc[w] \in {"approve", "reject"} => job[w].kind = pc[w]
  /\ pc[w] \in {"approve", "finish"} => job[w].kind = "approve"
  /\ pc[w] \in {"call", "record"} => job[w].kind \in {"refund", "approve"}
  /\ pc[w] \in {"call", "record"} /\ job[w].kind = "refund" => job[w].request \in Requests
  /\ pc[w] = "log" => job[w].kind = "refund"
  /\ pc[w] \in {"approve", "reject", "finish"} => HasRequest(w)
  /\ pc[w] = "call" /\ job[w].kind = "approve" => HasRequest(w)
  /\ pc[w] \in {"approve", "call", "finish", "record"} =>
       HasTarget(w) /\ HasRow(w) /\ job[w].amount \in Refunds
  /\ pc[w] = "mark" => HasTarget(w) /\ HasRow(w)
  /\ pc[w] = "commit" => HasRow(w) /\ row[w].refunded = 0 /\ row[w].status # "refunded"
  /\ pc[w] \in {"idle", "check", "prepay", "find", "settle", "insert", "load", "reject"} =>
       row[w] = None

\* Refund requests are about transactions there are.
ForeignKeys == \A r \in Requests : requests[r] # None => txns[requests[r].txn] # None

TypeInv == TypeOK /\ ForeignKeys /\ \A w \in Workers : HandlerOK(w)

\* What a row says went back did go back.
Covered(x, b) == x.refunded <= b /\ (x.status = "refunded" => b >= Price)

Holding == {"commit", "mark", "approve", "call", "finish", "record"}

RowOK(w) ==
  job[w].txn \notin shared =>
    /\ pc[w] \in Holding => Covered(row[w], back[job[w].txn])
    /\ InFlight(w) => row[w].refunded + job[w].amount <= back[job[w].txn]

RowsCovered == \A w \in Workers : RowOK(w)

CoverInv == RecordIsCovered /\ RowsCovered

\* Nothing is known of a transaction before its row is there.
Paying(w) == pc[w] \in {"check", "prepay", "commit"}
Fresh ==
  /\ \A t \in Transactions : txns[t] = None => back[t] = 0
  /\ \A w \in Workers : Paying(w) => txns[job[w].txn] = None
  /\ \A v, w \in Workers : v # w /\ Paying(w) /\ pc[v] # "idle" => job[v].txn # job[w].txn

Using == {"mark", "approve", "call", "finish", "record"}
Uses(w, t) == pc[w] \in Using /\ job[w].txn = t
SentFor(w, t) == InFlight(w) /\ job[w].txn = t

\* No more than x went back, and as much unless a number was used twice.
Tells(t, x) == back[t] <= x /\ (t \notin shared => back[t] = x)

\* As long as nobody slipped in between, or asked for a negative amount, the rows
\* in hand agree with the table, one handler at most has money on its way, and it
\* accounts for what went back.
Loose == slipped \cup lowered
Settled(t) ==
  t \notin Loose =>
    /\ \A w \in Workers : Uses(w, t) => row[w].refunded = txns[t].refunded
    /\ \A v, w \in Workers : SentFor(v, t) /\ SentFor(w, t) => v = w
    /\ \A w \in Workers :
         SentFor(w, t) => job[w].amount >= 0 /\ Tells(t, row[w].refunded + job[w].amount)
    /\ txns[t] # None /\ (\A w \in Workers : ~SentFor(w, t)) => Tells(t, txns[t].refunded)
    /\ t \notin unchecked => back[t] <= Price

\* A direct refund asks for what the row in hand leaves.
Checked ==
  \A w \in Workers :
    pc[w] = "call" /\ job[w].kind = "refund" => job[w].amount <= Price - row[w].refunded

PriceInv == Fresh /\ Checked /\ \A t \in Transactions : Settled(t)

-----------------------------------------------------------------------------
\* Rows are never deleted.
Grows ==
  /\ \A t \in Transactions : txns[t] # None => txns'[t] # None
  /\ \A r \in Requests : requests[r] # None => requests'[r] # None

\* None is not a row or a job.
LEMMA NoneIsNothing ==
  /\ None \notin Orders /\ None \notin Transactions /\ None \notin Requests
  /\ None \notin Transaction /\ None \notin RefundRequest /\ None \notin Job
  BY NoneAssumption

\* The handlers a step does not touch still have what they need.
LEMMA OthersKept ==
  ASSUME TypeInv, Grows, NEW v \in Workers,
         pc'[v] = pc[v], job'[v] = job[v], row'[v] = row[v]
  PROVE  HandlerOK(v)'
  <1>1. HandlerOK(v)
    BY DEF TypeInv
  <1>2. HasRow(v) => HasRow(v)'
    BY DEF HasRow
  <1>3. HasTarget(v) => HasTarget(v)'
    BY DEF HasTarget, Grows
  <1>4. HasRequest(v) => HasRequest(v)'
    BY DEF HasRequest, Grows
  <1>5. QED
    BY <1>1, <1>2, <1>3, <1>4 DEF HandlerOK

\* A step that changes the locals of one worker leaves the others' alone.
LEMMA OneWorker ==
  ASSUME TypeInv, Grows, NEW w \in Workers,
         \A v \in Workers \ {w} : pc'[v] = pc[v] /\ job'[v] = job[v] /\ row'[v] = row[v],
         HandlerOK(w)'
  PROVE  \A v \in Workers : HandlerOK(v)'
  <1>1. ASSUME NEW v \in Workers, v # w PROVE HandlerOK(v)'
    BY <1>1, OthersKept
  <1>2. QED
    BY <1>1

\* A handler that ends leaves an idle worker.
LEMMA FinishType ==
  ASSUME TypeInv, Grows, NEW w \in Workers, Finish(w)
  PROVE  /\ pc' \in [Workers -> Steps]
         /\ job' \in [Workers -> Job \cup {None}]
         /\ row' \in [Workers -> Transaction \cup {None}]
         /\ \A v \in Workers : HandlerOK(v)'
  <1>1. pc' \in [Workers -> Steps] /\ job' \in [Workers -> Job \cup {None}]
        /\ row' \in [Workers -> Transaction \cup {None}]
    BY DEF TypeInv, TypeOK, Finish, Steps
  <1>2. pc'[w] = "idle" /\ row'[w] = None
    BY DEF TypeInv, TypeOK, Finish
  <1>3. HandlerOK(w)'
    BY <1>2 DEF HandlerOK
  <1>4. \A v \in Workers \ {w} : pc'[v] = pc[v] /\ job'[v] = job[v] /\ row'[v] = row[v]
    BY DEF TypeInv, TypeOK, Finish
  <1>5. QED
    BY <1>1, <1>3, <1>4, OneWorker

\* A table that only gets rows of its kind and loses none stays typed.
LEMMA TablesKept ==
  ASSUME TypeInv, UNCHANGED <<txns, requests>>
  PROVE  Grows /\ ForeignKeys'
  BY DEF TypeInv, Grows, ForeignKeys

\* At the start the tables hold paid transactions, the workers nothing.
LEMMA TypeInit == Init => TypeInv
  <1> SUFFICES ASSUME Init PROVE TypeInv
    OBVIOUS
  <1>1. PICK of \in [Transactions -> Orders \cup {None}], method \in Methods :
          /\ paid = {of[t] : t \in Transactions} \ {None}
          /\ txns = [t \in Transactions |->
                       IF of[t] = None THEN None
                       ELSE [order |-> of[t], method |-> method,
                             status |-> "paid", refunded |-> 0]]
          /\ open = IF method = "wechat" THEN paid ELSE {}
    BY DEF Init
  <1>2. paid \subseteq Orders /\ open \subseteq Orders
    BY <1>1
  <1>3. method \in Services
    BY KindsAssumption
  <1>4. txns \in [Transactions -> Transaction \cup {None}]
    BY <1>1, <1>3 DEF Transaction
  <1>5. TypeOK
    BY <1>2, <1>4 DEF Init, TypeOK, Steps
  <1>6. ForeignKeys
    BY DEF Init, ForeignKeys
  <1>7. \A w \in Workers : HandlerOK(w)
    BY DEF Init, HandlerOK
  <1>8. QED
    BY <1>5, <1>6, <1>7 DEF TypeInv

\* What is asked for is a job its handler can do.
LEMMA AskedType ==
  ASSUME TypeInv, NEW kind \in Kinds, NEW j \in Asked(kind)
  PROVE  /\ j \in Job /\ j.kind = kind
         /\ kind = "pay" => j.order \in Orders /\ j.txn \in FreshTransactions
         /\ kind \in {"refund", "request"} =>
              /\ j.txn \in Transactions /\ txns[j.txn] # None
              /\ j.request \in Requests /\ j.amount \in Refunds
         /\ kind \in {"approve", "reject"} => j.request \in Requests /\ requests[j.request] # None
  <1>1. "wechat" \in Services /\ 0 \in Int /\ kind \in Kinds \cup {"notice"}
    BY DEF Services
  <1>2. Methods \subseteq Services /\ \A x \in Refunds : x \in Int
    BY KindsAssumption, PriceAssumption
  <1>3. Rows(txns) = {t \in Transactions : txns[t] # None}
        /\ Rows(requests) = {r \in Requests : requests[r] # None}
    BY DEF TypeInv, TypeOK, Rows
  <1>4. FreshTransactions \subseteq Transactions /\ FreshRequests \subseteq Requests
    BY DEF FreshTransactions, FreshRequests
  <1>5. CASE kind = "pay"
    <2>1. PICK o \in Orders, t \in FreshTransactions, m \in Methods :
            j = Names(kind, o, t, None, 0, m)
      BY <1>5 DEF Asked
    <2>2. QED
      BY <1>1, <1>2, <1>4, <1>5, <2>1 DEF Names, Job
  <1>6. CASE kind \in {"refund", "request"}
    <2>1. PICK t \in Rows(txns), r \in FreshRequests, x \in Refunds :
            j = Names(kind, None, t, r, x, "wechat")
      BY <1>6 DEF Asked
    <2>2. QED
      BY <1>1, <1>2, <1>3, <1>4, <1>6, <2>1 DEF Names, Job
  <1>7. CASE kind \in {"approve", "reject"}
    <2>1. PICK r \in Rows(requests) : j = Names(kind, None, None, r, 0, "wechat")
      BY <1>7 DEF Asked
    <2>2. QED
      BY <1>1, <1>3, <1>7, <2>1 DEF Names, Job
  <1>8. QED
    BY <1>5, <1>6, <1>7 DEF Kinds

\* A request that is taken names what its handler needs.
LEMMA ReceiveType ==
  ASSUME TypeInv, NEW w \in Workers, NEW kind \in Kinds, Receive(w, kind)
  PROVE  TypeInv'
  <1>1. Grows /\ ForeignKeys'
    BY TablesKept DEF Receive, tables
  <1>2. PICK j \in Asked(kind) : job' = [job EXCEPT ![w] = j]
    BY DEF Receive
  <1>3. row' = [row EXCEPT ![w] = row[w]] /\ row[w] = None
    BY DEF TypeInv, TypeOK, Receive, HandlerOK
  <1>4. pc'[w] = FirstStep(kind) /\ job'[w] = j /\ row'[w] = None
    BY <1>2, <1>3 DEF TypeInv, TypeOK, Receive
  <1>5. HandlerOK(w)'
    <2>1. CASE kind = "pay"
      BY <1>4, <2>1, AskedType DEF HandlerOK, FirstStep, FreshTransactions
    <2>2. CASE kind = "request"
      BY <1>4, <2>2, AskedType DEF HandlerOK, FirstStep, HasTarget, Receive, tables
    <2>3. CASE kind = "refund"
      BY <1>4, <2>3, AskedType DEF HandlerOK, FirstStep, HasTarget, Receive, tables
    <2>4. CASE kind \in {"approve", "reject"}
      BY <1>4, <2>4, AskedType DEF HandlerOK, FirstStep, HasRequest, Receive, tables
    <2>5. QED
      BY <2>1, <2>2, <2>3, <2>4 DEF Kinds
  <1>6. \A v \in Workers : HandlerOK(v)'
    <2>1. \A v \in Workers \ {w} : pc'[v] = pc[v] /\ job'[v] = job[v] /\ row'[v] = row[v]
      BY <1>2 DEF TypeInv, TypeOK, Receive
    <2>2. QED
      BY <1>1, <1>5, <2>1, OneWorker
  <1>7. TypeOK'
    <2>1. FirstStep(kind) \in Steps
      BY DEF FirstStep, Steps
    <2>2. QED
      BY <1>2, <2>1, AskedType DEF TypeInv, TypeOK, Receive, tables, provider, history
  <1>8. QED
    BY <1>1, <1>6, <1>7 DEF TypeInv

\* A worker that goes on leaves the others as they are.
LEMMA GoType ==
  ASSUME TypeInv, Grows, NEW w \in Workers, NEW step \in Steps, Go(w, step),
         NEW x \in Transaction \cup {None}, row' = [row EXCEPT ![w] = x],
         HandlerOK(w)'
  PROVE  /\ pc' \in [Workers -> Steps]
         /\ job' \in [Workers -> Job \cup {None}]
         /\ row' \in [Workers -> Transaction \cup {None}]
         /\ \A v \in Workers : HandlerOK(v)'
  <1>1. \A v \in Workers \ {w} : pc'[v] = pc[v] /\ job'[v] = job[v] /\ row'[v] = row[v]
    BY DEF TypeInv, TypeOK, Go
  <1>2. QED
    BY <1>1, OneWorker DEF TypeInv, TypeOK, Go

\* The row a worker has is one it may keep.
LEMMA RowKept ==
  ASSUME TypeInv, NEW w \in Workers
  PROVE  row = [row EXCEPT ![w] = row[w]] /\ row[w] \in Transaction \cup {None}
  BY DEF TypeInv, TypeOK

\* create_payment's look at the order changes no table.
LEMMA CheckType ==
  ASSUME TypeInv, NEW w \in Workers, Check(w)
  PROVE  TypeInv'
  <1>1. Grows /\ ForeignKeys'
    BY TablesKept DEF Check, tables
  <1>2. CASE Finish(w)
    BY <1>1, <1>2, FinishType DEF TypeInv, TypeOK, Check, tables, provider, history
  <1>3. CASE Go(w, "prepay") /\ UNCHANGED row
    <2>1. HandlerOK(w)'
      BY <1>3 DEF TypeInv, TypeOK, HandlerOK, Check, Go
    <2>2. QED
      BY <1>1, <1>3, <2>1, GoType, RowKept
      DEF TypeInv, TypeOK, Check, tables, provider, history, Steps
  <1>4. QED
    BY <1>2, <1>3 DEF Check

\* The row create_payment is about to insert is a row.
LEMMA PrepayType ==
  ASSUME TypeInv, NEW w \in Workers, Prepay(w)
  PROVE  TypeInv'
  <1>1. Grows /\ ForeignKeys'
    BY TablesKept DEF Prepay, tables
  <1>2. PICK status \in {"pending", "failed"} :
          row' = [row EXCEPT ![w] = [order |-> job[w].order, method |-> job[w].method,
                                     status |-> status, refunded |-> 0]]
    BY DEF Prepay
  <1>3. job[w] \in Job /\ job[w].order \in Orders
    BY DEF TypeInv, HandlerOK, Prepay
  <1>4. [order |-> job[w].order, method |-> job[w].method,
         status |-> status, refunded |-> 0] \in Transaction
    BY <1>3 DEF Job, Transaction
  <1>5. row'[w] \in Transaction /\ row'[w].refunded = 0 /\ row'[w].status # "refunded"
    BY <1>2, <1>4 DEF TypeInv, TypeOK
  <1>6. HandlerOK(w)'
    BY <1>5 DEF TypeInv, TypeOK, HandlerOK, HasRow, Prepay, Go
  <1>7. failures' \in Nat
    BY DEF TypeInv, TypeOK, Prepay
  <1>8. QED
    BY <1>1, <1>2, <1>4, <1>6, <1>7, GoType
    DEF TypeInv, TypeOK, Prepay, tables, provider, history, Steps

\* create_payment's commit inserts that row.
LEMMA CommitPaymentType ==
  ASSUME TypeInv, NEW w \in Workers, CommitPayment(w)
  PROVE  TypeInv'
  <1>1. HasRow(w) /\ job[w].order \in Orders
    BY DEF TypeInv, HandlerOK, CommitPayment
  <1>2. Grows
    BY <1>1, NoneIsNothing DEF TypeInv, TypeOK, Grows, HasRow, CommitPayment
  <1>3. ForeignKeys'
    BY <1>2 DEF TypeInv, TypeOK, ForeignKeys, Grows, CommitPayment, RefundRequest
  <1>4. open' \subseteq Orders
    BY <1>1 DEF TypeInv, TypeOK, CommitPayment
  <1>5. QED
    BY <1>1, <1>2, <1>3, <1>4, FinishType
    DEF TypeInv, TypeOK, HasRow, CommitPayment, history

\* The customer pays at the provider: no handler is concerned.
LEMMA CaptureType ==
  ASSUME TypeInv, NEW o \in Orders, Capture(o)
  PROVE  TypeInv'
  <1>1. Grows /\ ForeignKeys'
    BY TablesKept DEF Capture, tables
  <1>2. \A v \in Workers : HandlerOK(v)'
    BY <1>1, OthersKept DEF Capture
  <1>3. QED
    BY <1>1, <1>2 DEF TypeInv, TypeOK, Capture, tables, history

\* A notice names an order.
LEMMA DeliverType ==
  ASSUME TypeInv, NEW w \in Workers, NEW o \in Orders, Deliver(w, o)
  PROVE  TypeInv'
  <1>1. Grows /\ ForeignKeys'
    BY TablesKept DEF Deliver, tables
  <1>2. Names("notice", o, None, None, 0, "wechat") \in Job
    BY DEF Names, Job, Services
  <1>3. pc'[w] = "find" /\ job'[w] = Names("notice", o, None, None, 0, "wechat") /\ row'[w] = None
    BY DEF TypeInv, TypeOK, HandlerOK, Deliver
  <1>4. HandlerOK(w)'
    BY <1>2, <1>3 DEF HandlerOK, Names
  <1>5. \A v \in Workers \ {w} : pc'[v] = pc[v] /\ job'[v] = job[v] /\ row'[v] = row[v]
    BY DEF TypeInv, TypeOK, Deliver
  <1>6. \A v \in Workers : HandlerOK(v)'
    BY <1>1, <1>4, <1>5, OneWorker
  <1>7. TypeOK'
    BY <1>2 DEF TypeInv, TypeOK, Deliver, tables, provider, history, Steps
  <1>8. QED
    BY <1>1, <1>6, <1>7 DEF TypeInv

\* A notice goes on with the row it found.
LEMMA FindTransactionType ==
  ASSUME TypeInv, NEW w \in Workers, FindTransaction(w)
  PROVE  TypeInv'
  <1>1. Grows /\ ForeignKeys'
    BY TablesKept DEF FindTransaction, tables
  <1>2. CASE Finish(w)
    BY <1>1, <1>2, FinishType DEF TypeInv, TypeOK, FindTransaction, tables, provider, history
  <1>3. CASE ~Finish(w)
    <2>1. PICK t \in Transactions :
            /\ Matching(job[w].order) = {t}
            /\ job' = [job EXCEPT ![w].txn = t]
            /\ row' = [row EXCEPT ![w] = txns[t]]
            /\ pc' = [pc EXCEPT ![w] = "mark"]
      BY <1>3 DEF FindTransaction
    <2>2. txns[t] # None /\ txns[t] \in Transaction
      BY <2>1 DEF TypeInv, TypeOK, Matching, TransactionsOf
    <2>3. job[w] \in Job /\ job[w].kind = "notice" /\ job[w].order \in Orders
      BY DEF TypeInv, HandlerOK, FindTransaction
    <2>4. [job[w] EXCEPT !.txn = t] \in Job
      BY <2>3 DEF Job
    <2>5. pc'[w] = "mark" /\ row'[w] = txns[t] /\ job'[w] = [job[w] EXCEPT !.txn = t]
      BY <2>1 DEF TypeInv, TypeOK
    <2>6. job'[w] \in Job /\ job'[w].kind = "notice" /\ job'[w].order \in Orders /\ job'[w].txn = t
      BY <2>3, <2>4, <2>5 DEF Job
    <2>7. HandlerOK(w)'
      BY <2>2, <2>5, <2>6 DEF HandlerOK, HasTarget, HasRow, FindTransaction, tables
    <2>8. \A v \in Workers \ {w} : pc'[v] = pc[v] /\ job'[v] = job[v] /\ row'[v] = row[v]
      BY <2>1 DEF TypeInv, TypeOK
    <2>9. \A v \in Workers : HandlerOK(v)'
      BY <1>1, <2>7, <2>8, OneWorker
    <2>10. TypeOK'
      BY <2>1, <2>2, <2>4 DEF TypeInv, TypeOK, FindTransaction, tables, provider, history, Steps
    <2>11. QED
      BY <1>1, <2>9, <2>10 DEF TypeInv
  <1>4. QED
    BY <1>2, <1>3

\* The notice's save() keeps the row a row.
LEMMA MarkTransactionType ==
  ASSUME TypeInv, NEW w \in Workers, MarkTransaction(w)
  PROVE  TypeInv'
  <1>1. HasRow(w) /\ job[w].kind = "notice" /\ job[w].order \in Orders /\ job[w] \in Job
    BY DEF TypeInv, HandlerOK, MarkTransaction
  <1>2. [row[w] EXCEPT !.status = "paid"] \in Transaction
    BY <1>1 DEF HasRow, Transaction
  <1>3. Grows
    BY <1>1, <1>2, NoneIsNothing DEF TypeInv, TypeOK, Grows, HasRow, MarkTransaction
  <1>4. ForeignKeys'
    BY <1>3 DEF TypeInv, TypeOK, ForeignKeys, Grows, MarkTransaction, RefundRequest
  <1>5. HandlerOK(w)'
    BY <1>1 DEF TypeInv, TypeOK, HandlerOK, MarkTransaction, Go
  <1>6. txns' \in [Transactions -> Transaction \cup {None}]
    BY <1>1, <1>2 DEF TypeInv, TypeOK, HasRow, MarkTransaction
  <1>7. QED
    BY <1>3, <1>4, <1>5, <1>6, GoType
    DEF TypeInv, TypeOK, MarkTransaction, provider, history, Steps

\* The order of a notice is paid.
LEMMA SettleOrderType ==
  ASSUME TypeInv, NEW w \in Workers, SettleOrder(w)
  PROVE  TypeInv'
  <1>1. Grows /\ ForeignKeys'
    BY TablesKept DEF SettleOrder
  <1>2. job[w].order \in Orders
    BY DEF TypeInv, HandlerOK, SettleOrder
  <1>3. notices' \subseteq Orders /\ repeats' \in Nat /\ paid' \subseteq Orders
    BY <1>2 DEF TypeInv, TypeOK, SettleOrder, Acknowledge
  <1>4. QED
    BY <1>1, <1>3, FinishType DEF TypeInv, TypeOK, SettleOrder, history

\* Both ways to insert a refund request name a transaction there is.
LEMMA InsertRequestType ==
  ASSUME TypeInv, NEW w \in Workers, InsertRequest(w) \/ LogRefund(w)
  PROVE  TypeInv'
  <1>1. /\ HasTarget(w)
        /\ job[w].request \in Requests /\ job[w].amount \in Refunds
    BY DEF TypeInv, HandlerOK, InsertRequest, LogRefund
  <1>2. PICK status \in {"pending", "completed"} :
          requests' = [requests EXCEPT ![job[w].request] =
                         [txn |-> job[w].txn, amount |-> job[w].amount, status |-> status]]
    BY DEF InsertRequest, LogRefund
  <1>3. [txn |-> job[w].txn, amount |-> job[w].amount, status |-> status] \in RefundRequest
    BY <1>1 DEF HasTarget, RefundRequest
  <1>4. UNCHANGED <<txns, paid, provider, history, served, repeats, failures>> /\ Finish(w)
    BY DEF InsertRequest, LogRefund
  <1>5. Grows
    BY <1>1, <1>2, <1>3, <1>4, NoneIsNothing DEF TypeInv, TypeOK, Grows
  <1>6. ForeignKeys'
    BY <1>1, <1>2, <1>4 DEF TypeInv, TypeOK, ForeignKeys, HasTarget
  <1>7. requests' \in [Requests -> RefundRequest \cup {None}]
    BY <1>1, <1>2, <1>3 DEF TypeInv, TypeOK
  <1>8. QED
    BY <1>4, <1>5, <1>6, <1>7, FinishType DEF TypeInv, TypeOK, provider, history

\* A refund goes on with the row of its transaction.
LEMMA LoadType ==
  ASSUME TypeInv, NEW w \in Workers, Load(w)
  PROVE  TypeInv'
  <1> DEFINE r == job[w].request
             direct == job[w].kind = "refund"
             t == IF direct THEN job[w].txn ELSE requests[r].txn
             x == IF direct THEN job[w].amount ELSE requests[r].amount
  <1>1. Grows /\ ForeignKeys'
    BY TablesKept DEF Load, tables
  <1>2. job[w] \in Job /\ job[w].kind \in {"refund", "approve", "reject"} /\ r \in Requests
        /\ (~direct => requests[r] # None)
    BY DEF TypeInv, HandlerOK, HasRequest, Load
  <1>3. t \in Transactions /\ txns[t] # None /\ x \in Refunds
    <2>1. CASE direct
      BY <2>1 DEF TypeInv, HandlerOK, HasTarget, Load
    <2>2. CASE ~direct
      BY <1>2, <2>2 DEF TypeInv, TypeOK, ForeignKeys, RefundRequest
    <2>3. QED
      BY <2>1, <2>2
  <1>4. CASE Finish(w)
    BY <1>1, <1>4, FinishType DEF TypeInv, TypeOK, Load, tables, provider, history
  <1>5. CASE ~Finish(w)
    <2> DEFINE j == [job[w] EXCEPT !.txn = t, !.amount = x]
               y == IF job[w].kind = "reject" THEN None ELSE txns[t]
    <2>1. /\ pc' = [pc EXCEPT ![w] = After(job[w].kind, "load")]
          /\ job' = [job EXCEPT ![w].txn = t, ![w].amount = x]
          /\ row' = [row EXCEPT ![w] = y]
      BY <1>5 DEF Load
    <2>2. j \in Job /\ j.txn = t /\ j.amount = x /\ j.kind = job[w].kind /\ j.request = r
      BY <1>2, <1>3, PriceAssumption DEF Job
    <2>3. txns[t] \in Transaction
      BY <1>3 DEF TypeInv, TypeOK
    <2>4. After(job[w].kind, "load") = (IF direct THEN "call" ELSE job[w].kind)
      BY DEF After
    <2>5. job'[w] = j
      BY <2>1 DEF TypeInv, TypeOK
    <2>6. pc'[w] = (IF direct THEN "call" ELSE job[w].kind) /\ row'[w] = y
      BY <2>1, <2>4 DEF TypeInv, TypeOK
    <2>7. job'[w] \in Job /\ job'[w].txn = t /\ job'[w].amount = x
          /\ job'[w].kind = job[w].kind /\ job'[w].request = r
      BY <2>2, <2>5
    <2> HIDE DEF t, x, r, j, y
    <2>8. HasTarget(w)' /\ (~direct => HasRequest(w)')
          /\ (job[w].kind # "reject" => HasRow(w)')
      BY <1>2, <1>3, <2>3, <2>6, <2>7 DEF HasTarget, HasRequest, HasRow, Load, tables, y
    <2>9. HandlerOK(w)'
      BY <1>2, <1>3, <2>6, <2>7, <2>8 DEF HandlerOK, y
    <2>10. \A v \in Workers \ {w} : pc'[v] = pc[v] /\ job'[v] = job[v] /\ row'[v] = row[v]
      BY <2>1 DEF TypeInv, TypeOK
    <2>11. \A v \in Workers : HandlerOK(v)'
      BY <1>1, <2>9, <2>10, OneWorker
    <2>12. /\ pc' \in [Workers -> Steps] /\ job' \in [Workers -> Job \cup {None}]
           /\ row' \in [Workers -> Transaction \cup {None}]
      <3>1. job' = [job EXCEPT ![w] = j]
        BY <2>1 DEF j, t, x, r
      <3>2. y \in Transaction \cup {None}
        BY <2>3 DEF y
      <3>3. After(job[w].kind, "load") \in Steps
        BY <1>2, <2>4 DEF Steps
      <3>4. QED
        BY <2>1, <2>2, <3>1, <3>2, <3>3, ZenonT(30) DEF TypeInv, TypeOK
    <2>13. QED
      BY <1>1, <2>11, <2>12 DEF TypeInv, TypeOK, Load, tables, provider, history
  <1>6. QED
    BY <1>4, <1>5

\* The steps of a refund, one after the other.
LEMMA AfterSteps ==
  /\ After("approve", "approve") = "call"
  /\ After("refund", "call") = "record" /\ After("approve", "call") = "finish"
  /\ After("approve", "finish") = "record"
  /\ After("refund", "record") = "log" /\ After("approve", "record") = "idle"
  BY DEF After

\* process sets the status of a request there is.
LEMMA SaveRequestType ==
  ASSUME TypeInv, NEW w \in Workers, SaveRequest(w) \/ CompleteRequest(w)
  PROVE  TypeInv'
  <1>1. HasRequest(w)
    BY DEF TypeInv, HandlerOK, SaveRequest, CompleteRequest
  <1>2. PICK status \in {"approved", "rejected", "completed"} :
          requests' = [requests EXCEPT ![job[w].request].status = status]
    BY DEF SaveRequest, CompleteRequest
  <1>3. [requests[job[w].request] EXCEPT !.status = status] \in RefundRequest
        /\ [requests[job[w].request] EXCEPT !.status = status].txn = requests[job[w].request].txn
    BY <1>1 DEF TypeInv, TypeOK, HasRequest, RefundRequest
  <1>4. UNCHANGED <<paid, txns, provider, history, served, repeats, failures>>
    BY DEF SaveRequest, CompleteRequest
  <1>5. requests' \in [Requests -> RefundRequest \cup {None}]
    BY <1>1, <1>2, <1>3 DEF TypeInv, TypeOK, HasRequest
  <1>6. Grows
    BY <1>1, <1>2, <1>3, <1>4, NoneIsNothing DEF TypeInv, TypeOK, Grows, HasRequest
  <1>7. ForeignKeys'
    BY <1>1, <1>2, <1>3, <1>4 DEF TypeInv, TypeOK, ForeignKeys, HasRequest
  <1>8. CASE Finish(w)
    BY <1>4, <1>5, <1>6, <1>7, <1>8, FinishType DEF TypeInv, TypeOK, provider, history
  <1>9. CASE ~Finish(w)
    <2>1. job[w].kind = "approve" /\ pc[w] \in {"approve", "finish"} /\ Proceed(w)
      BY <1>9 DEF TypeInv, HandlerOK, SaveRequest, CompleteRequest
    <2>2. PICK step \in {"call", "record"} : Go(w, step) /\ UNCHANGED row
      BY <1>9, <2>1, AfterSteps DEF Proceed
    <2>3. HandlerOK(w)'
      BY <1>1, <1>4, <1>6, <2>1, <2>2
      DEF TypeInv, TypeOK, HandlerOK, HasTarget, HasRow, HasRequest, Grows, Go
    <2>4. QED
      BY <1>4, <1>5, <1>6, <1>7, <2>2, <2>3, GoType, RowKept
      DEF TypeInv, TypeOK, provider, history, Steps
  <1>10. QED
    BY <1>8, <1>9

\* What goes back is no debt; it is what was asked for, if that is positive and the
\* number is a new one.
LEMMA GivenMoney ==
  ASSUME NEW t, NEW x \in Refunds
  PROVE  /\ x \in Int /\ Given(t, x) \in Nat
         /\ x >= 0 => Given(t, x) <= x
         /\ ~Repeats(t) => x <= Given(t, x) /\ (x >= 0 => Given(t, x) = x)
  <1>1. x \in Int
    BY PriceAssumption
  <1>2. QED
    BY <1>1 DEF Given

\* What a call adds to what went back, and to what is told of it.
LEMMA CallGives ==
  ASSUME TypeInv, NEW w \in Workers, Call(w)
  PROVE  LET k == job[w].txn
             x == job[w].amount
         IN
         /\ pc[w] = "call" /\ k \in Transactions /\ x \in Refunds /\ HasTarget(w) /\ HasRow(w)
         /\ job[w].kind \in {"refund", "approve"}
         /\ UNCHANGED tables
         /\ back' = back \/ back' = [back EXCEPT ![k] = @ + Given(k, x)]
         /\ used' \in BOOLEAN /\ slipped' \in {slipped, slipped \cup {k}}
         /\ unchecked' = IF job[w].kind = "approve" THEN unchecked \cup {k} ELSE unchecked
         /\ shared' = IF Repeats(k) THEN shared \cup {k} ELSE shared
         /\ lowered' = IF x < 0 THEN lowered \cup {k} ELSE lowered
         /\ \/ Finish(w) /\ (back' # back => k \in slipped')
            \/ /\ Proceed(w)
               /\ back' = [back EXCEPT ![k] = @ + Given(k, x)]
               /\ OthersHave(w, k) => k \in slipped'
  <1>1. /\ pc[w] = "call" /\ HasTarget(w) /\ HasRow(w) /\ job[w].amount \in Refunds
        /\ job[w].kind \in {"refund", "approve"} /\ used \in BOOLEAN
    BY DEF TypeInv, TypeOK, HandlerOK, Call
  <1>2. UNCHANGED tables /\ (Finish(w) \/ Proceed(w))
    BY DEF Call
  <1>3. used' \in BOOLEAN
    BY <1>1 DEF Call, Send
  <1>4. QED
    BY <1>1, <1>2, <1>3 DEF Call, Send, HasTarget

\* The provider's answer leaves the tables alone.
LEMMA CallType ==
  ASSUME TypeInv, NEW w \in Workers, Call(w)
  PROVE  TypeInv'
  <1>1. Grows /\ ForeignKeys'
    BY TablesKept DEF Call, tables
  <1>2. job[w].txn \in Transactions /\ job[w].kind \in {"refund", "approve"}
    BY CallGives
  <1>3. back' \in [Transactions -> Nat]
    <2> DEFINE g == Given(job[w].txn, job[w].amount)
    <2>1. g \in Nat
      BY CallGives, GivenMoney
    <2>2. back' = back \/ back' = [back EXCEPT ![job[w].txn] = @ + g]
      BY CallGives
    <2> HIDE DEF g
    <2>3. QED
      BY <1>2, <2>1, <2>2 DEF TypeInv, TypeOK
  <1>4. /\ slipped' \subseteq Transactions /\ unchecked' \subseteq Transactions
        /\ shared' \subseteq Transactions /\ lowered' \subseteq Transactions
    BY <1>2, CallGives DEF TypeInv, TypeOK
  <1>5. failures' \in Nat /\ used' \in BOOLEAN
    <2>1. failures' \in Nat
      BY DEF TypeInv, TypeOK, Call
    <2>2. QED
      BY <2>1, CallGives
  <1>6. CASE Finish(w)
    BY <1>1, <1>3, <1>4, <1>5, <1>6, FinishType DEF TypeInv, TypeOK, Call, tables
  <1>7. CASE ~Finish(w)
    <2>1. Proceed(w) /\ pc[w] = "call"
      BY <1>7 DEF Call
    <2>2. Go(w, IF job[w].kind = "refund" THEN "record" ELSE "finish") /\ UNCHANGED row
      BY <1>2, <1>7, <2>1, AfterSteps DEF Proceed
    <2>3. HandlerOK(w)'
      <3>1. job[w].kind = "approve" => HasRequest(w)
        BY <2>1 DEF TypeInv, HandlerOK
      <3>2. UNCHANGED <<txns, requests>>
        BY DEF Call, tables
      <3>3. QED
        BY <1>1, <1>2, <2>1, <2>2, <3>1, <3>2
        DEF TypeInv, TypeOK, HandlerOK, HasTarget, HasRow, HasRequest, Go
    <2>4. QED
      BY <1>1, <1>3, <1>4, <1>5, <2>2, <2>3, GoType, RowKept
      DEF TypeInv, TypeOK, Call, tables, Steps
  <1>8. QED
    BY <1>6, <1>7

\* What transaction.save() writes after a refund.
LEMMA RecordRow ==
  ASSUME TypeInv, NEW w \in Workers, Record(w)
  PROVE  /\ HasTarget(w) /\ HasRow(w) /\ job[w].kind \in {"refund", "approve"}
         /\ \E x \in Transaction :
              /\ txns' = [txns EXCEPT ![job[w].txn] = x]
              /\ x.refunded = Total(w)
              /\ x.status = "refunded" => Total(w) = Price \/ row[w].status = "refunded"
  <1>1. HasTarget(w) /\ HasRow(w) /\ job[w].amount \in Refunds
        /\ job[w].kind \in {"refund", "approve"}
    BY DEF TypeInv, HandlerOK, Record
  <1>2. Total(w) \in Int
    <2>1. job[w].amount \in Int
      BY <1>1, PriceAssumption
    <2>2. row[w].refunded \in Int
      BY <1>1 DEF HasRow, Transaction
    <2>3. QED
      BY <2>1, <2>2 DEF Total
  <1> DEFINE x == [row[w] EXCEPT !.refunded = Total(w),
                                 !.status = IF Total(w) = Price THEN "refunded" ELSE @]
  <1>3. /\ x \in Transaction /\ x.refunded = Total(w)
        /\ x.status = "refunded" => Total(w) = Price \/ row[w].status = "refunded"
    BY <1>1, <1>2 DEF HasRow, Transaction
  <1>4. txns' = [txns EXCEPT ![job[w].txn] = x]
    BY DEF Record
  <1>5. QED
    BY <1>1, <1>3, <1>4

\* The refund's save() keeps the row a row.
LEMMA RecordType ==
  ASSUME TypeInv, NEW w \in Workers, Record(w)
  PROVE  TypeInv'
  <1>1. HasTarget(w) /\ HasRow(w) /\ job[w].kind \in {"refund", "approve"}
        /\ job[w].amount \in Refunds
    BY RecordRow DEF TypeInv, HandlerOK, Record
  <1>2. PICK x \in Transaction : txns' = [txns EXCEPT ![job[w].txn] = x]
    BY RecordRow
  <1>3. txns' \in [Transactions -> Transaction \cup {None}] /\ slipped' \subseteq Transactions
    BY <1>1, <1>2 DEF TypeInv, TypeOK, HasRow, Record
  <1>4. Grows
    BY <1>1, <1>2, NoneIsNothing DEF TypeInv, TypeOK, Grows, HasRow, Record
  <1>5. ForeignKeys'
    BY <1>4 DEF TypeInv, TypeOK, ForeignKeys, Grows, Record, RefundRequest
  <1>6. CASE Finish(w)
    BY <1>3, <1>4, <1>5, <1>6, FinishType DEF TypeInv, TypeOK, Record, provider
  <1>7. CASE ~Finish(w)
    <2>1. job[w].kind = "refund" /\ Go(w, "log") /\ UNCHANGED row
      BY <1>1, <1>7, AfterSteps DEF Record, Proceed
    <2>2. job[w].request \in Requests /\ job[w] \in Job
      BY <2>1 DEF TypeInv, HandlerOK, Record
    <2>3. HasTarget(w)'
      BY <1>1, <1>4, <2>1 DEF HasTarget, Grows, Go
    <2>4. HandlerOK(w)'
      BY <1>1, <2>1, <2>2, <2>3 DEF TypeInv, TypeOK, HandlerOK, Go, Record
    <2>5. QED
      BY <1>3, <1>4, <1>5, <2>1, <2>4, GoType, RowKept DEF TypeInv, TypeOK, Record, provider, Steps
  <1>8. QED
    BY <1>6, <1>7

\* A handler that is cut off leaves the tables as they are.
LEMMA FailType ==
  ASSUME TypeInv, NEW w \in Workers, Fail(w)
  PROVE  TypeInv'
  <1>1. Grows /\ ForeignKeys'
    BY TablesKept DEF Fail, tables
  <1>2. InFlight(w) => job[w].txn \in Transactions
    BY DEF TypeInv, HandlerOK, HasRow, InFlight
  <1>3. slipped' \subseteq Transactions /\ failures' \in Nat
    BY <1>2 DEF TypeInv, TypeOK, Fail
  <1>4. QED
    BY <1>1, <1>3, FinishType DEF TypeInv, TypeOK, Fail, tables, provider

\* A step that changes nothing, or the time, keeps the types.
LEMMA StutterType == TypeInv /\ (UNCHANGED vars \/ Tick) => TypeInv'
  <1> SUFFICES ASSUME TypeInv, UNCHANGED vars \/ Tick PROVE TypeInv'
    OBVIOUS
  <1>1. /\ UNCHANGED <<tables, open, notices, captured, back, history,
                       pc, job, row, served, repeats, failures>>
        /\ used' \in BOOLEAN
    BY DEF TypeInv, TypeOK, Tick, vars, provider
  <1>2. TypeOK'
    BY <1>1 DEF TypeInv, TypeOK, tables, history
  <1>3. ForeignKeys' /\ \A w \in Workers : HandlerOK(w)'
    BY <1>1 DEF TypeInv, ForeignKeys, HandlerOK, HasRow, HasTarget, HasRequest, tables
  <1>4. QED
    BY <1>2, <1>3 DEF TypeInv

\* Every step keeps the types.
LEMMA TypeStep == TypeInv /\ [Next]_vars => TypeInv'
  <1> SUFFICES ASSUME TypeInv, [Next]_vars PROVE TypeInv'
    OBVIOUS
  <1>1. ASSUME NEW o \in Orders, Capture(o) PROVE TypeInv'
    BY <1>1, CaptureType
  <1>2. ASSUME NEW w \in Workers, NEW kind \in Kinds, Receive(w, kind) PROVE TypeInv'
    BY <1>2, ReceiveType
  <1>3. ASSUME NEW w \in Workers, NEW o \in Orders, Deliver(w, o) PROVE TypeInv'
    BY <1>3, DeliverType
  <1>4. ASSUME NEW w \in Workers, Serve(w) PROVE TypeInv'
    BY <1>4, CheckType, PrepayType, CommitPaymentType, FindTransactionType,
       MarkTransactionType, SettleOrderType, InsertRequestType, LoadType,
       SaveRequestType, CallType, RecordType DEF Serve
  <1>5. ASSUME NEW w \in Workers, Fail(w) PROVE TypeInv'
    BY <1>5, FailType
  <1>6. CASE UNCHANGED vars \/ Tick
    BY <1>6, StutterType
  <1>7. QED
    BY <1>1, <1>2, <1>3, <1>4, <1>5, <1>6 DEF Next

\* Every reachable state is typed, every row a handler has in hand is a row, and
\* refund requests are about transactions there are (payments/models.py).
THEOREM TypeCorrectness == Spec => []TypeOK
  <1>1. Spec => []TypeInv
    BY TypeInit, TypeStep, PTL DEF Spec
  <1>2. TypeInv => TypeOK
    BY DEF TypeInv
  <1>3. QED
    BY <1>1, <1>2, PTL

-----------------------------------------------------------------------------
\* What a step does to the workers but w: nothing.
Alone(w) == \A v \in Workers \ {w} : pc'[v] = pc[v] /\ job'[v] = job[v] /\ row'[v] = row[v]

\* A handler that ends concerns its own worker.
LEMMA FinishAlone ==
  ASSUME TypeInv, NEW w \in Workers, Finish(w)
  PROVE  Alone(w) /\ pc'[w] = "idle" /\ job'[w] = None /\ row'[w] = None
  BY DEF TypeInv, TypeOK, Finish, Alone

\* So does one that goes on.
LEMMA GoAlone ==
  ASSUME TypeInv, NEW w \in Workers, NEW step, Go(w, step), UNCHANGED row
  PROVE  Alone(w) /\ pc'[w] = step /\ job'[w] = job[w] /\ row'[w] = row[w]
  BY DEF TypeInv, TypeOK, Go, Alone

\* Where a refund goes on.
LEMMA ProceedAlone ==
  ASSUME TypeInv, NEW w \in Workers, Proceed(w)
  PROVE  /\ Alone(w)
         /\ \/ pc'[w] = "idle"
            \/ /\ pc'[w] = After(job[w].kind, pc[w])
               /\ job'[w] = job[w] /\ row'[w] = row[w]
  BY FinishAlone, GoAlone DEF Proceed

\* A worker takes a request or a notice: it holds no row yet.
LEMMA TakenAlone ==
  ASSUME TypeInv, NEW w \in Workers,
         (\E kind \in Kinds : Receive(w, kind)) \/ (\E o \in Orders : Deliver(w, o))
  PROVE  /\ Alone(w) /\ UNCHANGED <<tables, provider, history>>
         /\ pc[w] = "idle" /\ pc'[w] \in {"check", "insert", "load", "find"}
  <1>1. CASE \E kind \in Kinds : Receive(w, kind)
    BY <1>1 DEF TypeInv, TypeOK, Receive, Alone, FirstStep
  <1>2. CASE \E o \in Orders : Deliver(w, o)
    BY <1>2 DEF TypeInv, TypeOK, Deliver, Alone
  <1>3. QED
    BY <1>1, <1>2

\* create_payment comes by a row with nothing given back.
LEMMA PrepayAlone ==
  ASSUME TypeInv, NEW w \in Workers, Prepay(w)
  PROVE  /\ Alone(w) /\ UNCHANGED <<tables, provider, history>>
         /\ pc'[w] = "commit" /\ job'[w] = job[w]
         /\ row'[w].refunded = 0 /\ row'[w].status # "refunded"
  BY DEF TypeInv, TypeOK, Prepay, Go, Alone

\* A notice comes by the row in the table.
LEMMA FoundAlone ==
  ASSUME TypeInv, NEW w \in Workers, FindTransaction(w)
  PROVE  /\ Alone(w) /\ UNCHANGED <<tables, provider, history>>
         /\ \/ pc'[w] = "idle"
            \/ /\ pc'[w] = "mark" /\ job'[w].txn \in Transactions
               /\ txns[job'[w].txn] # None /\ row'[w] = txns[job'[w].txn]
  <1>1. CASE Finish(w)
    BY <1>1, FinishAlone DEF FindTransaction
  <1>2. CASE ~Finish(w)
    <2>1. PICK t \in Transactions :
            /\ Matching(job[w].order) = {t}
            /\ job' = [job EXCEPT ![w].txn = t]
            /\ row' = [row EXCEPT ![w] = txns[t]]
            /\ pc' = [pc EXCEPT ![w] = "mark"]
      BY <1>2 DEF FindTransaction
    <2>2. job[w] \in Job
      BY DEF TypeInv, HandlerOK, FindTransaction
    <2>3. job'[w].txn = t
      BY <2>1, <2>2 DEF TypeInv, TypeOK, Job
    <2>4. txns[t] # None
      BY <2>1 DEF Matching, TransactionsOf
    <2>5. QED
      BY <2>1, <2>3, <2>4 DEF TypeInv, TypeOK, FindTransaction, Alone
  <1>3. QED
    BY <1>1, <1>2

\* A refund comes by the row in the table, and was checked against it.
LEMMA LoadedAlone ==
  ASSUME TypeInv, NEW w \in Workers, Load(w)
  PROVE  /\ Alone(w) /\ UNCHANGED <<tables, provider, history>>
         /\ \/ pc'[w] = "idle"
            \/ /\ pc'[w] \in {"reject", "approve", "call"}
               /\ job'[w].kind = job[w].kind
               /\ job'[w].txn \in Transactions /\ txns[job'[w].txn] # None
               /\ pc'[w] # "reject" => row'[w] = txns[job'[w].txn]
               /\ pc'[w] = "call" => Refundable(job'[w].txn, job'[w].amount)
  <1> DEFINE r == job[w].request
             direct == job[w].kind = "refund"
             t == IF direct THEN job[w].txn ELSE requests[r].txn
             x == IF direct THEN job[w].amount ELSE requests[r].amount
  <1>1. CASE Finish(w)
    BY <1>1, FinishAlone DEF Load
  <1>2. CASE ~Finish(w)
    <2>1. /\ pc' = [pc EXCEPT ![w] = After(job[w].kind, "load")]
          /\ job' = [job EXCEPT ![w].txn = t, ![w].amount = x]
          /\ row' = [row EXCEPT ![w] = IF job[w].kind = "reject" THEN None ELSE txns[t]]
          /\ direct => Refundable(t, x)
      BY <1>2 DEF Load
    <2>2. job[w] \in Job /\ job[w].kind \in {"refund", "approve", "reject"}
      BY DEF TypeInv, HandlerOK, Load
    <2>3. t \in Transactions /\ txns[t] # None
      <3>1. CASE direct
        BY <3>1 DEF TypeInv, HandlerOK, HasTarget, Load
      <3>2. CASE ~direct
        <4>1. HasRequest(w)
          BY <2>2, <3>2 DEF TypeInv, HandlerOK, Load
        <4>2. QED
          BY <3>2, <4>1 DEF TypeInv, TypeOK, ForeignKeys, HasRequest, RefundRequest
      <3>3. QED
        BY <3>1, <3>2
    <2>4. job'[w] = [job[w] EXCEPT !.txn = t, !.amount = x]
      BY <2>1 DEF TypeInv, TypeOK
    <2>5. job'[w].txn = t /\ job'[w].amount = x /\ job'[w].kind = job[w].kind
      BY <2>2, <2>4 DEF Job
    <2>6. pc'[w] = (IF direct THEN "call" ELSE job[w].kind)
      BY <2>1 DEF TypeInv, TypeOK, After
    <2>7. Alone(w) /\ row'[w] = IF job[w].kind = "reject" THEN None ELSE txns[t]
      BY <2>1 DEF TypeInv, TypeOK, Alone
    <2>8. UNCHANGED <<tables, provider, history>>
      BY DEF Load
    <2> HIDE DEF t, x
    <2>9. QED
      BY <2>1, <2>2, <2>3, <2>5, <2>6, <2>7, <2>8
  <1>3. QED
    BY <1>1, <1>2

-----------------------------------------------------------------------------
\* Money that went back stays there.
BackGrows == \A t \in Transactions : back[t] <= back'[t]

\* What a handler holds in a step that uses a row.
LEMMA HoldingType ==
  ASSUME TypeInv, NEW w \in Workers, pc[w] \in Holding
  PROVE  job[w].txn \in Transactions /\ row[w] \in Transaction
         /\ row[w].refunded \in Int /\ back[job[w].txn] \in Nat
         /\ (pc[w] \notin {"commit", "mark"} => job[w].amount \in Int)
  <1>1. HasRow(w) /\ (pc[w] \notin {"commit", "mark"} => job[w].amount \in Refunds)
    BY DEF TypeInv, HandlerOK, Holding
  <1>2. \A x \in Refunds : x \in Int
    BY PriceAssumption
  <1>3. QED
    BY <1>1, <1>2 DEF TypeInv, TypeOK, HasRow, Transaction

\* The rows the other handlers hold stay covered.
LEMMA OthersCovered ==
  ASSUME TypeInv, TypeInv', RowsCovered, BackGrows, shared \subseteq shared',
         NEW w \in Workers, Alone(w), RowOK(w)'
  PROVE  RowsCovered'
  <1>1. ASSUME NEW v \in Workers, v # w PROVE RowOK(v)'
    <2>1. RowOK(v) /\ pc'[v] = pc[v] /\ job'[v] = job[v] /\ row'[v] = row[v]
      BY <1>1 DEF RowsCovered, Alone
    <2>2. CASE pc[v] \in Holding
      <3>1. /\ back[job[v].txn] <= back'[job[v].txn]
            /\ back[job[v].txn] \in Nat /\ back'[job[v].txn] \in Nat
            /\ row[v].refunded \in Int
        BY <2>2, HoldingType DEF TypeInv, TypeOK, BackGrows
      <3>2. InFlight(v) => job[v].amount \in Int
        BY <2>2, HoldingType DEF InFlight
      <3>3. QED
        BY <2>1, <2>2, <3>1, <3>2, PriceAssumption DEF RowOK, Covered, InFlight
    <2>3. CASE pc[v] \notin Holding
      BY <2>1, <2>3 DEF RowOK, InFlight, Holding
    <2>4. QED
      BY <2>2, <2>3
  <1>2. QED
    BY <1>1 DEF RowsCovered

\* Steps that change neither the transactions nor what went back.
LEMMA QuietCovered ==
  ASSUME TypeInv, TypeInv', CoverInv, NEW w \in Workers, Alone(w),
         txns' = txns, back' = back, shared' = shared, RowOK(w)'
  PROVE  CoverInv'
  <1>1. BackGrows
    BY DEF TypeInv, TypeOK, BackGrows
  <1>2. QED
    BY <1>1, OthersCovered DEF CoverInv, RecordIsCovered

\* A handler that holds no row any more has nothing to cover.
LEMMA NotHolding ==
  ASSUME NEW w \in Workers, pc'[w] \notin Holding
  PROVE  RowOK(w)'
  BY DEF RowOK, InFlight, Holding

\* At the start nothing went back and no row says so.
LEMMA CoverInit == Init => CoverInv
  <1> SUFFICES ASSUME Init PROVE CoverInv
    OBVIOUS
  <1>1. \A t \in Transactions : txns[t] # None => txns[t].status = "paid" /\ txns[t].refunded = 0
    BY DEF Init
  <1>2. RecordIsCovered
    BY <1>1 DEF Init, RecordIsCovered
  <1>3. RowsCovered
    BY DEF Init, RowsCovered, RowOK, InFlight, Holding
  <1>4. QED
    BY <1>2, <1>3 DEF CoverInv

\* Steps that only bring rows from the table, or let go of them.
LEMMA ReadCovered ==
  ASSUME TypeInv, TypeInv', CoverInv, NEW w \in Workers,
         \/ \E kind \in Kinds : Receive(w, kind)
         \/ \E o \in Orders : Deliver(w, o)
         \/ Check(w) \/ Prepay(w) \/ FindTransaction(w) \/ SettleOrder(w)
         \/ InsertRequest(w) \/ LogRefund(w) \/ Load(w) \/ SaveRequest(w)
         \/ CompleteRequest(w) \/ Fail(w)
  PROVE  CoverInv'
  <1>1. CASE (\E kind \in Kinds : Receive(w, kind)) \/ (\E o \in Orders : Deliver(w, o))
    BY <1>1, TakenAlone, NotHolding, QuietCovered DEF tables, provider, history, Holding
  <1>2. CASE Check(w)
    BY <1>2, FinishAlone, GoAlone, NotHolding, QuietCovered DEF Check, tables, provider, history, Holding
  <1>3. CASE Prepay(w)
    <2>1. RowOK(w)'
      <3>1. back'[job'[w].txn] \in Nat
        BY <1>3, PrepayAlone, HoldingType DEF TypeInv, TypeOK, HandlerOK, HasRow
      <3>2. QED
        BY <1>3, <3>1, PrepayAlone DEF RowOK, Covered, InFlight
    <2>2. QED
      BY <1>3, <2>1, PrepayAlone, QuietCovered DEF tables, provider, history
  <1>4. CASE FindTransaction(w)
    <2>1. RowOK(w)'
      BY <1>4, FoundAlone DEF RowOK, Covered, InFlight, Holding, CoverInv, RecordIsCovered, provider, history
    <2>2. QED
      BY <1>4, <2>1, FoundAlone, QuietCovered DEF tables, provider, history
  <1>5. CASE SettleOrder(w) \/ InsertRequest(w) \/ LogRefund(w) \/ Fail(w)
    BY <1>5, FinishAlone, NotHolding, QuietCovered
    DEF SettleOrder, InsertRequest, LogRefund, Fail, tables, provider, history, Holding
  <1>6. CASE Load(w)
    <2>1. RowOK(w)'
      BY <1>6, LoadedAlone DEF RowOK, Covered, InFlight, Holding, CoverInv, RecordIsCovered, provider, history
    <2>2. QED
      BY <1>6, <2>1, LoadedAlone, QuietCovered DEF tables, provider, history
  <1>7. CASE SaveRequest(w) /\ pc[w] = "reject"
    BY <1>7, FinishAlone, NotHolding, QuietCovered DEF SaveRequest, provider, history, Holding
  <1>8. CASE (SaveRequest(w) /\ pc[w] = "approve") \/ CompleteRequest(w)
    <2>1. Proceed(w) /\ UNCHANGED <<txns, provider, history>> /\ pc[w] \in {"approve", "finish"}
      BY <1>8 DEF SaveRequest, CompleteRequest
    <2>2. job[w].kind = "approve" /\ RowOK(w)
      BY <2>1 DEF TypeInv, HandlerOK, CoverInv, RowsCovered
    <2>3. Alone(w) /\ (pc'[w] = "idle"
            \/ (pc'[w] = After("approve", pc[w]) /\ job'[w] = job[w] /\ row'[w] = row[w]))
      BY <2>1, <2>2, ProceedAlone
    <2>4. RowOK(w)'
      BY <2>1, <2>2, <2>3, AfterSteps DEF RowOK, Covered, InFlight, Holding, provider, history
    <2>5. QED
      BY <2>1, <2>3, <2>4, QuietCovered DEF provider, history
  <1>9. QED
    BY <1>1, <1>2, <1>3, <1>4, <1>5, <1>6, <1>7, <1>8 DEF SaveRequest

\* A new row, or a notice, tells of no more than went back.
LEMMA CommitPaymentCovered ==
  ASSUME TypeInv, TypeInv', CoverInv, NEW w \in Workers, CommitPayment(w)
  PROVE  CoverInv'
  <1>1. job[w].txn \in Transactions
        /\ (job[w].txn \notin shared => Covered(row[w], back[job[w].txn]))
    BY HoldingType DEF CommitPayment, CoverInv, RowsCovered, RowOK, Holding
  <1>2. RecordIsCovered'
    BY <1>1 DEF TypeInv, TypeOK, CommitPayment, CoverInv, RecordIsCovered, Covered, history
  <1>3. BackGrows /\ shared \subseteq shared'
    BY DEF TypeInv, TypeOK, CommitPayment, BackGrows, history
  <1>4. RowsCovered'
    BY <1>3, FinishAlone, NotHolding, OthersCovered DEF CommitPayment, CoverInv, Holding
  <1>5. QED
    BY <1>2, <1>4 DEF CoverInv

\* A notice saves a row that was covered when it was read.
LEMMA MarkTransactionCovered ==
  ASSUME TypeInv, TypeInv', CoverInv, NEW w \in Workers, MarkTransaction(w)
  PROVE  CoverInv'
  <1>1. /\ job[w].txn \notin shared => Covered(row[w], back[job[w].txn])
        /\ job[w].txn \in Transactions /\ row[w] \in Transaction
    BY HoldingType DEF MarkTransaction, CoverInv, RowsCovered, RowOK, Holding
  <1>2. RecordIsCovered'
    BY <1>1
    DEF TypeInv, TypeOK, MarkTransaction, CoverInv, RecordIsCovered, Covered, provider, history,
        Transaction
  <1>3. BackGrows /\ shared \subseteq shared'
    BY DEF TypeInv, TypeOK, MarkTransaction, BackGrows, provider, history
  <1>4. Alone(w) /\ pc'[w] = "settle"
    BY DEF TypeInv, TypeOK, MarkTransaction, Go, Alone
  <1>5. RowsCovered'
    BY <1>3, <1>4, NotHolding, OthersCovered DEF CoverInv, Holding
  <1>6. QED
    BY <1>2, <1>5 DEF CoverInv

\* The provider is asked before anything is recorded.
LEMMA CallCovered ==
  ASSUME TypeInv, TypeInv', CoverInv, NEW w \in Workers, Call(w)
  PROVE  CoverInv'
  <1>k. PICK k \in Transactions : k = job[w].txn
    BY CallGives
  <1>g. PICK g \in Nat : g = Given(k, job[w].amount)
    BY CallGives, GivenMoney, <1>k
  <1>1. /\ row[w].refunded \in Int /\ back[k] \in Nat /\ job[w].amount \in Int
        /\ job[w].kind \in {"refund", "approve"} /\ pc[w] = "call"
    BY <1>k, CallGives, HoldingType DEF Holding
  <1>2. k \notin shared' => k \notin shared /\ Covered(row[w], back[k]) /\ job[w].amount <= g
    <2>1. k \notin shared => Covered(row[w], back[k])
      BY <1>k, <1>1 DEF CoverInv, RowsCovered, RowOK, Holding
    <2>2. k \notin shared' => k \notin shared /\ ~Repeats(k)
      BY <1>k, CallGives
    <2>3. ~Repeats(k) => job[w].amount <= g
      BY <1>k, <1>g, CallGives, GivenMoney
    <2>4. QED
      BY <2>1, <2>2, <2>3
  <1>3. txns' = txns /\ shared \subseteq shared'
    BY <1>k, CallGives DEF tables
  <1>4. back' = back \/ back' = [back EXCEPT ![k] = @ + g]
    BY <1>k, <1>g, CallGives
  <1>5. BackGrows
    BY <1>1, <1>4 DEF TypeInv, TypeOK, BackGrows
  <1>6. RecordIsCovered'
    <2>1. ASSUME NEW t \in Transactions, txns[t] # None
          PROVE  txns[t].refunded \in Int /\ back[t] \in Nat /\ back'[t] \in Nat /\ back[t] <= back'[t]
      BY <1>5, <2>1 DEF TypeInv, TypeOK, Transaction, BackGrows
    <2>2. QED
      BY <1>3, <2>1, PriceAssumption DEF CoverInv, RecordIsCovered
  <1>7. Alone(w) /\ RowOK(w)'
    <2>1. CASE Finish(w)
      BY <2>1, FinishAlone, NotHolding DEF Holding
    <2>2. CASE ~Finish(w)
      <3>1. Proceed(w) /\ back' = [back EXCEPT ![k] = @ + g]
        BY <1>k, <1>g, <2>2, CallGives
      <3>2. back'[k] = back[k] + g
        BY <3>1 DEF TypeInv, TypeOK
      <3>3. Alone(w)
        BY <3>1, ProceedAlone
      <3>4. CASE pc'[w] = "idle"
        BY <3>3, <3>4, NotHolding DEF Holding
      <3>5. CASE pc'[w] # "idle"
        <4>1. job'[w] = job[w] /\ row'[w] = row[w]
          BY <3>1, <3>5, ProceedAlone
        <4>2. k \notin shared' => /\ Covered(row[w], back'[k])
                                  /\ row[w].refunded + job[w].amount <= back'[k]
          BY <1>1, <1>2, <3>2, PriceAssumption DEF Covered
        <4>3. QED
          BY <1>k, <3>3, <4>1, <4>2 DEF RowOK
      <3>6. QED
        BY <3>4, <3>5
    <2>3. QED
      BY <2>1, <2>2
  <1>8. RowsCovered'
    BY <1>3, <1>5, <1>7, OthersCovered DEF CoverInv
  <1>9. QED
    BY <1>6, <1>8 DEF CoverInv

\* What is recorded is what the row said before and what this handler sent.
LEMMA RecordCovered ==
  ASSUME TypeInv, TypeInv', CoverInv, NEW w \in Workers, Record(w)
  PROVE  CoverInv'
  <1>1. /\ job[w].txn \in Transactions /\ row[w] \in Transaction /\ row[w].refunded \in Int
        /\ back[job[w].txn] \in Nat /\ job[w].amount \in Int
        /\ job[w].kind \in {"refund", "approve"} /\ pc[w] = "record"
    BY HoldingType DEF Record, Holding, TypeInv, HandlerOK
  <1>2. /\ Total(w) \in Int
        /\ job[w].txn \notin shared =>
             Covered(row[w], back[job[w].txn]) /\ Total(w) <= back[job[w].txn]
    BY <1>1 DEF CoverInv, RowsCovered, RowOK, Holding, InFlight, Total
  <1>3. back' = back /\ shared' = shared
    BY DEF Record, provider
  <1>4. RecordIsCovered'
    <2> DEFINE t == job[w].txn
    <2>1. PICK x \in Transaction :
            /\ txns' = [txns EXCEPT ![t] = x]
            /\ x.refunded = Total(w)
            /\ x.status = "refunded" => Total(w) = Price \/ row[w].status = "refunded"
      BY RecordRow
    <2>2. t \notin shared => x.refunded <= back[t] /\ (x.status = "refunded" => back[t] >= Price)
      BY <1>1, <1>2, <2>1, PriceAssumption DEF Covered
    <2>3. QED
      BY <1>1, <1>3, <2>1, <2>2 DEF TypeInv, TypeOK, CoverInv, RecordIsCovered
  <1>5. BackGrows
    BY <1>3 DEF TypeInv, TypeOK, BackGrows
  <1>6. Alone(w) /\ pc'[w] \in {"idle", "log"}
    BY <1>1, ProceedAlone, AfterSteps DEF Record
  <1>7. RowsCovered'
    BY <1>3, <1>5, <1>6, NotHolding, OthersCovered DEF CoverInv, Holding
  <1>8. QED
    BY <1>4, <1>7 DEF CoverInv

\* The customer's payment, the time and a stutter touch no row and no refund.
LEMMA StillCovered ==
  ASSUME CoverInv, UNCHANGED <<txns, back, shared, pc, job, row>>
  PROVE  CoverInv'
  BY DEF CoverInv, RecordIsCovered, RowsCovered, RowOK, InFlight

\* Every step keeps the rows covered.
LEMMA CoverStep == TypeInv /\ TypeInv' /\ CoverInv /\ [Next]_vars => CoverInv'
  <1> SUFFICES ASSUME TypeInv, TypeInv', CoverInv, [Next]_vars PROVE CoverInv'
    OBVIOUS
  <1>1. CASE UNCHANGED vars \/ Tick \/ \E o \in Orders : Capture(o)
    <2>1. UNCHANGED <<txns, back, shared, pc, job, row>>
      BY <1>1 DEF Capture, Tick, vars, tables, provider, history
    <2>2. QED
      BY <2>1, StillCovered
  <1>2. ASSUME NEW w \in Workers,
               (\E kind \in Kinds : Receive(w, kind)) \/ (\E o \in Orders : Deliver(w, o)) \/ Fail(w)
        PROVE  CoverInv'
    BY <1>2, ReadCovered
  <1>3. ASSUME NEW w \in Workers, Serve(w) PROVE CoverInv'
    BY <1>3, ReadCovered, CommitPaymentCovered, MarkTransactionCovered, CallCovered, RecordCovered
    DEF Serve
  <1>4. QED
    BY <1>1, <1>2, <1>3 DEF Next

\* Whatever handlers overlap, fail or refund negative amounts, what a transaction
\* says went back did go back, unless a refund of it had a number used in the same
\* second: the provider is asked first and the sum is saved then, from a row whose
\* own refunds had gone back (refund and process, payments/api.py).
THEOREM RecordsCovered == Spec => []RecordIsCovered
  <1>1. Init => TypeInv /\ CoverInv
    BY TypeInit, CoverInit
  <1>2. (TypeInv /\ CoverInv) /\ [Next]_vars => (TypeInv /\ CoverInv)'
    BY TypeStep, CoverStep
  <1>3. TypeInv /\ CoverInv => RecordIsCovered
    BY DEF CoverInv
  <1>4. QED
    BY <1>1, <1>2, <1>3, PTL DEF Spec

-----------------------------------------------------------------------------
\* The transaction a handler turns to is one that others may know.
NamesKnown(w) ==
  \/ pc'[w] = "idle"
  \/ /\ pc[w] # "idle" /\ job'[w].txn = job[w].txn /\ (Paying(w)' => Paying(w))
  \/ /\ ~Paying(w)'
     /\ job'[w].txn \notin Transactions \/ txns[job'[w].txn] # None

\* A handler that pays has the key of a transaction without a row.
LEMMA PayingKey ==
  ASSUME TypeInv, Fresh, NEW w \in Workers, Paying(w)
  PROVE  /\ job[w].txn \in Transactions /\ pc[w] # "idle"
         /\ txns[job[w].txn] = None /\ back[job[w].txn] = 0
  BY DEF TypeInv, HandlerOK, Paying, Fresh

\* Steps that insert no transaction keep the keys of those to come unknown.
LEMMA FreshKept ==
  ASSUME TypeInv, Fresh, NEW w \in Workers, Alone(w), NamesKnown(w),
         \A t \in Transactions : txns'[t] = None <=> txns[t] = None,
         \A t \in Transactions : txns[t] = None => back'[t] = back[t]
  PROVE  Fresh'
  <1>1. \A t \in Transactions : txns'[t] = None => back'[t] = 0
    BY DEF Fresh
  <1>2. ASSUME NEW v \in Workers, Paying(v)' PROVE Paying(v) /\ job'[v].txn = job[v].txn
    BY <1>2 DEF Alone, NamesKnown, Paying
  <1>3. ASSUME NEW v \in Workers, Paying(v)' PROVE txns'[job'[v].txn] = None
    BY <1>2, <1>3, PayingKey
  <1>4. ASSUME NEW u \in Workers, NEW v \in Workers, u # v, Paying(v)', pc'[u] # "idle"
        PROVE  job'[u].txn # job'[v].txn
    <2>1. Paying(v) /\ job'[v].txn = job[v].txn
      BY <1>2, <1>4
    <2>2. CASE u # w
      BY <1>4, <2>1, <2>2 DEF Alone, Fresh
    <2>3. CASE u = w
      BY <1>4, <2>1, <2>3, PayingKey DEF NamesKnown, Fresh
    <2>4. QED
      BY <2>2, <2>3
  <1>5. QED
    BY <1>1, <1>3, <1>4 DEF Fresh

\* A new payment takes a key nobody has.
LEMMA ReceiveFresh ==
  ASSUME TypeInv, Fresh, NEW w \in Workers, NEW kind \in Kinds, Receive(w, kind)
  PROVE  Fresh'
  <1>1. PICK j \in Asked(kind) : job' = [job EXCEPT ![w] = j]
    BY DEF Receive
  <1>2. job'[w] = j /\ pc'[w] = FirstStep(kind) /\ Alone(w) /\ pc[w] = "idle"
        /\ txns' = txns /\ back' = back
    BY <1>1 DEF TypeInv, TypeOK, Receive, Alone, tables, provider
  <1>3. CASE kind = "pay"
    <2>1. /\ j.txn \in Transactions /\ txns[j.txn] = None
          /\ \A v \in Workers : pc[v] # "idle" => job[v].txn # j.txn
      BY <1>3, AskedType DEF FreshTransactions
    <2>2. \A v \in Workers \ {w} : pc'[v] = pc[v] /\ job'[v] = job[v]
      BY <1>2 DEF Alone
    <2>3. \A v \in Workers : Paying(v) => pc[v] # "idle"
      BY DEF Paying
    <2>4. QED
      BY <1>2, <2>1, <2>2, <2>3 DEF Fresh, Paying
  <1>4. CASE kind # "pay"
    <2>1. pc'[w] \in {"insert", "load"}
      BY <1>2, <1>4 DEF FirstStep
    <2>2. j.txn \notin Transactions \/ txns[j.txn] # None
      <3>1. CASE kind \in {"refund", "request"}
        BY <3>1, AskedType
      <3>2. CASE kind \in {"approve", "reject"}
        <4>1. PICK r \in Rows(requests) : j = Names(kind, None, None, r, 0, "wechat")
          BY <3>2 DEF Asked
        <4>2. QED
          BY <4>1, NoneIsNothing DEF Names
      <3>3. QED
        BY <1>4, <3>1, <3>2 DEF Kinds
    <2>3. NamesKnown(w)
      BY <1>2, <2>1, <2>2 DEF NamesKnown, Paying
    <2>4. QED
      BY <1>2, <2>3, FreshKept
  <1>5. QED
    BY <1>3, <1>4

\* An insert takes one such key, and only that.
LEMMA CommitPaymentFresh ==
  ASSUME TypeInv, Fresh, NEW w \in Workers, CommitPayment(w)
  PROVE  Fresh'
  <1> DEFINE k == job[w].txn
  <1>1. k \in Transactions /\ row[w] \in Transaction
    BY DEF TypeInv, HandlerOK, HasRow, CommitPayment
  <1>2. txns' = [txns EXCEPT ![k] = row[w]] /\ back' = back
    BY DEF CommitPayment
  <1>3. Alone(w) /\ pc'[w] = "idle"
    BY FinishAlone DEF CommitPayment
  <1>4. \A t \in Transactions : txns'[t] = None => back'[t] = 0
    BY <1>1, <1>2, NoneIsNothing DEF TypeInv, TypeOK, Fresh
  <1>5. \A v \in Workers : Paying(v)' => v # w /\ Paying(v) /\ pc'[v] = pc[v] /\ job'[v] = job[v]
    BY <1>3 DEF Paying, Alone
  <1>6. \A v \in Workers : Paying(v)' => job[v].txn # k
    BY <1>5 DEF Fresh, CommitPayment
  <1>7. \A v \in Workers : Paying(v)' => txns'[job'[v].txn] = None
    BY <1>1, <1>2, <1>5, <1>6, PayingKey DEF TypeInv, TypeOK
  <1>8. ASSUME NEW u \in Workers, NEW v \in Workers, u # v, Paying(v)', pc'[u] # "idle"
        PROVE  job'[u].txn # job'[v].txn
    <2>1. u # w /\ pc'[u] = pc[u] /\ job'[u] = job[u]
      BY <1>3, <1>8 DEF Alone
    <2>2. QED
      BY <1>5, <1>8, <2>1 DEF Fresh
  <1>9. QED
    BY <1>4, <1>7, <1>8 DEF Fresh

\* Other steps of a worker name what is known, and take no row away.
LEMMA ServeFresh ==
  ASSUME TypeInv, Fresh, NEW w \in Workers,
         (\E o \in Orders : Deliver(w, o)) \/ (Serve(w) /\ ~CommitPayment(w)) \/ Fail(w)
  PROVE  Fresh'
  <1> DEFINE Untouched == txns' = txns /\ back' = back
  <1>0. ASSUME Alone(w), NamesKnown(w), Untouched PROVE Fresh'
    BY <1>0, FreshKept
  <1>1. CASE \E o \in Orders : Deliver(w, o)
    <2>0. PICK o \in Orders : Deliver(w, o)
      BY <1>1
    <2>1. job'[w].txn = None /\ pc'[w] = "find" /\ Untouched /\ Alone(w)
      BY <1>1, <2>0, TakenAlone DEF TypeInv, TypeOK, Deliver, Names, tables, provider
    <2>2. NamesKnown(w)
      BY <2>1, NoneIsNothing DEF NamesKnown, Paying
    <2>3. QED
      BY <1>0, <2>1, <2>2
  <1>2. CASE Check(w)
    BY <1>0, <1>2, FinishAlone, GoAlone DEF Check, NamesKnown, Paying, tables, provider
  <1>3. CASE Prepay(w)
    BY <1>0, <1>3, PrepayAlone DEF Prepay, NamesKnown, Paying, tables, provider
  <1>4. CASE FindTransaction(w)
    BY <1>0, <1>4, FoundAlone DEF NamesKnown, Paying, tables, provider
  <1>5. CASE SettleOrder(w) \/ InsertRequest(w) \/ LogRefund(w) \/ Fail(w)
    BY <1>0, <1>5, FinishAlone
    DEF SettleOrder, InsertRequest, LogRefund, Fail, NamesKnown, tables, provider
  <1>6. CASE Load(w)
    BY <1>0, <1>6, LoadedAlone DEF NamesKnown, Paying, tables, provider
  <1>7. CASE SaveRequest(w) \/ CompleteRequest(w)
    <2>1. Finish(w) \/ Proceed(w)
      BY <1>7 DEF SaveRequest, CompleteRequest
    <2>2. pc[w] \in {"approve", "reject", "finish"} /\ Untouched
      BY <1>7 DEF SaveRequest, CompleteRequest, provider
    <2>3. Alone(w) /\ NamesKnown(w)
      <3>1. CASE Finish(w)
        BY <3>1, FinishAlone DEF NamesKnown
      <3>2. CASE Proceed(w) /\ ~Finish(w)
        <4>1. job[w].kind = "approve" /\ pc[w] \in {"approve", "finish"}
          BY <1>7, <3>2 DEF TypeInv, HandlerOK, SaveRequest, CompleteRequest
        <4>2. QED
          BY <2>2, <3>2, <4>1, ProceedAlone, AfterSteps DEF NamesKnown, Paying
      <3>3. QED
        BY <2>1, <3>1, <3>2
    <2>4. QED
      BY <1>0, <2>2, <2>3
  <1>8. CASE MarkTransaction(w)
    <2>1. /\ HasTarget(w) /\ HasRow(w)
          /\ txns' = [txns EXCEPT ![job[w].txn] = [row[w] EXCEPT !.status = "paid"]]
          /\ back' = back
      BY <1>8 DEF TypeInv, HandlerOK, MarkTransaction, provider
    <2>2. [row[w] EXCEPT !.status = "paid"] \in Transaction
      BY <2>1 DEF HasRow, Transaction
    <2>3. \A t \in Transactions : txns'[t] = None <=> txns[t] = None
      BY <2>1, <2>2, NoneIsNothing DEF TypeInv, TypeOK, HasTarget
    <2>4. Alone(w) /\ NamesKnown(w)
      BY <1>8 DEF TypeInv, TypeOK, MarkTransaction, Go, Alone, NamesKnown, Paying
    <2>5. QED
      BY <2>1, <2>3, <2>4, FreshKept
  <1>9. CASE Call(w)
    <2>1. txns' = txns /\ HasTarget(w) /\ job[w].kind \in {"refund", "approve"} /\ pc[w] = "call"
      BY <1>9, CallGives DEF tables
    <2>2. \A t \in Transactions : txns[t] = None => back'[t] = back[t]
      BY <1>9, <2>1, CallGives DEF TypeInv, TypeOK, HasTarget
    <2>3. Finish(w) \/ Proceed(w)
      BY <1>9 DEF Call
    <2>4. Alone(w) /\ NamesKnown(w)
      BY <2>1, <2>3, FinishAlone, ProceedAlone, AfterSteps DEF NamesKnown, Paying
    <2>5. QED
      BY <2>1, <2>2, <2>4, FreshKept
  <1>10. CASE Record(w)
    <2>1. /\ HasTarget(w) /\ job[w].kind \in {"refund", "approve"} /\ pc[w] = "record"
          /\ back' = back /\ Proceed(w)
      BY <1>10 DEF TypeInv, HandlerOK, Record, provider
    <2>2. \A t \in Transactions : txns'[t] = None <=> txns[t] = None
      <3>1. PICK x \in Transaction : txns' = [txns EXCEPT ![job[w].txn] = x]
        BY <1>10, RecordRow
      <3>2. QED
        BY <2>1, <3>1, NoneIsNothing DEF TypeInv, TypeOK, HasTarget
    <2>3. Alone(w) /\ NamesKnown(w)
      BY <2>1, ProceedAlone, AfterSteps DEF NamesKnown, Paying
    <2>4. QED
      BY <2>1, <2>2, <2>3, FreshKept
  <1>11. QED
    BY <1>1, <1>2, <1>3, <1>4, <1>5, <1>6, <1>7, <1>8, <1>9, <1>10 DEF Serve

\* Every step keeps the keys of transactions to come unknown.
LEMMA FreshStep == TypeInv /\ Fresh /\ [Next]_vars => Fresh'
  <1> SUFFICES ASSUME TypeInv, Fresh, [Next]_vars PROVE Fresh'
    OBVIOUS
  <1>1. CASE UNCHANGED vars \/ Tick \/ \E o \in Orders : Capture(o)
    <2>1. UNCHANGED <<txns, back, pc, job>>
      BY <1>1 DEF Capture, Tick, vars, tables, provider
    <2>2. QED
      BY <2>1 DEF Fresh, Paying
  <1>2. ASSUME NEW w \in Workers, NEW kind \in Kinds, Receive(w, kind) PROVE Fresh'
    BY <1>2, ReceiveFresh
  <1>3. ASSUME NEW w \in Workers, (\E o \in Orders : Deliver(w, o)) \/ Serve(w) \/ Fail(w)
        PROVE  Fresh'
    BY <1>3, CommitPaymentFresh, ServeFresh
  <1>4. QED
    BY <1>1, <1>2, <1>3 DEF Next

-----------------------------------------------------------------------------
\* What the table says of a transaction's refunds stays what it was.
SameRefunded(t) ==
  t \notin Loose =>
    \/ txns'[t] = txns[t]
    \/ txns[t] # None /\ txns'[t] # None /\ txns'[t].refunded = txns[t].refunded

\* A worker comes by the row of a transaction from the table, and has no money
\* on its way before and after, or keeps what it has.
SameHold(w, t) ==
  \/ /\ Uses(w, t)' => row'[w].refunded = txns[t].refunded
     /\ ~SentFor(w, t) /\ ~SentFor(w, t)'
  \/ /\ Uses(w, t) /\ Uses(w, t)' /\ (SentFor(w, t) <=> SentFor(w, t)')
     /\ row'[w] = row[w] /\ job'[w] = job[w]

\* A step that leaves a transaction's refunds alone keeps the account of it.
LEMMA SettledKept ==
  ASSUME TypeInv, NEW t \in Transactions, Settled(t), NEW w \in Workers, Alone(w),
         Loose \subseteq Loose', unchecked \subseteq unchecked', shared \subseteq shared',
         back'[t] = back[t], SameRefunded(t), SameHold(w, t) \/ t \in Loose'
  PROVE  Settled(t)'
  <1> SUFFICES ASSUME t \notin Loose' PROVE Settled(t)'
    BY DEF Settled
  <1>1. t \notin Loose /\ SameHold(w, t)
    OBVIOUS
  <1>t. \A x : Tells(t, x) => Tells(t, x)'
    BY DEF Tells
  <1>2. \A v \in Workers : v # w =>
          pc'[v] = pc[v] /\ job'[v] = job[v] /\ row'[v] = row[v]
    BY DEF Alone
  <1>3. \A v \in Workers : SentFor(v, t)' <=> SentFor(v, t)
    BY <1>1, <1>2 DEF SameHold, SentFor, InFlight
  <1>4. \A v \in Workers : SentFor(v, t) => row'[v] = row[v] /\ job'[v] = job[v]
    BY <1>1, <1>2 DEF SameHold
  <1>5. ASSUME NEW v \in Workers, Uses(v, t)' PROVE row'[v].refunded = txns[t].refunded
    <2>1. CASE v = w
      BY <1>1, <1>5, <2>1 DEF SameHold, Settled
    <2>2. CASE v # w
      BY <1>1, <1>2, <1>5, <2>2 DEF Settled, Uses
    <2>3. QED
      BY <2>1, <2>2
  <1>6. \A v \in Workers : Uses(v, t)' => row'[v].refunded = txns'[t].refunded
    BY <1>1, <1>5 DEF SameRefunded
  <1>7. \A u, v \in Workers : SentFor(u, t)' /\ SentFor(v, t)' => u = v
    BY <1>1, <1>3 DEF Settled
  <1>8. ASSUME NEW v \in Workers, SentFor(v, t)'
        PROVE  job'[v].amount >= 0 /\ Tells(t, row[v].refunded + job[v].amount)'
    <2>1. SentFor(v, t) /\ row'[v] = row[v] /\ job'[v] = job[v]
      BY <1>3, <1>4, <1>8
    <2>2. job[v].amount >= 0 /\ Tells(t, row[v].refunded + job[v].amount)
      BY <1>1, <2>1 DEF Settled
    <2>3. QED
      BY <1>t, <2>1, <2>2 DEF Tells
  <1>9. txns'[t] # None /\ (\A v \in Workers : ~SentFor(v, t)') => Tells(t, txns[t].refunded)'
    <2> SUFFICES ASSUME txns'[t] # None, \A v \in Workers : ~SentFor(v, t)'
                 PROVE  Tells(t, txns[t].refunded)'
      OBVIOUS
    <2>1. txns[t] # None /\ txns'[t].refunded = txns[t].refunded
      BY <1>1 DEF SameRefunded
    <2>2. Tells(t, txns[t].refunded)
      BY <1>1, <1>3, <2>1 DEF Settled
    <2>3. QED
      BY <2>1, <2>2 DEF Tells
  <1>10. t \notin unchecked' => back'[t] <= Price
    BY <1>1 DEF Settled
  <1>11. QED
    BY <1>6, <1>7, <1>8, <1>9, <1>10 DEF Settled

\* The other handlers' checks stand.
LEMMA CheckedKept ==
  ASSUME Checked, NEW w \in Workers, Alone(w),
         pc'[w] = "call" /\ job'[w].kind = "refund" => job'[w].amount <= Price - row'[w].refunded
  PROVE  Checked'
  BY DEF Checked, Alone

\* At the start every account is settled.
LEMMA PriceInit == Init => PriceInv
  <1> SUFFICES ASSUME Init PROVE PriceInv
    OBVIOUS
  <1>1. \A t \in Transactions : back[t] = 0 /\ (txns[t] # None => txns[t].refunded = 0)
    BY DEF Init
  <1>2. \A w \in Workers : pc[w] = "idle"
    BY DEF Init
  <1>3. QED
    BY <1>1, <1>2, PriceAssumption
    DEF PriceInv, Fresh, Checked, Settled, Tells, Paying, Uses, Using, SentFor, InFlight

\* Steps that bring a row from the table, or let go of one, without money on its way.
LEMMA ReadSettled ==
  ASSUME TypeInv, Checked, \A t \in Transactions : Settled(t), NEW w \in Workers,
         \/ \E kind \in Kinds : Receive(w, kind)
         \/ \E o \in Orders : Deliver(w, o)
         \/ Check(w) \/ Prepay(w) \/ FindTransaction(w) \/ SettleOrder(w)
         \/ InsertRequest(w) \/ LogRefund(w) \/ Load(w)
         \/ (SaveRequest(w) /\ Finish(w))
  PROVE  Checked' /\ \A t \in Transactions : Settled(t)'
  <1> DEFINE Quiet == UNCHANGED <<txns, back, slipped, unchecked, shared, lowered>> /\ Alone(w)
  <1>0. pc[w] \notin {"finish", "record"}
    BY DEF Receive, Deliver, Check, Prepay, FindTransaction, SettleOrder, InsertRequest,
           LogRefund, Load, SaveRequest
  <1>1. Quiet /\ (pc'[w] \notin Using
                  \/ /\ pc'[w] \in {"mark", "approve", "call"}
                     /\ row'[w] = txns[job'[w].txn]
                     /\ pc'[w] = "call" => Refundable(job'[w].txn, job'[w].amount))
    <2>1. CASE (\E kind \in Kinds : Receive(w, kind)) \/ (\E o \in Orders : Deliver(w, o))
      BY <2>1, TakenAlone DEF tables, provider, history, Using
    <2>2. CASE Check(w)
      BY <2>2, FinishAlone, GoAlone DEF Check, tables, provider, history, Using
    <2>3. CASE Prepay(w)
      BY <2>3, PrepayAlone DEF tables, provider, history, Using
    <2>4. CASE FindTransaction(w)
      BY <2>4, FoundAlone DEF tables, provider, history, Using
    <2>5. CASE SettleOrder(w) \/ InsertRequest(w) \/ LogRefund(w) \/ (SaveRequest(w) /\ Finish(w))
      BY <2>5, FinishAlone
      DEF SettleOrder, InsertRequest, LogRefund, SaveRequest, provider, history, Using
    <2>6. CASE Load(w)
      BY <2>6, LoadedAlone DEF tables, provider, history, Using
    <2>7. QED
      BY <2>1, <2>2, <2>3, <2>4, <2>5, <2>6
  <1>2. ASSUME NEW t \in Transactions PROVE Settled(t)'
    <2>1. SameHold(w, t)
      BY <1>0, <1>1 DEF SameHold, Uses, Using, SentFor, InFlight
    <2>2. SameRefunded(t)
      BY <1>1 DEF SameRefunded
    <2>3. QED
      BY <1>1, <2>1, <2>2, SettledKept DEF Loose
  <1>3. Checked'
    BY <1>1, CheckedKept DEF Refundable, Using
  <1>4. QED
    BY <1>2, <1>3

\* process goes on with the row it has.
LEMMA ProcessSettled ==
  ASSUME TypeInv, Checked, \A t \in Transactions : Settled(t), NEW w \in Workers,
         SaveRequest(w) \/ CompleteRequest(w)
  PROVE  Checked' /\ \A t \in Transactions : Settled(t)'
  <1>1. CASE SaveRequest(w) /\ Finish(w)
    BY <1>1, ReadSettled
  <1>2. CASE ~(SaveRequest(w) /\ Finish(w))
    <2>1. Proceed(w) /\ pc[w] \in {"approve", "finish"} /\ job[w].kind = "approve"
      BY <1>2 DEF TypeInv, HandlerOK, SaveRequest, CompleteRequest
    <2>2. UNCHANGED <<txns, back, slipped, unchecked, shared, lowered>>
      BY DEF SaveRequest, CompleteRequest, provider, history
    <2>3. /\ Alone(w) /\ pc'[w] = After("approve", pc[w])
          /\ job'[w] = job[w] /\ row'[w] = row[w]
      <3>1. After(job[w].kind, pc[w]) # "idle"
        BY <2>1, AfterSteps
      <3>2. Go(w, After(job[w].kind, pc[w])) /\ UNCHANGED row
        BY <2>1, <3>1 DEF Proceed
      <3>3. QED
        BY <2>1, <3>2, GoAlone
    <2>4. ASSUME NEW t \in Transactions PROVE Settled(t)'
      <3>1. SameHold(w, t) /\ SameRefunded(t)
        BY <2>1, <2>2, <2>3, AfterSteps
        DEF SameHold, SameRefunded, Uses, Using, SentFor, InFlight
      <3>2. QED
        BY <2>2, <2>3, <3>1, SettledKept DEF Loose
    <2>5. Checked'
      BY <2>1, <2>3, CheckedKept
    <2>6. QED
      BY <2>4, <2>5
  <1>3. QED
    BY <1>1, <1>2

\* A handler that is cut off with money on its way is counted as slipped.
LEMMA FailSettled ==
  ASSUME TypeInv, Checked, \A t \in Transactions : Settled(t), NEW w \in Workers, Fail(w)
  PROVE  Checked' /\ \A t \in Transactions : Settled(t)'
  <1>1. /\ Alone(w) /\ pc'[w] = "idle" /\ UNCHANGED <<txns, back, unchecked, shared>>
        /\ Loose \subseteq Loose' /\ slipped' \subseteq Loose'
    BY FinishAlone DEF Fail, tables, provider, Loose
  <1>2. ASSUME NEW t \in Transactions PROVE Settled(t)'
    <2>1. SameHold(w, t) \/ t \in Loose'
      BY <1>1 DEF Fail, SameHold, Uses, Using, SentFor, InFlight
    <2>2. SameRefunded(t)
      BY <1>1 DEF SameRefunded
    <2>3. QED
      BY <1>1, <2>1, <2>2, SettledKept
  <1>3. Checked'
    BY <1>1, CheckedKept
  <1>4. QED
    BY <1>2, <1>3

\* A new row starts with nothing given back, and nobody else has its key.
LEMMA CommitPaymentSettled ==
  ASSUME TypeInv, Fresh, Checked, \A t \in Transactions : Settled(t),
         NEW w \in Workers, CommitPayment(w)
  PROVE  Checked' /\ \A t \in Transactions : Settled(t)'
  <1>k. PICK k \in Transactions : k = job[w].txn
    BY DEF TypeInv, HandlerOK, HasRow, CommitPayment
  <1>1. /\ k \in Transactions /\ row[w] \in Transaction /\ row[w].refunded = 0
        /\ txns' = [txns EXCEPT ![k] = row[w]]
        /\ UNCHANGED <<back, slipped, unchecked, shared, lowered>>
    BY <1>k DEF TypeInv, HandlerOK, HasRow, CommitPayment, history
  <1>2. Alone(w) /\ pc'[w] = "idle" /\ pc[w] = "commit"
    BY FinishAlone DEF CommitPayment
  <1>3. back[k] = 0 /\ txns[k] = None
    BY <1>k, <1>2, PayingKey DEF Paying
  <1>4. ASSUME NEW t \in Transactions, t # k PROVE Settled(t)'
    <2>1. SameRefunded(t)
      BY <1>1, <1>4 DEF TypeInv, TypeOK, SameRefunded
    <2>2. SameHold(w, t)
      BY <1>k, <1>2, <1>4 DEF SameHold, Uses, Using, SentFor, InFlight
    <2>3. Loose \subseteq Loose' /\ back'[t] = back[t]
      BY <1>1 DEF Loose
    <2>4. QED
      BY <1>1, <1>2, <2>1, <2>2, <2>3, SettledKept
  <1>5. Settled(k)'
    <2>1. ASSUME NEW v \in Workers PROVE ~Uses(v, k)'
      BY <1>k, <1>2 DEF Uses, Using, Alone, Fresh, Paying
    <2>2. ASSUME NEW v \in Workers PROVE ~SentFor(v, k)'
      BY <2>1 DEF Uses, Using, SentFor, InFlight
    <2>3. txns'[k] = row[w] /\ back'[k] = 0
      BY <1>1, <1>3 DEF TypeInv, TypeOK
    <2>4. QED
      BY <1>1, <2>1, <2>2, <2>3, PriceAssumption DEF Settled, Tells
  <1>6. Checked'
    BY <1>2, CheckedKept
  <1>7. QED
    BY <1>4, <1>5, <1>6

\* A notice saves the refunds the row had.
LEMMA MarkTransactionSettled ==
  ASSUME TypeInv, Checked, \A t \in Transactions : Settled(t),
         NEW w \in Workers, MarkTransaction(w)
  PROVE  Checked' /\ \A t \in Transactions : Settled(t)'
  <1> DEFINE k == job[w].txn
             x == [row[w] EXCEPT !.status = "paid"]
  <1>1. HasTarget(w) /\ HasRow(w) /\ pc[w] = "mark"
        /\ txns' = [txns EXCEPT ![k] = x] /\ UNCHANGED <<back, slipped, unchecked, shared, lowered>>
    BY DEF TypeInv, HandlerOK, MarkTransaction, provider, history
  <1>2. x \in Transaction /\ x.refunded = row[w].refunded
    BY <1>1 DEF HasRow, Transaction
  <1>3. Alone(w) /\ pc'[w] = "settle"
    BY DEF TypeInv, TypeOK, MarkTransaction, Go, Alone
  <1>4. ASSUME NEW t \in Transactions PROVE Settled(t)'
    <2>1. SameRefunded(t)
      <3>1. CASE t # k
        BY <1>1, <3>1 DEF TypeInv, TypeOK, SameRefunded
      <3>2. CASE t = k /\ t \notin Loose
        <4>1. row[w].refunded = txns[k].refunded
          BY <1>1, <3>2 DEF Settled, Uses, Using
        <4>2. txns'[k] = x
          BY <1>1 DEF TypeInv, TypeOK, HasTarget
        <4>3. QED
          BY <1>1, <1>2, <3>2, <4>1, <4>2, NoneIsNothing DEF SameRefunded, HasTarget
      <3>3. QED
        BY <3>1, <3>2 DEF SameRefunded
    <2>2. SameHold(w, t)
      BY <1>1, <1>3 DEF SameHold, Uses, Using, SentFor, InFlight
    <2>3. Loose \subseteq Loose' /\ back'[t] = back[t]
      BY <1>1 DEF Loose
    <2>4. QED
      BY <1>1, <1>3, <2>1, <2>2, <2>3, SettledKept
  <1>5. Checked'
    BY <1>3, CheckedKept
  <1>6. QED
    BY <1>4, <1>5

\* Who uses a row has it in hand.
LEMMA UsesHas ==
  ASSUME TypeInv, NEW w \in Workers, NEW v \in Workers, v # w, NEW t \in Transactions,
         ~OthersHave(w, t)
  PROVE  ~Uses(v, t) /\ ~SentFor(v, t)
  <1>1. Uses(v, t) => InHand(v, t)
    BY NoneIsNothing DEF TypeInv, HandlerOK, HasRow, Uses, Using, InHand
  <1>2. SentFor(v, t) => Uses(v, t)
    BY DEF SentFor, InFlight, Uses, Using
  <1>3. QED
    BY <1>1, <1>2 DEF OthersHave

\* The sum is recorded: the table tells what went back, for the only handler.
LEMMA RecordSettled ==
  ASSUME TypeInv, Checked, \A t \in Transactions : Settled(t), NEW w \in Workers, Record(w)
  PROVE  Checked' /\ \A t \in Transactions : Settled(t)'
  <1>k. PICK k \in Transactions : k = job[w].txn
    BY DEF TypeInv, HandlerOK, HasRow, Record
  <1>1. PICK x \in Transaction : txns' = [txns EXCEPT ![k] = x] /\ x.refunded = Total(w)
    BY <1>k, RecordRow
  <1>2. HasTarget(w) /\ HasRow(w) /\ job[w].kind \in {"refund", "approve"}
    BY RecordRow
  <1>3. /\ UNCHANGED <<back, unchecked, shared>> /\ Loose \subseteq Loose' /\ pc[w] = "record"
        /\ OthersHave(w, k) => k \in Loose'
    BY <1>k DEF Record, provider, Loose
  <1>4. Alone(w) /\ pc'[w] \in {"idle", "log"}
    BY <1>2, <1>3, ProceedAlone, AfterSteps DEF Record
  <1>5. ASSUME NEW t \in Transactions, t # k PROVE Settled(t)'
    <2>1. SameRefunded(t)
      BY <1>1, <1>5 DEF TypeInv, TypeOK, SameRefunded
    <2>2. SameHold(w, t)
      BY <1>k, <1>3, <1>4, <1>5 DEF SameHold, Uses, Using, SentFor, InFlight
    <2>3. QED
      BY <1>3, <1>4, <2>1, <2>2, SettledKept
  <1>6. ASSUME k \notin Loose' PROVE Settled(k)'
    <2>1. k \in Transactions /\ k \notin Loose /\ ~OthersHave(w, k)
      BY <1>3, <1>6
    <2>2. ASSUME NEW v \in Workers PROVE ~Uses(v, k)' /\ ~SentFor(v, k)'
      <3>1. CASE v = w
        BY <1>4, <3>1 DEF Uses, Using, SentFor, InFlight
      <3>2. CASE v # w
        BY <1>4, <2>1, <3>2, UsesHas DEF Uses, SentFor, InFlight, Alone
      <3>3. QED
        BY <3>1, <3>2
    <2>3. Tells(k, Total(w)) /\ (k \notin unchecked => back[k] <= Price)
      BY <1>k, <1>3, <2>1 DEF Settled, SentFor, InFlight, Total
    <2>4. txns'[k] = x
      BY <1>1, <2>1 DEF TypeInv, TypeOK
    <2>5. QED
      BY <1>1, <1>3, <2>2, <2>3, <2>4 DEF Settled, Tells
  <1>7. ASSUME k \in Loose' PROVE Settled(k)'
    BY <1>7 DEF Settled
  <1>8. Checked'
    BY <1>4, CheckedKept
  <1>9. QED
    BY <1>5, <1>6, <1>7, <1>8

\* A refund that nobody slipped in on starts from what the table says.
LEMMA CallSettled ==
  ASSUME TypeInv, Checked, \A t \in Transactions : Settled(t), NEW w \in Workers, Call(w)
  PROVE  Checked' /\ \A t \in Transactions : Settled(t)'
  <1>k. PICK k \in Transactions : k = job[w].txn
    BY CallGives
  <1>x. PICK x \in Refunds : x = job[w].amount
    BY CallGives
  <1>g. PICK g \in Nat : g = Given(k, x)
    BY GivenMoney
  <1>1. /\ HasTarget(w) /\ job[w].kind \in {"refund", "approve"} /\ pc[w] = "call"
        /\ row[w].refunded \in Int /\ back[k] \in Nat /\ x \in Int
    BY <1>k, <1>x, CallGives, HoldingType DEF Holding
  <1>2. /\ txns' = txns /\ unchecked \subseteq unchecked' /\ shared \subseteq shared'
        /\ Loose \subseteq Loose' /\ slipped' \subseteq Loose'
        /\ job[w].kind = "approve" => k \in unchecked'
    BY <1>k, CallGives DEF tables, Loose
  <1>3. ASSUME NEW t \in Transactions PROVE SameRefunded(t)
    BY <1>2 DEF SameRefunded
  <1>4. Finish(w) \/ Proceed(w)
    BY CallGives
  <1>5. Alone(w) /\ pc'[w] \in {"idle", "finish", "record"}
    BY <1>1, <1>4, FinishAlone, ProceedAlone, AfterSteps
  <1>6. ASSUME NEW t \in Transactions, t # k PROVE Settled(t)'
    <2>1. back'[t] = back[t]
      BY <1>k, <1>6, CallGives DEF TypeInv, TypeOK
    <2>2. job'[w] = job[w] \/ pc'[w] = "idle"
      BY <1>4, FinishAlone, ProceedAlone
    <2>3. SameHold(w, t)
      BY <1>k, <1>1, <1>6, <2>2 DEF SameHold, Uses, Using, SentFor, InFlight
    <2>4. QED
      BY <1>2, <1>3, <1>5, <2>1, <2>3, SettledKept
  <1>7. ASSUME k \notin Loose' PROVE Settled(k)'
    <2>0. /\ k \in Transactions /\ k \notin Loose /\ k \notin slipped' /\ txns[k] # None
          /\ x >= 0
      BY <1>k, <1>x, <1>1, <1>2, <1>7, CallGives DEF HasTarget, Loose
    <2>1. CASE Finish(w)
      <3>1. back'[k] = back[k]
        <4>1. CASE back' = back
          BY <4>1
        <4>2. CASE back' # back /\ Proceed(w)
          <5>1. After(job[w].kind, pc[w]) # "idle"
            BY <1>1, AfterSteps
          <5>2. pc'[w] = After(job[w].kind, pc[w])
            BY <4>2, <5>1, GoAlone DEF Proceed
          <5>3. QED
            BY <2>1, <5>1, <5>2, FinishAlone
        <4>3. CASE back' # back /\ ~Proceed(w)
          BY <1>k, <2>0, <4>3, CallGives
        <4>4. QED
          BY <4>1, <4>2, <4>3
      <3>2. SameHold(w, k)
        BY <1>1, <2>1, FinishAlone DEF SameHold, Uses, Using, SentFor, InFlight
      <3>3. QED
        BY <1>2, <1>3, <1>5, <2>0, <3>1, <3>2, SettledKept
    <2>2. CASE ~Finish(w)
      <3>1. /\ Proceed(w) /\ back' = [back EXCEPT ![k] = @ + g]
            /\ ~OthersHave(w, k)
        BY <1>k, <1>x, <1>g, <2>0, <2>2, CallGives
      <3>2. back'[k] = back[k] + g
        BY <2>0, <3>1 DEF TypeInv, TypeOK
      <3>3. job'[w] = job[w] /\ row'[w] = row[w] /\ pc'[w] \in {"finish", "record"}
        BY <1>1, <2>2, <3>1, GoAlone, AfterSteps DEF Proceed
      <3>4. \A v \in Workers \ {w} : ~Uses(v, k)' /\ ~SentFor(v, k)'
        BY <1>5, <2>0, <3>1, UsesHas DEF Uses, SentFor, InFlight, Alone
      <3>5. \A v \in Workers : ~SentFor(v, k)
        BY <1>1, <2>0, <3>1, UsesHas DEF SentFor, InFlight
      <3>6. row[w].refunded = txns[k].refunded /\ Tells(k, row[w].refunded)
        BY <1>k, <1>1, <2>0, <3>5 DEF Settled, Uses, Using
      <3>7. g <= x /\ (k \notin shared' => g = x /\ k \notin shared)
        <4>1. g <= x /\ (~Repeats(k) => g = x)
          BY <1>g, <2>0, GivenMoney
        <4>2. k \notin shared' => ~Repeats(k) /\ k \notin shared
          BY <1>k, CallGives
        <4>3. QED
          BY <4>1, <4>2
      <3>8. Tells(k, row[w].refunded + job[w].amount)'
        BY <1>x, <1>1, <3>2, <3>3, <3>6, <3>7 DEF Tells
      <3>9. k \notin unchecked' => back'[k] <= Price
        <4>1. job[w].kind = "refund" => x <= Price - row[w].refunded
          BY <1>x, <1>1 DEF Checked
        <4>2. back[k] <= row[w].refunded
          BY <3>6 DEF Tells
        <4>3. QED
          BY <1>1, <1>2, <3>2, <3>7, <4>1, <4>2, PriceAssumption
      <3>10. SentFor(w, k)' /\ row'[w].refunded = txns'[k].refunded /\ job'[w].amount >= 0
        BY <1>k, <1>x, <1>2, <2>0, <3>3, <3>6 DEF SentFor, InFlight
      <3>11. QED
        BY <3>4, <3>8, <3>9, <3>10 DEF Settled, Tells
    <2>3. QED
      BY <2>1, <2>2
  <1>8. ASSUME k \in Loose' PROVE Settled(k)'
    BY <1>8 DEF Settled
  <1>9. Checked'
    BY <1>5, CheckedKept
  <1>10. QED
    BY <1>6, <1>7, <1>8, <1>9

\* Every step keeps the accounts.
LEMMA PriceStep == TypeInv /\ PriceInv /\ [Next]_vars => PriceInv'
  <1> SUFFICES ASSUME TypeInv, PriceInv, [Next]_vars
               PROVE  Checked' /\ \A t \in Transactions : Settled(t)'
    BY FreshStep DEF PriceInv
  <1>0. Fresh /\ Checked /\ \A t \in Transactions : Settled(t)
    BY DEF PriceInv
  <1>1. CASE UNCHANGED vars \/ Tick \/ \E o \in Orders : Capture(o)
    <2>1. UNCHANGED <<txns, back, pc, job, row, slipped, unchecked, shared, lowered>>
      BY <1>1 DEF Capture, Tick, vars, tables, provider, history
    <2>2. QED
      BY <1>0, <2>1 DEF Checked, Settled, Tells, Loose, Uses, SentFor, InFlight
  <1>2. ASSUME NEW w \in Workers,
               (\E kind \in Kinds : Receive(w, kind)) \/ (\E o \in Orders : Deliver(w, o))
        PROVE  Checked' /\ \A t \in Transactions : Settled(t)'
    BY <1>0, <1>2, ReadSettled
  <1>3. ASSUME NEW w \in Workers, Serve(w) \/ Fail(w)
        PROVE  Checked' /\ \A t \in Transactions : Settled(t)'
    BY <1>0, <1>3, ReadSettled, ProcessSettled, FailSettled, CommitPaymentSettled,
       MarkTransactionSettled, RecordSettled, CallSettled DEF Serve
  <1>4. QED
    BY <1>1, <1>2, <1>3 DEF Next

\* Refunds that are checked against the record of a transaction never exceed what
\* was paid for it, as long as no other handler had its row in hand meanwhile, the
\* provider's answers arrive and no refund of it is for a negative amount (refund,
\* payments/api.py).
THEOREM CheckedRefundsWithinPrice == Spec => []RefundsWithinPrice
  <1>1. Init => TypeInv /\ PriceInv
    BY TypeInit, PriceInit
  <1>2. (TypeInv /\ PriceInv) /\ [Next]_vars => (TypeInv /\ PriceInv)'
    BY TypeStep, PriceStep
  <1>3. TypeInv /\ PriceInv => RefundsWithinPrice
    BY DEF PriceInv, Settled, Loose, RefundsWithinPrice
  <1>4. QED
    BY <1>1, <1>2, <1>3, PTL DEF Spec

\* The handler that is under way accounts for what the record does not tell yet.
LEMMA InFlightMoney ==
  ASSUME TypeInv, PriceInv, NEW t \in Transactions \ (slipped \cup shared \cup lowered),
         txns[t] # None
  PROVE  back[t] = txns[t].refunded + Money(job, {w \in Workers : SentFor(w, t)})
<1> DEFINE S == {w \in Workers : SentFor(w, t)}
<1>1. /\ Settled(t) /\ t \notin Loose /\ t \notin shared
      /\ back[t] \in Nat /\ txns[t].refunded \in Int
  BY DEF PriceInv, TypeInv, TypeOK, Transaction, Loose
<1>2. CASE S = {}
  <2>1. back[t] = txns[t].refunded
    BY <1>1, <1>2 DEF Settled, Tells
  <2>2. Money(job, S) = 0
    <3> HIDE DEF S
    <3> QED
      BY <1>2, MoneyNone
  <2>3. back[t] = txns[t].refunded + Money(job, S)
    <3> HIDE DEF S
    <3> QED
      BY <1>1, <2>1, <2>2
  <2> QED
    BY <2>3
<1>3. CASE S # {}
  <2>1. PICK w \in Workers : SentFor(w, t)
    BY <1>3
  <2>2. S = {w}
    BY <1>1, <2>1 DEF Settled
  <2>3. job[w].amount \in Nat
    <3>1. job[w].amount \in Int
      BY <2>1, PriceAssumption DEF TypeInv, HandlerOK, SentFor, InFlight
    <3>2. job[w].amount >= 0
      BY <1>1, <2>1 DEF Settled
    <3> QED
      BY <3>1, <3>2
  <2>4. back[t] = txns[t].refunded + job[w].amount
    <3>1. back[t] = row[w].refunded + job[w].amount
      BY <1>1, <2>1 DEF Settled, Tells
    <3>2. Uses(w, t)
      BY <2>1 DEF Uses, SentFor, InFlight, Using
    <3> QED
      BY <1>1, <3>1, <3>2 DEF Settled
  <2>5. Money(job, {w}) = job[w].amount
    BY <2>3, MoneyOne
  <2> HIDE DEF S
  <2> QED
    BY <2>2, <2>4, <2>5 DEF S
<1> QED
  BY <1>2, <1>3

\* A transaction records what went back for it, but for the refund a handler is
\* about to record, unless another handler had its row in hand, the answer of the
\* provider was lost, a refund of it had a number used in the same second or one
\* of a negative amount was asked for (refund and process, payments/api.py).
THEOREM RecordsTell == Spec => []RecordTellsRefunds
<1>1. Init => TypeInv /\ PriceInv
  BY TypeInit, PriceInit
<1>2. (TypeInv /\ PriceInv) /\ [Next]_vars => (TypeInv /\ PriceInv)'
  BY TypeStep, PriceStep
<1>3. TypeInv /\ PriceInv => RecordTellsRefunds
  <2> SUFFICES ASSUME TypeInv, PriceInv,
                      NEW t \in Transactions \ (slipped \cup shared \cup lowered), txns[t] # None
               PROVE  back[t] = txns[t].refunded
                        + MapThenSumSet(LAMBDA w : job[w].amount,
                                        {w \in Workers : InFlight(w) /\ job[w].txn = t})
    BY DEF RecordTellsRefunds
  <2>1. back[t] = txns[t].refunded + Money(job, {w \in Workers : SentFor(w, t)})
    BY InFlightMoney
  <2> QED
    BY <2>1 DEF Money, SentFor
<1> QED
  BY <1>1, <1>2, <1>3, PTL DEF Spec
-----------------------------------------------------------------------------
(***************************************************************************)
(* Completed requests were paid                                             *)
(***************************************************************************)
\* Handlers that will insert a refund request, under a key of their own.
Filing(w) == pc[w] # "idle" /\ job[w].kind \in {"refund", "request"}

Filed(w) ==
  /\ Filing(w) => requests[job[w].request] = None
  /\ pc[w] = "insert" => Filing(w)

\* A request in process is for what its row says.
Described(w) ==
  pc[w] \in {"approve", "call", "finish"} /\ job[w].kind = "approve" =>
    /\ requests[job[w].request].txn = job[w].txn
    /\ requests[job[w].request].amount = job[w].amount

Unshared ==
  \A v, w \in Workers :
    v # w /\ Filing(w) /\ pc[v] # "idle" => job[v].request # job[w].request

KeysInv == Unshared /\ \A w \in Workers : Filed(w) /\ Described(w)

\* The money claimed to have gone back for a transaction under a request's key: by
\* the request, or by a handler that has sent it and is to say so.
Completed(t, r, x) ==
  /\ requests[r] # None /\ requests[r].status = "completed"
  /\ requests[r].txn = t /\ requests[r].amount = x /\ x > 0

Sent(w, t, r, x) ==
  /\ pc[w] = "finish" \/ (pc[w] \in {"record", "log"} /\ job[w].kind = "refund")
  /\ job[w].txn = t /\ job[w].request = r /\ job[w].amount = x /\ x > 0

Claim(t, r, x) == Completed(t, r, x) \/ \E w \in Workers : Sent(w, t, r, x)

\* What was claimed is covered, each key once, by what went back.
Covers(S, val, t) == \A r \in Requests : \A x : Claim(t, r, x) => r \in S /\ val[r] = x
Paid(t) ==
  \E S, val, u : SumsTo(u, S, val) /\ Counts(val, S) /\ u <= back[t] /\ Covers(S, val, t)

PaidInv == \A t \in Transactions \ shared : Paid(t)

\* A filing handler has a key, and a handler of a request its row.
LEMMA FilingKey ==
  ASSUME TypeInv, NEW w \in Workers, Filing(w)
  PROVE  job[w].request \in Requests
BY DEF TypeInv, TypeOK, HandlerOK, Filing, Steps

LEMMA ProcessedRow ==
  ASSUME TypeInv, NEW w \in Workers, pc[w] \in {"approve", "call", "finish"},
         job[w].kind = "approve"
  PROVE  job[w].request \in Requests /\ requests[job[w].request] # None
BY DEF TypeInv, HandlerOK, HasRequest

\* What a step of w may do to the requests, and to the keys it knows.
RequestsKept(w) ==
  \A r \in Requests :
    /\ requests[r] # None =>
         /\ requests'[r] # None
         /\ requests'[r].txn = requests[r].txn /\ requests'[r].amount = requests[r].amount
    /\ requests[r] = None /\ requests'[r] # None =>
         Filing(w) /\ job[w].request = r /\ pc'[w] = "idle"

KnownKey(w) ==
  \/ pc'[w] = "idle"
  \/ pc[w] # "idle" /\ job'[w].request = job[w].request /\ (Filing(w)' => Filing(w))
  \/ ~Filing(w)' /\ (job'[w].request \notin Requests \/ requests[job'[w].request] # None)
  \/ /\ requests[job'[w].request] = None
     /\ \A v \in Workers \ {w} : pc[v] # "idle" => job[v].request # job'[w].request

LEMMA KeysKept ==
  ASSUME TypeInv, TypeInv', KeysInv, NEW w \in Workers, Alone(w), RequestsKept(w), KnownKey(w),
         Described(w)', pc'[w] = "insert" => Filing(w)'
  PROVE  KeysInv'
<1>0. \A v \in Workers \ {w} : /\ pc'[v] = pc[v] /\ job'[v] = job[v]
                               /\ Filing(v)' <=> Filing(v)
  BY DEF Alone, Filing
<1>1. Unshared'
  <2> SUFFICES ASSUME NEW v \in Workers, NEW u \in Workers, v # u, Filing(u)', pc'[v] # "idle"
               PROVE  job'[v].request # job'[u].request
    BY DEF Unshared
  <2>1. CASE u # w /\ v # w
    BY <1>0, <2>1 DEF KeysInv, Unshared
  <2>2. CASE u # w /\ v = w
    <3>1. /\ Filing(u) /\ job'[u].request = job[u].request /\ requests[job[u].request] = None
          /\ job[u].request \in Requests /\ pc[u] # "idle"
      BY <1>0, <2>2, FilingKey DEF KeysInv, Filed, Filing
    <3>2. pc[w] # "idle" => job[w].request # job[u].request
      BY <2>2, <3>1 DEF KeysInv, Unshared
    <3> QED
      BY <2>2, <3>1, <3>2 DEF KnownKey
  <2>3. CASE u = w
    <3>1. pc[v] # "idle" /\ job'[v] = job[v] /\ v # w
      BY <1>0, <2>3
    <3>2. Filing(w) => job[v].request # job[w].request
      BY <3>1 DEF KeysInv, Unshared
    <3>3. pc'[w] # "idle"
      BY <2>3 DEF Filing
    <3> QED
      BY <2>3, <3>1, <3>2, <3>3 DEF KnownKey
  <2> QED
    BY <2>1, <2>2, <2>3
<1>2. ASSUME NEW v \in Workers, v # w PROVE Filed(v)' /\ Described(v)'
  <2>1. Filing(v)' => requests'[job'[v].request] = None
    <3> SUFFICES ASSUME Filing(v)' PROVE requests'[job'[v].request] = None
      OBVIOUS
    <3>1. /\ Filing(v) /\ job'[v].request = job[v].request /\ requests[job[v].request] = None
          /\ job[v].request \in Requests /\ pc[v] # "idle"
      BY <1>0, <1>2, FilingKey DEF KeysInv, Filed, Filing
    <3>2. Filing(w) => job[w].request # job[v].request
      BY <1>2, <3>1 DEF KeysInv, Unshared
    <3> QED
      BY <3>1, <3>2 DEF RequestsKept
  <2>2. Described(v)'
    BY <1>0, <1>2, ProcessedRow DEF KeysInv, Described, RequestsKept
  <2> QED
    BY <1>0, <1>2, <2>1, <2>2 DEF KeysInv, Filed
<1>3. Filed(w)'
  <2> SUFFICES ASSUME Filing(w)' PROVE requests'[job'[w].request] = None
    BY DEF Filed
  <2>1. pc'[w] # "idle" /\ job'[w].request \in Requests
    <3>1. (Filing(w) => job[w].request \in Requests)'
      BY FilingKey, PTL
    <3> QED
      BY DEF Filing, TypeInv, TypeOK, HandlerOK, Steps
  <2>2. requests[job'[w].request] = None
    BY <2>1 DEF KnownKey, KeysInv, Filed
  <2> QED
    BY <2>1, <2>2 DEF RequestsKept
<1> QED
  BY <1>1, <1>2, <1>3 DEF KeysInv

LEMMA QuietKeys ==
  ASSUME TypeInv, TypeInv', KeysInv, NEW w \in Workers, Alone(w), requests' = requests,
         KnownKey(w), Described(w)', pc'[w] = "insert" => Filing(w)'
  PROVE  KeysInv'
<1>1. RequestsKept(w)
  BY DEF RequestsKept
<1> QED
  BY <1>1, KeysKept

\* A handler goes on with the request it has.
LEMMA SameKey ==
  ASSUME NEW w \in Workers, pc[w] # "idle", job'[w] = job[w]
  PROVE  KnownKey(w)
BY DEF KnownKey, Filing

\* A worker that is done, or has not come to a request's row, describes none.
LEMMA NotProcessing ==
  ASSUME NEW w \in Workers, pc'[w] \notin {"approve", "call", "finish", "insert"}
  PROVE  Described(w)' /\ (pc'[w] = "insert" => Filing(w)')
BY DEF Described

LEMMA ReceiveKeys ==
  ASSUME TypeInv, TypeInv', KeysInv, NEW w \in Workers, NEW kind \in Kinds, Receive(w, kind)
  PROVE  KeysInv'
<1>1. PICK j \in Asked(kind) : job' = [job EXCEPT ![w] = j]
  BY DEF Receive
<1>2. /\ job'[w] = j /\ pc'[w] = FirstStep(kind) /\ pc'[w] # "idle"
      /\ requests' = requests /\ Alone(w) /\ j.kind = kind
  BY <1>1, AskedType DEF Receive, tables, TypeInv, TypeOK, FirstStep, Alone
<1>3. KnownKey(w)
  <2>1. CASE kind = "pay"
    <3>1. j.request = None
      BY <2>1 DEF Asked, Names
    <3> QED
      BY <1>2, <2>1, <3>1, NoneIsNothing DEF KnownKey, Filing
  <2>2. CASE kind \in {"refund", "request"}
    <3>1. j.request \in FreshRequests
      BY <2>2 DEF Asked, Names
    <3> QED
      BY <1>2, <3>1 DEF KnownKey, FreshRequests
  <2>3. CASE kind \in {"approve", "reject"}
    BY <1>2, <2>3, AskedType DEF KnownKey, Filing
  <2> QED
    BY <2>1, <2>2, <2>3 DEF Kinds
<1>4. pc'[w] \in {"check", "insert", "load"} /\ (pc'[w] = "insert" => kind = "request")
  BY <1>2 DEF FirstStep, Kinds
<1>5. Described(w)' /\ (pc'[w] = "insert" => Filing(w)')
  BY <1>2, <1>4 DEF Described, Filing
<1> QED
  BY <1>2, <1>3, <1>5, QuietKeys

LEMMA LoadKeys ==
  ASSUME TypeInv, TypeInv', KeysInv, NEW w \in Workers, Load(w)
  PROVE  KeysInv'
<1>0. pc[w] = "load" /\ Alone(w) /\ requests' = requests
  BY LoadedAlone DEF Load, tables
<1>1. CASE Finish(w)
  <2>1. pc'[w] = "idle"
    BY <1>1, FinishAlone
  <2> QED
    BY <1>0, <2>1, NotProcessing, QuietKeys DEF KnownKey
<1>2. CASE ~Finish(w)
  <2> DEFINE r == job[w].request
             direct == job[w].kind = "refund"
             t == IF direct THEN job[w].txn ELSE requests[r].txn
             x == IF direct THEN job[w].amount ELSE requests[r].amount
  <2>1. /\ pc' = [pc EXCEPT ![w] = After(job[w].kind, "load")]
        /\ job' = [job EXCEPT ![w].txn = t, ![w].amount = x]
    BY <1>2 DEF Load
  <2>2. job[w] \in Job /\ job[w].kind \in {"refund", "approve", "reject"}
    BY DEF TypeInv, HandlerOK, Load
  <2>3. job'[w] = [job[w] EXCEPT !.txn = t, !.amount = x]
    BY <2>1 DEF TypeInv, TypeOK
  <2>4. /\ job'[w].txn = t /\ job'[w].amount = x /\ job'[w].kind = job[w].kind
        /\ job'[w].request = r
    BY <2>2, <2>3 DEF Job
  <2>5. pc'[w] = (IF direct THEN "call" ELSE job[w].kind)
    BY <2>1 DEF TypeInv, TypeOK, After
  <2>6. KnownKey(w)
    BY <1>0, <2>4 DEF KnownKey, Filing
  <2>7. Described(w)' /\ pc'[w] # "insert"
    BY <1>0, <2>2, <2>4, <2>5 DEF Described
  <2> QED
    BY <1>0, <2>6, <2>7, QuietKeys
<1> QED
  BY <1>1, <1>2

LEMMA ProcessKeys ==
  ASSUME TypeInv, TypeInv', KeysInv, NEW w \in Workers, SaveRequest(w) \/ CompleteRequest(w)
  PROVE  KeysInv'
<1> DEFINE r == job[w].request
<1>0. r \in Requests /\ requests[r] \in RefundRequest /\ requests[r] # None
      /\ pc[w] \in {"approve", "reject", "finish"} /\ job[w].kind \in {"approve", "reject"}
  BY DEF SaveRequest, CompleteRequest, TypeInv, TypeOK, HandlerOK, HasRequest
<1>1. PICK status \in {"approved", "rejected", "completed"} :
        requests' = [requests EXCEPT ![r].status = status]
  BY DEF SaveRequest, CompleteRequest
<1>2. RequestsKept(w)
  <2>1. requests' = [requests EXCEPT ![r] = [requests[r] EXCEPT !.status = status]]
    BY <1>1
  <2>2. /\ [requests[r] EXCEPT !.status = status] \in RefundRequest
        /\ [requests[r] EXCEPT !.status = status].txn = requests[r].txn
        /\ [requests[r] EXCEPT !.status = status].amount = requests[r].amount
    BY <1>0, <1>1 DEF RefundRequest
  <2> HIDE DEF r
  <2> QED
    BY <1>0, <2>1, <2>2, NoneIsNothing DEF RequestsKept, TypeInv, TypeOK
<1>3. /\ Alone(w)
      /\ pc'[w] = "idle" \/ (job'[w] = job[w] /\ job[w].kind = "approve"
                             /\ pc'[w] \in {"call", "record"}
                             /\ (pc'[w] = "call" => pc[w] = "approve"))
  <2>1. CASE Finish(w)
    BY <2>1, FinishAlone
  <2>2. CASE ~Finish(w)
    <3>1. Proceed(w) /\ pc[w] \in {"approve", "finish"}
      BY <2>2 DEF SaveRequest, CompleteRequest
    <3>2. job[w].kind = "approve"
      BY <3>1 DEF TypeInv, HandlerOK
    <3> QED
      BY <2>2, <3>1, <3>2, ProceedAlone, AfterSteps
  <2> QED
    BY <2>1, <2>2
<1>4. KnownKey(w)
  BY <1>0, <1>3, SameKey DEF KnownKey
<1>5. Described(w)' /\ pc'[w] # "insert"
  <2>1. CASE pc'[w] = "call"
    <3>1. requests[r].txn = job[w].txn /\ requests[r].amount = job[w].amount
      BY <1>3, <2>1 DEF KeysInv, Described
    <3>2. requests'[r].txn = requests[r].txn /\ requests'[r].amount = requests[r].amount
      BY <1>0, <1>2 DEF RequestsKept
    <3> QED
      BY <1>3, <2>1, <3>1, <3>2 DEF Described
  <2>2. CASE pc'[w] # "call"
    BY <1>3, <2>2, NotProcessing
  <2> QED
    BY <2>1, <2>2
<1> QED
  BY <1>2, <1>3, <1>4, <1>5, KeysKept

\* A request's row is inserted by the handler that has its key.
LEMMA InsertKeys ==
  ASSUME TypeInv, TypeInv', KeysInv, NEW w \in Workers, InsertRequest(w) \/ LogRefund(w)
  PROVE  KeysInv'
<1> DEFINE r == job[w].request
<1>1. Filing(w) /\ r \in Requests /\ requests[r] = None
  <2>1. Filing(w)
    BY DEF InsertRequest, LogRefund, KeysInv, Filed, Filing, TypeInv, HandlerOK
  <2> QED
    BY <2>1, FilingKey DEF KeysInv, Filed
<1>2. Alone(w) /\ pc'[w] = "idle"
  BY FinishAlone DEF InsertRequest, LogRefund
<1>3. \A k \in Requests \ {r} : requests'[k] = requests[k]
  BY <1>1 DEF InsertRequest, LogRefund, TypeInv, TypeOK
<1>4. RequestsKept(w)
  BY <1>1, <1>2, <1>3 DEF RequestsKept
<1> QED
  BY <1>2, <1>4, NotProcessing, KeysKept DEF KnownKey

LEMMA KeysStep == TypeInv /\ TypeInv' /\ KeysInv /\ [Next]_vars => KeysInv'
<1> SUFFICES ASSUME TypeInv, TypeInv', KeysInv, [Next]_vars PROVE KeysInv'
  OBVIOUS
<1>0. ASSUME NEW w \in Workers, Alone(w), requests' = requests, pc[w] # "idle",
             \/ pc'[w] = "idle"
             \/ /\ job'[w].kind = job[w].kind /\ job'[w].request = job[w].request
                /\ pc'[w] \notin {"approve", "call", "finish", "insert"}
             \/ /\ job'[w] = job[w] /\ pc[w] = "call" /\ pc'[w] = "finish"
      PROVE  KeysInv'
  <2>1. KnownKey(w)
    BY <1>0 DEF KnownKey, Filing
  <2>2. Described(w)' /\ pc'[w] # "insert"
    BY <1>0 DEF Described, KeysInv
  <2> QED
    BY <1>0, <2>1, <2>2, QuietKeys
<1>1. CASE UNCHANGED vars \/ Tick \/ \E o \in Orders : Capture(o)
  <2>1. UNCHANGED <<requests, pc, job>>
    BY <1>1 DEF Capture, Tick, vars, tables
  <2> QED
    BY <2>1 DEF KeysInv, Unshared, Filed, Filing, Described
<1>2. ASSUME NEW w \in Workers, NEW o \in Orders, Deliver(w, o) PROVE KeysInv'
  <2>1. job'[w] = Names("notice", o, None, None, 0, "wechat") /\ pc'[w] = "find"
        /\ Alone(w) /\ requests' = requests
    BY <1>2, TakenAlone DEF Deliver, TypeInv, TypeOK, tables
  <2>2. KnownKey(w)
    BY <2>1, NoneIsNothing DEF KnownKey, Filing, Names
  <2> QED
    BY <2>1, <2>2, NotProcessing, QuietKeys
<1>3. ASSUME NEW w \in Workers,
             Check(w) \/ Prepay(w) \/ MarkTransaction(w) \/ CommitPayment(w)
               \/ SettleOrder(w) \/ Fail(w)
      PROVE  KeysInv'
  <2>1. Alone(w) /\ requests' = requests /\ pc[w] # "idle"
    BY <1>3, FinishAlone, GoAlone, PrepayAlone
       DEF Check, Prepay, MarkTransaction, CommitPayment, SettleOrder, Fail, Go, Alone,
           TypeInv, TypeOK, tables
  <2>2. pc'[w] = "idle" \/ (job'[w] = job[w] /\ pc'[w] \in {"prepay", "commit", "settle"})
    BY <1>3, FinishAlone, GoAlone, PrepayAlone
       DEF Check, MarkTransaction, CommitPayment, SettleOrder, Fail, Go, TypeInv, TypeOK
  <2> QED
    BY <1>0, <2>1, <2>2
<1>4. ASSUME NEW w \in Workers, FindTransaction(w) PROVE KeysInv'
  <2>1. Alone(w) /\ requests' = requests /\ pc[w] = "find" /\ job[w] \in Job
    BY <1>4, FoundAlone DEF FindTransaction, tables, TypeInv, HandlerOK
  <2>2. CASE Finish(w)
    BY <1>0, <2>1, <2>2, FinishAlone
  <2>3. CASE ~Finish(w)
    <3>1. PICK t \in Transactions :
            job' = [job EXCEPT ![w].txn = t] /\ pc' = [pc EXCEPT ![w] = "mark"]
      BY <1>4, <2>3 DEF FindTransaction
    <3>2. job'[w] = [job[w] EXCEPT !.txn = t] /\ pc'[w] = "mark"
      BY <3>1 DEF TypeInv, TypeOK
    <3>3. job'[w].kind = job[w].kind /\ job'[w].request = job[w].request
      BY <2>1, <3>2 DEF Job
    <3> QED
      BY <1>0, <2>1, <3>2, <3>3
  <2> QED
    BY <2>2, <2>3
<1>5. ASSUME NEW w \in Workers, Call(w) \/ Record(w) PROVE KeysInv'
  <2>1. /\ requests' = requests /\ pc[w] \in {"call", "record"}
        /\ job[w].kind \in {"refund", "approve"} /\ (Finish(w) \/ Proceed(w))
    BY <1>5 DEF Call, Record, tables, TypeInv, HandlerOK
  <2>2. /\ Alone(w)
        /\ pc'[w] = "idle" \/ (job'[w] = job[w]
             /\ (pc'[w] \in {"record", "log"} \/ (pc[w] = "call" /\ pc'[w] = "finish")))
    BY <2>1, FinishAlone, ProceedAlone, AfterSteps
  <2> QED
    BY <1>0, <2>1, <2>2
<1> QED
  BY <1>1, <1>2, <1>3, <1>4, <1>5, ReceiveKeys, LoadKeys, ProcessKeys, InsertKeys
     DEF Next, Serve

-----------------------------------------------------------------------------
\* Fewer claims, or more money back: still paid.
Subsumes(t) == \A r \in Requests : \A x : Claim(t, r, x)' => Claim(t, r, x)

LEMMA PaidKept ==
  ASSUME TypeInv, TypeInv', NEW t \in Transactions, Paid(t), Subsumes(t), back[t] <= back'[t]
  PROVE  Paid(t)'
<1>1. PICK S, val, u : SumsTo(u, S, val) /\ Counts(val, S) /\ u <= back[t] /\ Covers(S, val, t)
  BY DEF Paid
<1>2. u \in Int /\ back[t] \in Int /\ back'[t] \in Int
  BY <1>1, TotalTyped DEF TypeInv, TypeOK
<1>3. u <= back'[t]
  BY <1>1, <1>2
<1>4. Covers(S, val, t)'
  BY <1>1 DEF Covers, Subsumes
<1> QED
  BY <1>1, <1>3, <1>4 DEF Paid

\* A refund that is sent pays the claim it makes.
Adds(t, k, y) ==
  \A r \in Requests : \A x : Claim(t, r, x)' => IF r = k THEN x = y ELSE Claim(t, r, x)

LEMMA PaidAdds ==
  ASSUME TypeInv, TypeInv', NEW t \in Transactions, Paid(t), NEW k, NEW y \in Nat,
         Adds(t, k, y), back'[t] = back[t] + y
  PROVE  Paid(t)'
<1>1. PICK S, val, u : SumsTo(u, S, val) /\ Counts(val, S) /\ u <= back[t] /\ Covers(S, val, t)
  BY DEF Paid
<1> DEFINE T == S \cup {k}
           put == Put(val, S, k, y)
<1>2. PICK v : SumsTo(v, T, put) /\ v <= u + y
  BY <1>1, TotalPut
<1>3. Counts(put, T)
  BY <1>1, TotalPut
<1>4. v <= back'[t]
  <2>1. u \in Int /\ v \in Int /\ back[t] \in Int
    <3> HIDE DEF T, put
    <3> QED
      BY <1>1, <1>2, TotalTyped DEF TypeInv, TypeOK
  <2> QED
    BY <1>1, <1>2, <2>1
<1>5. Covers(T, put, t)'
  BY <1>1 DEF Covers, Adds, Put
<1> HIDE DEF T, put
<1> QED
  BY <1>2, <1>3, <1>4, <1>5 DEF Paid

\* A handler that sends no money and makes no claim of its own.
LEMMA NoClaim ==
  ASSUME NEW t \in Transactions, NEW w \in Workers, Alone(w),
         \A r \in Requests : \A x : Sent(w, t, r, x)' => Claim(t, r, x),
         \A r \in Requests : \A x : Completed(t, r, x)' => Claim(t, r, x)
  PROVE  Subsumes(t)
<1> SUFFICES ASSUME NEW r \in Requests, NEW x, Claim(t, r, x)' PROVE Claim(t, r, x)
  BY DEF Subsumes
<1>1. CASE Completed(t, r, x)'
  BY <1>1
<1>2. CASE \E v \in Workers : Sent(v, t, r, x)'
  <2>1. PICK v \in Workers : Sent(v, t, r, x)'
    BY <1>2
  <2>2. v # w => Sent(v, t, r, x)
    BY <2>1 DEF Alone, Sent
  <2> QED
    BY <2>1, <2>2 DEF Claim
<1> QED
  BY <1>1, <1>2 DEF Claim

\* Steps that leave the requests and the money alone, and are on no claim's way.
LEMMA QuietPaid ==
  ASSUME TypeInv, TypeInv', PaidInv, NEW w \in Workers, Alone(w), requests' = requests,
         back' = back, shared' = shared, pc'[w] \notin {"finish", "record", "log"}
  PROVE  PaidInv'
<1> SUFFICES ASSUME NEW t \in Transactions \ shared PROVE Paid(t)'
  BY DEF PaidInv
<1>1. \A r \in Requests : \A x : ~Sent(w, t, r, x)'
  BY DEF Sent
<1>2. \A r \in Requests : \A x : Completed(t, r, x)' => Claim(t, r, x)
  BY DEF Completed, Claim
<1>3. Subsumes(t)
  BY <1>1, <1>2, NoClaim
<1>4. back[t] <= back'[t]
  BY DEF TypeInv, TypeOK
<1> QED
  BY <1>3, <1>4, PaidKept DEF PaidInv

\* The claims a handler makes are of what is sent to its transaction.
LEMMA SentOnce ==
  ASSUME TypeInv, KeysInv, NEW w \in Workers, pc[w] = "call",
         NEW t \in Transactions, NEW x, Claim(t, job[w].request, x), t = job[w].txn
  PROVE  x = job[w].amount
<1>1. job[w].kind \in {"refund", "approve"}
  BY DEF TypeInv, HandlerOK
<1>2. CASE Completed(t, job[w].request, x)
  <2>1. job[w].kind = "approve"
    BY <1>1, <1>2 DEF Completed, KeysInv, Filed, Filing
  <2> QED
    BY <1>2, <2>1 DEF Completed, KeysInv, Described
<1>3. ASSUME NEW v \in Workers, Sent(v, t, job[w].request, x) PROVE x = job[w].amount
  <2>1. v # w /\ pc[v] # "idle" /\ pc[w] # "idle" /\ job[v].request = job[w].request
        /\ job[v].amount = x
    BY <1>3 DEF Sent
  <2>2. ~Filing(v) /\ ~Filing(w)
    BY <2>1 DEF KeysInv, Unshared
  <2>3. pc[v] = "finish" /\ job[v].kind = "approve" /\ job[w].kind = "approve"
    BY <1>1, <1>3, <2>1, <2>2 DEF Sent, Filing, TypeInv, HandlerOK
  <2> QED
    BY <2>1, <2>3 DEF KeysInv, Described
<1> QED
  BY <1>2, <1>3 DEF Claim

LEMMA CallPaid ==
  ASSUME TypeInv, TypeInv', KeysInv, PaidInv, NEW w \in Workers, Call(w)
  PROVE  PaidInv'
<1> SUFFICES ASSUME NEW t \in Transactions, t \notin shared' PROVE Paid(t)'
  BY DEF PaidInv
<1> DEFINE k == job[w].request
           y == job[w].amount
<1>g. PICK g \in Nat : g = Given(job[w].txn, y)
  BY CallGives, GivenMoney
<1>0. /\ pc[w] = "call" /\ job[w].txn \in Transactions /\ y \in Int
      /\ job[w].kind \in {"refund", "approve"} /\ requests' = requests
      /\ back[t] \in Nat /\ back'[t] \in Nat /\ t \notin shared
  BY CallGives, PriceAssumption DEF TypeInv, TypeOK, tables
<1>1. /\ Alone(w)
      /\ \/ pc'[w] = "idle"
         \/ job'[w] = job[w] /\ back' = [back EXCEPT ![job[w].txn] = @ + g]
  BY <1>0, <1>g, CallGives, FinishAlone, ProceedAlone
<1>2. back' = back \/ back' = [back EXCEPT ![job[w].txn] = @ + g]
  BY <1>g, CallGives
<1>3. \A r \in Requests : \A x : Completed(t, r, x)' => Claim(t, r, x)
  BY <1>0 DEF Completed, Claim
<1>4. CASE pc'[w] = "idle" \/ t # job[w].txn \/ ~(y > 0)
  <2>1. \A r \in Requests : \A x : ~Sent(w, t, r, x)'
    BY <1>1, <1>4 DEF Sent
  <2>2. Subsumes(t)
    BY <1>1, <1>3, <2>1, NoClaim
  <2>3. back[t] <= back'[t]
    BY <1>0, <1>2 DEF TypeInv, TypeOK
  <2> QED
    BY <1>0, <2>2, <2>3, PaidKept DEF PaidInv
<1>5. CASE pc'[w] # "idle" /\ t = job[w].txn /\ y > 0
  <2>0. g = y /\ y \in Nat
    BY <1>0, <1>g, <1>5, CallGives, GivenMoney
  <2>1. back'[t] = back[t] + y /\ job'[w] = job[w]
    BY <1>0, <1>1, <1>5, <2>0 DEF TypeInv, TypeOK
  <2>2. Adds(t, k, y)
    <3> SUFFICES ASSUME NEW r \in Requests, NEW x, Claim(t, r, x)'
                 PROVE  IF r = k THEN x = y ELSE Claim(t, r, x)
      BY DEF Adds
    <3>1. CASE Claim(t, r, x)
      BY <1>0, <1>5, <3>1, SentOnce
    <3>2. CASE ~Claim(t, r, x)
      <4>1. PICK v \in Workers : Sent(v, t, r, x)'
        BY <1>3, <3>2 DEF Claim
      <4>2. v = w
        BY <1>1, <3>2, <4>1 DEF Claim, Sent, Alone
      <4> QED
        BY <2>1, <4>1, <4>2 DEF Sent
    <3> QED
      BY <3>1, <3>2
  <2> QED
    BY <1>0, <2>0, <2>1, <2>2, PaidAdds DEF PaidInv
<1> QED
  BY <1>4, <1>5

\* The other steps of a refund turn a claim of the handler into one of its row.
LEMMA ClaimPaid ==
  ASSUME TypeInv, TypeInv', KeysInv, PaidInv, NEW w \in Workers,
         SaveRequest(w) \/ CompleteRequest(w) \/ InsertRequest(w) \/ LogRefund(w) \/ Record(w)
  PROVE  PaidInv'
<1>s. shared' = shared
  BY DEF SaveRequest, CompleteRequest, InsertRequest, LogRefund, Record, history
<1> SUFFICES ASSUME NEW t \in Transactions \ shared PROVE Paid(t)'
  BY <1>s DEF PaidInv
<1> DEFINE k == job[w].request
<1>0. Alone(w) /\ back' = back
  BY FinishAlone, ProceedAlone
     DEF SaveRequest, CompleteRequest, InsertRequest, LogRefund, Record, provider
<1>1. \A r \in Requests : \A x : Sent(w, t, r, x)' => Claim(t, r, x)
  <2>1. CASE Record(w)
    <3>1. pc[w] = "record" /\ Proceed(w) /\ job[w].kind \in {"refund", "approve"}
      BY <2>1 DEF Record, TypeInv, HandlerOK
    <3>2. pc'[w] = "idle" \/ (pc'[w] = "log" /\ job'[w] = job[w] /\ job[w].kind = "refund")
      BY <3>1, ProceedAlone, AfterSteps
    <3> QED
      BY <3>1, <3>2 DEF Sent, Claim
  <2>2. CASE InsertRequest(w) \/ LogRefund(w)
    BY <2>2, FinishAlone DEF InsertRequest, LogRefund, Sent
  <2>3. CASE SaveRequest(w) \/ CompleteRequest(w)
    <3>1. Finish(w) \/ (Proceed(w) /\ pc[w] \in {"approve", "finish"})
      BY <2>3 DEF SaveRequest, CompleteRequest
    <3>2. pc[w] \in {"approve", "finish"} => job[w].kind = "approve"
      BY DEF TypeInv, HandlerOK
    <3>3. \/ pc'[w] = "idle"
          \/ pc'[w] \in {"call", "record"} /\ job'[w].kind = "approve"
      BY <3>1, <3>2, FinishAlone, ProceedAlone, AfterSteps
    <3> QED
      BY <3>3 DEF Sent
  <2> QED
    BY <2>1, <2>2, <2>3
<1>2. ASSUME NEW r \in Requests, NEW x, Completed(t, r, x)' PROVE Claim(t, r, x)
  <2>1. CASE Record(w)
    BY <1>2, <2>1 DEF Record, Completed, Claim
  <2>2. CASE InsertRequest(w) \/ LogRefund(w)
    <3>1. k \in Requests
      BY <2>2 DEF InsertRequest, LogRefund, TypeInv, HandlerOK
    <3>2. CASE r # k
      BY <1>2, <2>2, <3>1, <3>2 DEF InsertRequest, LogRefund, Completed, Claim, TypeInv, TypeOK
    <3>3. CASE r = k
      <4>1. LogRefund(w) /\ job[w].txn = t /\ job[w].amount = x /\ x > 0
        BY <1>2, <2>2, <3>1, <3>3 DEF InsertRequest, LogRefund, Completed, TypeInv, TypeOK
      <4>2. pc[w] = "log" /\ job[w].kind = "refund"
        BY <4>1 DEF LogRefund, TypeInv, HandlerOK
      <4> QED
        BY <3>3, <4>1, <4>2 DEF Claim, Sent
    <3> QED
      BY <3>2, <3>3
  <2>3. CASE SaveRequest(w) \/ CompleteRequest(w)
    <3>1. /\ k \in Requests /\ requests[k] # None /\ requests[k] \in RefundRequest
      BY <2>3 DEF SaveRequest, CompleteRequest, TypeInv, TypeOK, HandlerOK, HasRequest
    <3>2. CASE r # k
      BY <1>2, <2>3, <3>1, <3>2 DEF SaveRequest, CompleteRequest, Completed, Claim, TypeInv, TypeOK
    <3>3. CASE r = k
      <4>1. CASE SaveRequest(w)
        BY <1>2, <3>1, <3>3, <4>1 DEF SaveRequest, Completed, TypeInv, TypeOK, RefundRequest
      <4>2. CASE CompleteRequest(w)
        <5>1. requests[k].txn = t /\ requests[k].amount = x /\ x > 0
          BY <1>2, <3>1, <3>3, <4>2 DEF CompleteRequest, Completed, TypeInv, TypeOK, RefundRequest
        <5>2. pc[w] = "finish" /\ job[w].kind = "approve"
          BY <4>2 DEF CompleteRequest, TypeInv, HandlerOK
        <5>3. job[w].txn = t /\ job[w].amount = x /\ x > 0
          BY <5>1, <5>2 DEF KeysInv, Described
        <5> QED
          BY <3>3, <5>2, <5>3 DEF Claim, Sent
      <4> QED
        BY <2>3, <4>1, <4>2
    <3> QED
      BY <3>2, <3>3
  <2> QED
    BY <2>1, <2>2, <2>3
<1>3. Subsumes(t)
  BY <1>0, <1>1, <1>2, NoClaim
<1>4. back[t] <= back'[t]
  BY <1>0 DEF TypeInv, TypeOK
<1> QED
  BY <1>3, <1>4, PaidKept DEF PaidInv

LEMMA PaidStep == TypeInv /\ TypeInv' /\ KeysInv /\ PaidInv /\ [Next]_vars => PaidInv'
<1> SUFFICES ASSUME TypeInv, TypeInv', KeysInv, PaidInv, [Next]_vars PROVE PaidInv'
  OBVIOUS
<1>1. CASE UNCHANGED vars \/ Tick \/ \E o \in Orders : Capture(o)
  <2>1. UNCHANGED <<requests, back, shared, pc, job>>
    BY <1>1 DEF Capture, Tick, vars, tables, provider, history
  <2>2. \A t \in Transactions : Subsumes(t) /\ back[t] <= back'[t]
    BY <2>1 DEF Subsumes, Claim, Completed, Sent, TypeInv, TypeOK
  <2> QED
    BY <2>1, <2>2, PaidKept DEF PaidInv
<1>2. ASSUME NEW w \in Workers,
             (\E kind \in Kinds : Receive(w, kind)) \/ (\E o \in Orders : Deliver(w, o))
               \/ FindTransaction(w) \/ Load(w) \/ Prepay(w)
      PROVE  PaidInv'
  <2>1. Alone(w) /\ requests' = requests /\ back' = back /\ shared' = shared
    BY <1>2, TakenAlone, FoundAlone, LoadedAlone, PrepayAlone DEF tables, provider, history
  <2>2. pc'[w] \notin {"finish", "record", "log"}
    BY <1>2, TakenAlone, FoundAlone, LoadedAlone, PrepayAlone
  <2> QED
    BY <2>1, <2>2, QuietPaid
<1>3. ASSUME NEW w \in Workers,
             Check(w) \/ MarkTransaction(w) \/ CommitPayment(w) \/ SettleOrder(w) \/ Fail(w)
      PROVE  PaidInv'
  <2>1. Alone(w) /\ requests' = requests /\ back' = back /\ shared' = shared
    BY <1>3, FinishAlone, GoAlone
       DEF Check, MarkTransaction, CommitPayment, SettleOrder, Fail, Go, Alone,
           TypeInv, TypeOK, tables, provider, history
  <2>2. pc'[w] \in {"idle", "prepay", "settle"}
    BY <1>3, FinishAlone, GoAlone
       DEF Check, MarkTransaction, CommitPayment, SettleOrder, Fail, Go, TypeInv, TypeOK
  <2> QED
    BY <2>1, <2>2, QuietPaid
<1> QED
  BY <1>1, <1>2, <1>3, CallPaid, ClaimPaid DEF Next, Serve

LEMMA PaidInit == Init => KeysInv /\ PaidInv
<1> SUFFICES ASSUME Init PROVE KeysInv /\ PaidInv
  OBVIOUS
<1>1. KeysInv
  BY DEF Init, KeysInv, Unshared, Filed, Filing, Described
<1>2. ASSUME NEW t \in Transactions PROVE Paid(t)
  <2>1. \A r \in Requests : \A x : ~Claim(t, r, x)
    BY DEF Init, Claim, Completed, Sent
  <2>2. IsFiniteSet({}) /\ Values(<<>>, {}) /\ Counts(<<>>, {})
    BY FS_EmptySet DEF Values, Counts
  <2>3. PICK u : SumsTo(u, {}, <<>>)
    BY <2>2, TotalExists
  <2>4. u = 0 /\ back[t] = 0
    BY <2>3, TotalNone DEF Init
  <2>5. Covers({}, <<>>, t)
    BY <2>1 DEF Covers
  <2> QED
    BY <2>2, <2>3, <2>4, <2>5 DEF Paid
<1> QED
  BY <1>1, <1>2 DEF PaidInv

\* The refund requests that say completed were paid, all of them, whatever handlers
\* overlap, fail or process a request again, unless a refund of the transaction had
\* a number used in the same second: the call of the provider comes before the
\* save() that completes the request (process and refund, payments/api.py).
THEOREM CompletedPaid == Spec => []CompletedWerePaid
<1>1. Init => TypeInv /\ KeysInv /\ PaidInv
  BY TypeInit, PaidInit
<1>2. (TypeInv /\ KeysInv /\ PaidInv) /\ [Next]_vars => (TypeInv /\ KeysInv /\ PaidInv)'
  BY TypeStep, KeysStep, PaidStep
<1>3. TypeInv /\ KeysInv /\ PaidInv => CompletedWerePaid
  <2> SUFFICES ASSUME TypeInv, PaidInv, NEW t \in Transactions \ shared
               PROVE  back[t] >= Money(requests, {r \in Requests : requests[r] # None
                                                    /\ requests[r].txn = t
                                                    /\ requests[r].status = "completed"
                                                    /\ requests[r].amount > 0})
    BY DEF CompletedWerePaid, Money
  <2> DEFINE R == {r \in Requests : requests[r] # None /\ requests[r].txn = t
                                    /\ requests[r].status = "completed"
                                    /\ requests[r].amount > 0}
             m == Money(requests, R)
  <2>1. PICK S, val, u :
          SumsTo(u, S, val) /\ Counts(val, S) /\ u <= back[t] /\ Covers(S, val, t)
    BY DEF PaidInv, Paid
  <2>2. \A r \in R : r \in S /\ val[r] = requests[r].amount /\ requests[r].amount \in Nat
    <3> SUFFICES ASSUME NEW r \in R
                 PROVE  r \in S /\ val[r] = requests[r].amount /\ requests[r].amount \in Nat
      OBVIOUS
    <3>1. Claim(t, r, requests[r].amount) /\ r \in Requests
      BY DEF Claim, Completed
    <3>2. requests[r] \in RefundRequest
      BY DEF TypeInv, TypeOK
    <3>3. requests[r].amount \in Nat
      <4>1. requests[r].amount \in Int
        BY <3>2, PriceAssumption DEF RefundRequest
      <4> QED
        BY <4>1
    <3> QED
      BY <2>1, <3>1, <3>3 DEF Covers
  <2> HIDE DEF R
  <2>3. Priced(requests, R) /\ R \subseteq S
    BY <2>1, <2>2, FS_Subset DEF Priced, SumsTo
  <2>4. SumsTo(m, R, Amount(requests, R)) /\ m \in Int
    BY <2>3, MoneyTotal, TotalTyped
  <2>5. \A r \in R : val[r] = Amount(requests, R)[r]
    BY <2>2 DEF Amount
  <2> HIDE DEF m
  <2>6. m <= u
    BY <2>1, <2>3, <2>4, <2>5, TotalMore
  <2>7. u \in Int /\ back[t] \in Int
    BY <2>1, TotalTyped DEF TypeInv, TypeOK
  <2>8. m <= back[t]
    BY <2>1, <2>4, <2>6, <2>7
  <2> QED
    BY <2>4, <2>7, <2>8 DEF m, R
<1> QED
  BY <1>1, <1>2, <1>3, PTL DEF Spec
=============================================================================
