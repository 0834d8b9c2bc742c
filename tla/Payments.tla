------------------------------ MODULE Payments ------------------------------
(***************************************************************************)
(* Payment transactions, the provider's notices and refunds.               *)
(*                                                                         *)
(* Money moves at the provider (WeChat Pay, or the till for cash), its     *)
(* record in payment_transactions and refund_requests.  The handlers call  *)
(* the provider between their reads and their writes, and outside          *)
(* create_payment every save() commits on its own: a handler that is cut   *)
(* off leaves the provider and the tables where they are.  The provider    *)
(* repeats the notice of a payment until it is answered SUCCESS, and an    *)
(* answer may be lost.                                                     *)
(*                                                                         *)
(* All payments of an order carry its order_number as out_trade_no, and    *)
(* are for its whole price.  A refund carries the second it is asked for   *)
(* in as out_refund_no: the provider pays one refund of a second, and may  *)
(* answer another with it.                                                 *)
(***************************************************************************)
EXTENDS Integers, FiniteSets, FiniteSetsExt

CONSTANTS
  Workers,
  Orders,
  Transactions,  \* primary keys of payment_transactions
  Requests,      \* primary keys of refund_requests
  Price,         \* total_amount of an order
  Refunds,       \* amounts a refund may be asked for, of either sign
  Methods,       \* methods a transaction may have: "wechat", "cash"
  Offered,       \* kinds of request the clients send
  None,
  MaxRequests,   \* bound: requests of the shop's clients
  MaxRepeats,    \* bound: SUCCESS answers that do not reach the provider
  MaxFailures    \* bound: handlers cut off, calls of the provider that raise

Kinds == {"pay", "refund", "request", "approve", "reject"}
Services == {"wechat", "cash"}

ASSUME PriceAssumption == Price \in Nat /\ Refunds \subseteq Int
ASSUME KindsAssumption == Offered \subseteq Kinds /\ Methods \subseteq Services
ASSUME BoundsAssumption ==
  MaxRequests \in Nat /\ MaxRepeats \in Nat /\ MaxFailures \in Nat

\* The columns the handlers read or write.
Transaction == [order : Orders, method : Services,
                status : {"pending", "paid", "failed", "refunded"}, refunded : Int]
RefundRequest == [txn : Transactions, amount : Refunds,
                  status : {"pending", "approved", "rejected", "completed"}]

\* txn, request and order are None where the request names none.
Job == [kind : Kinds \cup {"notice"}, order : Orders \cup {None},
        txn : Transactions \cup {None}, request : Requests \cup {None},
        amount : Int, method : Services]

ASSUME NoneAssumption ==
  None \notin Orders \cup Transactions \cup Requests
              \cup Transaction \cup RefundRequest \cup Job

VARIABLES
  paid,      \* SUBSET Orders  orders with payment_status and status 'paid'
  txns,      \* [Transactions -> Transaction \cup {None}]
  requests,  \* [Requests -> RefundRequest \cup {None}]
  open,      \* SUBSET Orders  provider: what the customer has the means to pay
  notices,   \* SUBSET Orders  provider: paid for, notice not answered yet
  captured,  \* SUBSET Orders  provider: paid for
  back,      \* [Transactions -> Nat]  provider: money given back for it
  used,      \* BOOLEAN  provider: a refund has the number of this second
  pc,        \* [Workers -> step of the handler]
  job,       \* [Workers -> Job \cup {None}]
  row,       \* [Workers -> Transaction \cup {None}]  the transaction in hand
  served, repeats, failures,
  slipped,   \* history: transactions refunded behind another handler's back
  unchecked, \* history: transactions a request was approved for
  shared,    \* history: transactions refunded under a number that was used
  lowered    \* history: transactions refunded by a negative amount

tables == <<paid, txns, requests>>
provider == <<open, notices, captured, back, used>>
history == <<slipped, unchecked, shared, lowered>>
vars == <<tables, provider, history, pc, job, row, served, repeats, failures>>

-----------------------------------------------------------------------------
TransactionsOf(o) == {t \in Transactions : txns[t] # None /\ txns[t].order = o}

\* What was given back for an order.
GivenBack(o) == MapThenSumSet(LAMBDA t : back[t], TransactionsOf(o))

\* Handlers that have a transaction's row in hand and will save it.
InHand(w, t) == pc[w] # "idle" /\ job[w].txn = t /\ row[w] # None
OthersHave(w, t) == \E v \in Workers \ {w} : InHand(v, t)

\* Keys no row and no transaction in progress has.
FreshTransactions ==
  {t \in Transactions : txns[t] = None /\ \A w \in Workers : pc[w] # "idle" => job[w].txn # t}
FreshRequests ==
  {r \in Requests : requests[r] = None /\ \A w \in Workers : pc[w] # "idle" => job[w].request # r}

\* Mutant: the refund is recorded before the provider is asked for it.
AfterEarly(kind, step) ==
  CASE step = "load"    -> IF kind = "refund" THEN "record" ELSE kind
    [] step = "approve" -> "call"
    [] step = "call"    -> IF kind = "refund" THEN "log" ELSE "finish"
    [] step = "finish"  -> "record"
    [] step = "record"  -> IF kind = "refund" THEN "call" ELSE "idle"

\* Mutant: a request is completed first and paid then.
AfterFinished(kind, step) ==
  CASE step = "load"    -> IF kind = "refund" THEN "call" ELSE kind
    [] step = "approve" -> "finish"
    [] step = "finish"  -> "call"
    [] step = "call"    -> "record"
    [] step = "record"  -> IF kind = "refund" THEN "log" ELSE "idle"

\* The step of a refund, or of a request's processing, after another.
After(kind, step) ==
  CASE step = "load"    -> IF kind = "refund" THEN "call" ELSE kind
    [] step = "approve" -> "call"
    [] step = "call"    -> IF kind = "refund" THEN "record" ELSE "finish"
    [] step = "finish"  -> "record"
    [] step = "record"  -> IF kind = "refund" THEN "log" ELSE "idle"

\* Money has gone back and is still to be recorded.
InFlight(w) == pc[w] \in {"finish", "record"}

-----------------------------------------------------------------------------
\* Some orders are already paid for, each by one transaction.
Init ==
  /\ \E of \in [Transactions -> Orders \cup {None}] :
       /\ \A t, u \in Transactions : of[t] = of[u] /\ of[t] # None => t = u
       /\ paid = {of[t] : t \in Transactions} \ {None}
       /\ \E method \in Methods :
            /\ txns = [t \in Transactions |->
                         IF of[t] = None THEN None
                         ELSE [order |-> of[t], method |-> method,
                               status |-> "paid", refunded |-> 0]]
            /\ open = IF method = "wechat" THEN paid ELSE {}
  /\ captured = open
  /\ requests = [r \in Requests |-> None]
  /\ notices = {}
  /\ back = [t \in Transactions |-> 0]
  /\ used = FALSE
  /\ pc = [w \in Workers |-> "idle"]
  /\ job = [w \in Workers |-> None]
  /\ row = [w \in Workers |-> None]
  /\ served = 0 /\ repeats = 0 /\ failures = 0
  /\ slipped = {} /\ unchecked = {} /\ shared = {} /\ lowered = {}

Finish(w) ==
  /\ pc' = [pc EXCEPT ![w] = "idle"]
  /\ job' = [job EXCEPT ![w] = None]
  /\ row' = [row EXCEPT ![w] = None]

Go(w, step) ==
  /\ pc' = [pc EXCEPT ![w] = step]
  /\ UNCHANGED job

\* The handler goes on to the next of its steps, or is done.
Proceed(w) ==
  IF After(job[w].kind, pc[w]) = "idle" THEN Finish(w)
  ELSE Go(w, After(job[w].kind, pc[w])) /\ UNCHANGED row

Names(kind, o, t, r, x, method) ==
  [kind |-> kind, order |-> o, txn |-> t, request |-> r, amount |-> x, method |-> method]

Rows(table) == {k \in DOMAIN table : table[k] # None}

\* What the shop's clients may ask for.  The serializer of refund requests wants
\* a positive amount; a direct refund takes the number it is given.
Asked(kind) ==
  CASE kind = "pay" ->
         {Names(kind, o, t, None, 0, m) : o \in Orders, t \in FreshTransactions, m \in Methods}
    [] kind \in {"refund", "request"} ->
         {Names(kind, None, t, r, x, "wechat") :
            t \in Rows(txns), r \in FreshRequests,
            x \in {y \in Refunds : kind = "request" => y > 0}}
    [] OTHER ->
         {Names(kind, None, None, r, 0, "wechat") : r \in Rows(requests)}

FirstStep(kind) ==
  CASE kind = "pay" -> "check" [] kind = "request" -> "insert" [] OTHER -> "load"

Receive(w, kind) ==
  /\ pc[w] = "idle"
  /\ served < MaxRequests
  /\ kind \in Offered
  /\ served' = served + 1
  /\ \E j \in Asked(kind) : job' = [job EXCEPT ![w] = j]
  /\ pc' = [pc EXCEPT ![w] = FirstStep(kind)]
  /\ UNCHANGED <<tables, provider, history, row, repeats, failures>>

-----------------------------------------------------------------------------
(***************************************************************************)
(* Paying                                                                  *)
(***************************************************************************)
\* create_payment: the serializer fetches the order, which must be pending.
Check(w) ==
  /\ pc[w] = "check"
  /\ IF job[w].order \in paid THEN Finish(w)
     ELSE Go(w, "prepay") /\ UNCHANGED row
  /\ UNCHANGED <<tables, provider, history, served, repeats, failures>>

\* The transaction is inserted and the provider told; when the provider raises,
\* the row will say failed.
Prepay(w) ==
  LET fresh == [order |-> job[w].order, method |-> job[w].method,
                status |-> "pending", refunded |-> 0]
  IN
  /\ pc[w] = "prepay"
  /\ \/ /\ row' = [row EXCEPT ![w] = fresh]
        /\ UNCHANGED failures
     \/ /\ job[w].method = "wechat"
        /\ failures < MaxFailures
        /\ failures' = failures + 1
        /\ row' = [row EXCEPT ![w] = [fresh EXCEPT !.status = "failed"]]
  /\ Go(w, "commit")
  /\ UNCHANGED <<tables, provider, history, served, repeats>>

\* The answer follows the commit; with it, if it arrives, the customer can pay.
CommitPayment(w) ==
  LET o == job[w].order
      payable == row[w].method = "wechat" /\ row[w].status = "pending"
  IN
  /\ pc[w] = "commit"
  /\ txns' = [txns EXCEPT ![job[w].txn] = row[w]]
  /\ open' \in {open} \cup (IF payable THEN {open \cup {o}} ELSE {})
  /\ Finish(w)
  /\ UNCHANGED <<paid, requests, notices, captured, back, used, history,
                 served, repeats, failures>>

\* The customer pays; the provider takes one payment for an out_trade_no.
Capture(o) ==
  /\ o \in open \ captured
  /\ captured' = captured \cup {o}
  /\ notices' = notices \cup {o}
  /\ UNCHANGED <<tables, open, back, used, history, pc, job, row, served, repeats, failures>>

\* Its notice reaches a worker; one notice of a payment at a time.
Deliver(w, o) ==
  /\ pc[w] = "idle"
  /\ o \in notices
  /\ \A v \in Workers : pc[v] # "idle" => job[v].kind # "notice" \/ job[v].order # o
  /\ job' = [job EXCEPT ![w] = Names("notice", o, None, None, 0, "wechat")]
  /\ pc' = [pc EXCEPT ![w] = "find"]
  /\ UNCHANGED <<tables, provider, history, row, served, repeats, failures>>

\* The worker answers SUCCESS, unless that answer is lost.
Acknowledge(o) ==
  \/ notices' = notices \ {o} /\ UNCHANGED repeats
  \/ /\ repeats < MaxRepeats
     /\ repeats' = repeats + 1
     /\ UNCHANGED notices

\* Mutant: a notice is for a transaction that waits for it.
MatchingPending(o) == {t \in TransactionsOf(o) : txns[t].status = "pending"}

\* The transactions a notice finds by its number, whatever their status.
Matching(o) == TransactionsOf(o)

\* PaymentTransaction.objects.get(out_trade_no=...): none is FAIL, several raise,
\* and the notice comes again.
FindTransaction(w) ==
  LET found == Matching(job[w].order) IN
  /\ pc[w] = "find"
  /\ \/ /\ Cardinality(found) # 1
        /\ Finish(w)
     \/ \E t \in Transactions :
          /\ found = {t}
          /\ job' = [job EXCEPT ![w].txn = t]
          /\ row' = [row EXCEPT ![w] = txns[t]]
          /\ pc' = [pc EXCEPT ![w] = "mark"]
  /\ UNCHANGED <<tables, provider, history, served, repeats, failures>>

\* transaction.save(), refund_amount as it was read included.
MarkTransaction(w) ==
  LET t == job[w].txn IN
  /\ pc[w] = "mark"
  /\ txns' = [txns EXCEPT ![t] = [row[w] EXCEPT !.status = "paid"]]
  /\ row' = [row EXCEPT ![w] = None]
  /\ Go(w, "settle")
  /\ UNCHANGED <<paid, requests, provider, history, served, repeats, failures>>

\* order.save() and the answer.
SettleOrder(w) ==
  LET o == job[w].order IN
  /\ pc[w] = "settle"
  /\ paid' = paid \cup {o}
  /\ Acknowledge(o)
  /\ Finish(w)
  /\ UNCHANGED <<txns, requests, open, captured, back, used, history, served, failures>>

-----------------------------------------------------------------------------
(***************************************************************************)
(* Refunding                                                               *)
(***************************************************************************)
\* RefundRequestViewSet.create.
InsertRequest(w) ==
  /\ pc[w] = "insert"
  /\ requests' = [requests EXCEPT ![job[w].request] =
                    [txn |-> job[w].txn, amount |-> job[w].amount, status |-> "pending"]]
  /\ Finish(w)
  /\ UNCHANGED <<paid, txns, provider, history, served, repeats, failures>>

\* Mutant: what went back before is not counted.
RefundableWhole(t, x) == x <= Price

\* A direct refund is checked against the transaction it has read, from above only.
Refundable(t, x) == x <= Price - txns[t].refunded

\* get_object: the transaction, or the request with its transaction.
Load(w) ==
  LET r == job[w].request
      direct == job[w].kind = "refund"
      t == IF direct THEN job[w].txn ELSE requests[r].txn
      x == IF direct THEN job[w].amount ELSE requests[r].amount
  IN
  /\ pc[w] = "load"
  /\ \/ /\ direct /\ ~Refundable(t, x)
        /\ Finish(w)
     \/ /\ direct => Refundable(t, x)
        /\ pc' = [pc EXCEPT ![w] = After(job[w].kind, "load")]
        /\ job' = [job EXCEPT ![w].txn = t, ![w].amount = x]
        /\ row' = [row EXCEPT ![w] = IF job[w].kind = "reject" THEN None ELSE txns[t]]
  /\ UNCHANGED <<tables, provider, history, served, repeats, failures>>

\* process: the request's status is set from whatever it is.
SaveRequest(w) ==
  /\ pc[w] \in {"approve", "reject"}
  /\ requests' = [requests EXCEPT ![job[w].request].status =
                    IF pc[w] = "approve" THEN "approved" ELSE "rejected"]
  /\ IF pc[w] = "approve" THEN Proceed(w) ELSE Finish(w)
  /\ UNCHANGED <<paid, txns, provider, history, served, repeats, failures>>

\* The number of a refund is that of a refund of this second: it is answered with
\* that one, or refused.
Repeats(t) == used /\ txns[t].method = "wechat"

\* The provider refunds what it has and no more; the till takes any number, and
\* hands out nothing for a negative one.
Accepts(t, x) ==
  \/ txns[t].method = "cash"
  \/ Repeats(t) /\ x > 0
  \/ txns[t].order \in captured /\ x > 0 /\ GivenBack(txns[t].order) + x <= Price

Refuses(t, x) == txns[t].method = "wechat" /\ (Repeats(t) \/ ~Accepts(t, x))

\* The money that goes back for an accepted refund.
Given(t, x) == IF Repeats(t) \/ x < 0 THEN 0 ELSE x

Send(t, x) ==
  /\ back' = [back EXCEPT ![t] = @ + Given(t, x)]
  /\ used' = (used \/ txns[t].method = "wechat")

\* payment_service.refund: money goes back, the provider refuses, or the call
\* raises, in which case the money may have gone all the same.
Call(w) ==
  LET t == job[w].txn
      x == job[w].amount
  IN
  /\ pc[w] = "call"
  /\ \/ /\ Accepts(t, x)
        /\ Send(t, x)
        /\ slipped' = IF OthersHave(w, t) THEN slipped \cup {t} ELSE slipped
        /\ Proceed(w)
        /\ UNCHANGED failures
     \/ /\ Refuses(t, x)
        /\ Finish(w)
        /\ UNCHANGED <<back, used, slipped, failures>>
     \/ /\ txns[t].method = "wechat"
        /\ failures < MaxFailures
        /\ failures' = failures + 1
        /\ Finish(w)
        /\ \/ UNCHANGED <<back, used, slipped>>
           \/ /\ Accepts(t, x) /\ ~Repeats(t)
              /\ Send(t, x)
              /\ slipped' = slipped \cup {t}
  /\ unchecked' = IF job[w].kind = "approve" THEN unchecked \cup {t} ELSE unchecked
  /\ shared' = IF Repeats(t) THEN shared \cup {t} ELSE shared
  /\ lowered' = IF x < 0 THEN lowered \cup {t} ELSE lowered
  /\ UNCHANGED <<tables, open, notices, captured, served, repeats>>

\* The next second.
Tick ==
  /\ used
  /\ used' = FALSE
  /\ UNCHANGED <<tables, open, notices, captured, back, history,
                 pc, job, row, served, repeats, failures>>

\* process: the request is completed, before the transaction tells of it.
CompleteRequest(w) ==
  /\ pc[w] = "finish"
  /\ requests' = [requests EXCEPT ![job[w].request].status = "completed"]
  /\ Proceed(w)
  /\ UNCHANGED <<paid, txns, provider, history, served, repeats, failures>>

\* Mutant: the last refund is recorded instead of the sum.
TotalLast(w) == job[w].amount

\* What went back in all, by the row in hand.
Total(w) == row[w].refunded + job[w].amount

\* transaction.save(), which closes the transaction when all went back.
Record(w) ==
  LET t == job[w].txn IN
  /\ pc[w] = "record"
  /\ txns' = [txns EXCEPT ![t] =
                [row[w] EXCEPT !.refunded = Total(w),
                               !.status = IF Total(w) = Price THEN "refunded" ELSE @]]
  /\ slipped' = IF OthersHave(w, t) THEN slipped \cup {t} ELSE slipped
  /\ Proceed(w)
  /\ UNCHANGED <<paid, requests, provider, unchecked, shared, lowered,
                 served, repeats, failures>>

\* refund: a completed request is made for the files.
LogRefund(w) ==
  /\ pc[w] = "log"
  /\ requests' = [requests EXCEPT ![job[w].request] =
                    [txn |-> job[w].txn, amount |-> job[w].amount, status |-> "completed"]]
  /\ Finish(w)
  /\ UNCHANGED <<paid, txns, provider, history, served, repeats, failures>>

\* The process dies or the database goes away.
Fail(w) ==
  /\ pc[w] # "idle"
  /\ failures < MaxFailures
  /\ failures' = failures + 1
  /\ slipped' = IF InFlight(w) THEN slipped \cup {job[w].txn} ELSE slipped
  /\ Finish(w)
  /\ UNCHANGED <<tables, provider, unchecked, shared, lowered, served, repeats>>

Serve(w) ==
  \/ Check(w) \/ Prepay(w) \/ CommitPayment(w)
  \/ FindTransaction(w) \/ MarkTransaction(w) \/ SettleOrder(w)
  \/ InsertRequest(w) \/ Load(w) \/ SaveRequest(w)
  \/ Call(w) \/ CompleteRequest(w) \/ Record(w) \/ LogRefund(w)

Next ==
  \/ \E o \in Orders : Capture(o)
  \/ Tick
  \/ \E w \in Workers :
       \/ \E kind \in Kinds : Receive(w, kind)
       \/ \E o \in Orders : Deliver(w, o)
       \/ Serve(w)
       \/ Fail(w)

Spec == Init /\ [][Next]_vars

\* Handlers go on, and the provider repeats a notice until a worker takes it.
FairSpec ==
  /\ Spec
  /\ \A w \in Workers : WF_vars(Serve(w))
  /\ \A o \in Orders : SF_vars(\E w \in Workers : Deliver(w, o))
-----------------------------------------------------------------------------
(***************************************************************************)
(* Properties                                                              *)
(***************************************************************************)
Steps == {"idle", "check", "prepay", "commit", "find", "mark", "settle", "insert",
          "load", "approve", "reject", "call", "finish", "record", "log"}

\* The tables, the provider and the handlers hold values of their kinds.
TypeOK ==
  /\ paid \subseteq Orders
  /\ txns \in [Transactions -> Transaction \cup {None}]
  /\ requests \in [Requests -> RefundRequest \cup {None}]
  /\ open \subseteq Orders /\ notices \subseteq Orders /\ captured \subseteq Orders
  /\ back \in [Transactions -> Nat]
  /\ used \in BOOLEAN
  /\ pc \in [Workers -> Steps]
  /\ job \in [Workers -> Job \cup {None}]
  /\ row \in [Workers -> Transaction \cup {None}]
  /\ served \in Nat /\ repeats \in Nat /\ failures \in Nat
  /\ slipped \subseteq Transactions /\ unchecked \subseteq Transactions
  /\ shared \subseteq Transactions /\ lowered \subseteq Transactions

\* A transaction records what went back for it, as soon as the handler that sent
\* the money has had its turn, unless another handler had the row in hand, the
\* answer of the provider was lost, a refund of it had a number used in the same
\* second, or one of a negative amount was asked for (refund and process,
\* payments/api.py).
RecordTellsRefunds ==
  \A t \in Transactions \ (slipped \cup shared \cup lowered) :
    txns[t] # None =>
      back[t] = txns[t].refunded
                + MapThenSumSet(LAMBDA w : job[w].amount,
                                {w \in Workers : InFlight(w) /\ job[w].txn = t})

\* What a transaction says went back did go back, whatever handlers overlap, fail
\* or refund negative amounts: neither its refund_amount nor its status refunded
\* tells of money that is still at the provider (transaction.save() after
\* payment_service.refund).  Not so when a refund of it had a number used in the
\* same second.
RecordIsCovered ==
  \A t \in Transactions \ shared :
    txns[t] # None =>
      /\ txns[t].refunded <= back[t]
      /\ txns[t].status = "refunded" => back[t] >= Price

\* Completed refund requests were paid, all of them: what went back for a
\* transaction is at least what they add up to, those for negative amounts left
\* out (process and refund, payments/api.py, which complete a request in a save()
\* of its own).  Not so when a refund of the transaction had a number used in the
\* same second.
CompletedWerePaid ==
  \A t \in Transactions \ shared :
    back[t] >= MapThenSumSet(LAMBDA r : requests[r].amount,
                             {r \in Requests : requests[r] # None
                                               /\ requests[r].txn = t
                                               /\ requests[r].status = "completed"
                                               /\ requests[r].amount > 0})

\* No more goes back for a transaction than was paid, by refunds that are checked
\* against its record and that no other handler overlapped, as long as none is for
\* a negative amount, which the check lets through (refund, payments/api.py);
\* numbers that repeat are not exempt.
RefundsWithinPrice ==
  \A t \in Transactions \ (slipped \cup unchecked \cup lowered) : back[t] <= Price

\* A payment that was made is recorded on its order, through answers that are
\* lost, refunds that overlap and a crash between the two saves, unless the order
\* has a second transaction (_process_payment_result, payments/services.py).
PaymentRecorded ==
  \A o \in Orders :
    o \in notices ~> o \in paid \/ Cardinality(TransactionsOf(o)) > 1
=============================================================================
