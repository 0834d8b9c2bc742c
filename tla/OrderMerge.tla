----------------------------- MODULE OrderMerge -----------------------------
(***************************************************************************)
(* Merging orders at the till while payments are recorded.                 *)
(*                                                                         *)
(* POSService.merge_orders moves the items of a list of orders to a main   *)
(* order, deletes the listed orders and saves the main order with a new    *)
(* subtotal, in one transaction that begins after the main order was       *)
(* fetched.  A payment notice (WechatPaymentService) fetches an order and  *)
(* saves all of it as paid, outside any transaction.  Both save() rows     *)
(* they read earlier, and a save() of a row that is gone inserts it again. *)
(*                                                                         *)
(* Workers move statement by statement.  A written row is locked until its *)
(* transaction ends; foreign keys are checked at the commit, as Django     *)
(* declares them.  Every item costs 1.                                     *)
(***************************************************************************)
EXTENDS Integers, FiniteSets, SequencesExt

CONSTANTS
  Workers, Orders, Items,
  None,
  MaxList,      \* bound: orders listed in one merge
  MaxRequests,  \* bound: requests served
  MaxFailures   \* bound: requests cut off

ASSUME NoneAssumption == None \notin Orders
ASSUME ItemsAssumption == IsFiniteSet(Items)
ASSUME BoundsAssumption ==
  MaxList \in Nat /\ MaxRequests \in Nat /\ MaxFailures \in Nat

\* An order's row, as far as these handlers write it.
Order == [subtotal : Nat, paid : BOOLEAN]
NoOrder == [subtotal |-> 0, paid |-> FALSE]

Kinds == {"merge", "pay"}
Job == [kind : Kinds, order : Orders, list : Seq(Orders)]
NoJob == [kind |-> "none"]

VARIABLES
  orders,      \* [Orders -> Order \cup {None}]  committed orders
  items,       \* [Items -> Orders \cup {None}]  committed order_items: their order
  pc,          \* [Workers -> step of the handler]
  job,         \* [Workers -> Job \cup {NoJob}]
  read,        \* [Workers -> Order]  the order object fetched first
  next,        \* [Workers -> Nat]  position in the list
  batch,       \* [Workers -> SUBSET Items]  item objects still to be moved
  sum,         \* [Workers -> Nat]  subtotal computed
  orderRows,   \* [Workers -> orders written, not committed, to their rows]
  itemRows,    \* [Workers -> items written, not committed, to their orders]
  served, failures,
  contended,   \* history: orders committed, ever, in somebody else's hands
  overtaken    \* history: the same, of the request each worker serves

tables == <<orders, items>>
txn == <<orderRows, itemRows>>
history == <<contended, overtaken>>
vars == <<tables, txn, history, pc, job, read, next, batch, sum, served, failures>>

-----------------------------------------------------------------------------
Empty == [x \in {} |-> None]
With(f, x, v) == [y \in DOMAIN f \cup {x} |-> IF y = x THEN v ELSE f[y]]

\* What a statement of w sees, and what the tables are once w has committed.
SeenOrder(w, o) == IF o \in DOMAIN orderRows[w] THEN orderRows[w][o] ELSE orders[o]
SeenItem(w, i) == IF i \in DOMAIN itemRows[w] THEN itemRows[w][i] ELSE items[i]
ItemsOf(w, o) == {i \in Items : SeenItem(w, i) = o}

\* Workers that hold the lock of a row.
OrderHolders(w, o) == {v \in Workers \ {w} : o \in DOMAIN orderRows[v]}
ItemHolders(w, S) == {v \in Workers \ {w} : S \cap DOMAIN itemRows[v] # {}}

Main(w) == job[w].order
Listed(w) == job[w].list[next[w]]

\* Orders that w's items refer to while another worker is deleting them.
Deleters(w) ==
  {v \in Workers \ {w} :
     \E i \in DOMAIN itemRows[w] :
       /\ itemRows[w][i] \in DOMAIN orderRows[v]
       /\ orderRows[v][itemRows[w][i]] = None}

WaitsFor(w) ==
  CASE pc[w] = "move" ->
         IF \A i \in batch[w] : ItemHolders(w, {i}) # {}
         THEN ItemHolders(w, batch[w]) ELSE {}
    [] pc[w] = "wipe"   -> ItemHolders(w, ItemsOf(w, Listed(w)))
    [] pc[w] = "drop"   -> OrderHolders(w, Listed(w))
    [] pc[w] \in {"save", "store"} -> OrderHolders(w, Main(w))
    [] pc[w] = "commit" -> Deleters(w)
    [] OTHER            -> {}

\* Mutant: nothing breaks a cycle of waiting workers.
NeverDeadlocked(w) == FALSE

Deadlocked(w) ==
  \E S \in SUBSET Workers :
    /\ w \in S
    /\ \A v \in S : WaitsFor(v) \cap S # {}
    /\ \A v \in S : \E u \in S : v \in WaitsFor(u)

-----------------------------------------------------------------------------
Init ==
  /\ items \in [Items -> Orders]
  /\ orders = [o \in Orders |-> [subtotal |-> Cardinality({i \in Items : items[i] = o}),
                                 paid |-> FALSE]]
  /\ pc = [w \in Workers |-> "idle"]
  /\ job = [w \in Workers |-> NoJob]
  /\ read = [w \in Workers |-> NoOrder]
  /\ next = [w \in Workers |-> 1]
  /\ batch = [w \in Workers |-> {}]
  /\ sum = [w \in Workers |-> 0]
  /\ orderRows = [w \in Workers |-> Empty]
  /\ itemRows = [w \in Workers |-> Empty]
  /\ served = 0 /\ failures = 0
  /\ contended = {}
  /\ overtaken = [w \in Workers |-> {}]

Finish(w) ==
  /\ pc' = [pc EXCEPT ![w] = "idle"]
  /\ job' = [job EXCEPT ![w] = NoJob]
  /\ read' = [read EXCEPT ![w] = NoOrder]
  /\ next' = [next EXCEPT ![w] = 1]
  /\ batch' = [batch EXCEPT ![w] = {}]
  /\ sum' = [sum EXCEPT ![w] = 0]
  /\ orderRows' = [orderRows EXCEPT ![w] = Empty]
  /\ itemRows' = [itemRows EXCEPT ![w] = Empty]

\* The orders a merge lists: one at least, the main order and repetitions allowed.
Lists(kind) == IF kind = "merge" THEN BoundedSeq(Orders, MaxList) \ {<<>>} ELSE {<<>>}

\* A notice may come for any order: transactions are made by other handlers.
Receive(w, kind, o) ==
  /\ pc[w] = "idle"
  /\ served < MaxRequests
  /\ served' = served + 1
  /\ \E list \in Lists(kind) :
       job' = [job EXCEPT ![w] = [kind |-> kind, order |-> o, list |-> list]]
  /\ pc' = [pc EXCEPT ![w] = "fetch"]
  /\ overtaken' = [overtaken EXCEPT ![w] = {}]
  /\ UNCHANGED <<tables, txn, contended, read, next, batch, sum, failures>>

\* The order named first, before any transaction: 404 if there is none.
Fetch(w) ==
  /\ pc[w] = "fetch"
  /\ \/ /\ orders[Main(w)] = None
        /\ Finish(w)
     \/ /\ orders[Main(w)] # None
        /\ read' = [read EXCEPT ![w] = orders[Main(w)]]
        /\ pc' = [pc EXCEPT ![w] = IF job[w].kind = "merge" THEN "next" ELSE "store"]
        /\ UNCHANGED <<txn, job, next, batch, sum>>
  /\ UNCHANGED <<tables, history, served, failures>>

\* The order at the next position of the list, if there still is one; its items
\* are fetched at once.
Found(w) == SeenOrder(w, Listed(w)) # None

NextOrder(w) ==
  LET more == next[w] <= Len(job[w].list) IN
  /\ pc[w] = "next"
  /\ \/ /\ ~more
        /\ pc' = [pc EXCEPT ![w] = "sum"]
        /\ UNCHANGED <<next, batch>>
     \/ /\ more
        /\ ~Found(w)
        /\ next' = [next EXCEPT ![w] = @ + 1]
        /\ UNCHANGED <<pc, batch>>
     \/ /\ more
        /\ Found(w)
        /\ batch' = [batch EXCEPT ![w] = ItemsOf(w, Listed(w))]
        /\ pc' = [pc EXCEPT ![w] = "move"]
        /\ UNCHANGED next
  /\ UNCHANGED <<tables, txn, history, job, read, sum, served, failures>>

\* Mutant: the items stay where they are.
MovedToListed(w) == Listed(w)

MovedTo(w) == Main(w)

\* item.order = main_order; item.save().
Move(w) ==
  /\ pc[w] = "move"
  /\ \/ /\ batch[w] = {}
        /\ pc' = [pc EXCEPT ![w] = "wipe"]
        /\ UNCHANGED <<batch, itemRows>>
     \/ \E i \in batch[w] :
          /\ ItemHolders(w, {i}) = {}
          /\ itemRows' = [itemRows EXCEPT ![w] = With(@, i, MovedTo(w))]
          /\ batch' = [batch EXCEPT ![w] = @ \ {i}]
          /\ UNCHANGED pc
  /\ UNCHANGED <<tables, history, job, read, next, sum, orderRows, served, failures>>

\* merge_order.delete(): first the items that refer to it by now ...
Wipe(w) ==
  LET doomed == ItemsOf(w, Listed(w)) IN
  /\ pc[w] = "wipe"
  /\ ItemHolders(w, doomed) = {}
  /\ itemRows' = [itemRows EXCEPT ![w] =
                    [i \in DOMAIN @ \cup doomed |-> IF i \in doomed THEN None ELSE @[i]]]
  /\ pc' = [pc EXCEPT ![w] = "drop"]
  /\ UNCHANGED <<tables, history, job, read, next, batch, sum, orderRows, served, failures>>

\* ... then the order itself.
Drop(w) ==
  /\ pc[w] = "drop"
  /\ OrderHolders(w, Listed(w)) = {}
  /\ orderRows' = [orderRows EXCEPT ![w] =
                     IF SeenOrder(w, Listed(w)) = None THEN @ ELSE With(@, Listed(w), None)]
  /\ next' = [next EXCEPT ![w] = @ + 1]
  /\ pc' = [pc EXCEPT ![w] = "next"]
  /\ UNCHANGED <<tables, history, job, read, batch, sum, itemRows, served, failures>>

\* _recalculate_order_amount reads the items of the main order ...
Sum(w) ==
  /\ pc[w] = "sum"
  /\ sum' = [sum EXCEPT ![w] = Cardinality(ItemsOf(w, Main(w)))]
  /\ pc' = [pc EXCEPT ![w] = "save"]
  /\ UNCHANGED <<tables, txn, history, job, read, next, batch, served, failures>>

\* Mutant: the main order is saved as it was read.
SavedStale(w) == read[w]

\* Mutant: a fresh order is saved in place of the one that was read.
SavedUnpaid(w) == [NoOrder EXCEPT !.subtotal = sum[w]]

\* ... and saves it, the columns it read first included.
Saved(w) == [read[w] EXCEPT !.subtotal = sum[w]]

Save(w) ==
  /\ pc[w] = "save"
  /\ OrderHolders(w, Main(w)) = {}
  /\ orderRows' = [orderRows EXCEPT ![w] = With(@, Main(w), Saved(w))]
  /\ pc' = [pc EXCEPT ![w] = "commit"]
  /\ UNCHANGED <<tables, history, job, read, next, batch, sum, itemRows, served, failures>>

\* Foreign keys at the end of the transaction.
ForeignKeysHold(w) ==
  /\ \A i \in DOMAIN itemRows[w] :
       itemRows[w][i] # None => SeenOrder(w, itemRows[w][i]) # None
  /\ \A o \in DOMAIN orderRows[w] : orderRows[w][o] = None => ItemsOf(w, o) = {}

\* The orders a worker has read and is still to act upon.
InHand(v) ==
  (IF pc[v] \in {"next", "move", "wipe", "drop", "sum", "save", "store"}
   THEN {Main(v)} ELSE {})
  \cup (IF pc[v] \in {"move", "wipe", "drop"} THEN {Listed(v)} ELSE {})

\* The orders whose row or items a request changes.
Touched(w) ==
  ({Main(w)} \cup DOMAIN orderRows[w]
   \cup UNION {{items[i], itemRows[w][i]} : i \in DOMAIN itemRows[w]}) \ {None}

\* What w commits in v's hands: an order v has read, or an order to which w moves an
\* item that v has fetched.
Crossed(w, v) ==
  (Touched(w) \cap InHand(v))
  \cup ({itemRows[w][i] : i \in DOMAIN itemRows[w] \cap batch[v]} \ {None})

Contend(w) ==
  /\ contended' = contended \cup UNION {Crossed(w, v) : v \in Workers \ {w}}
  /\ overtaken' = [v \in Workers |-> IF v = w THEN overtaken[v]
                                     ELSE overtaken[v] \cup Crossed(w, v)]

Commit(w) ==
  /\ pc[w] = "commit"
  /\ Deleters(w) = {}
  /\ \/ /\ ~ForeignKeysHold(w)
        /\ UNCHANGED <<tables, history>>
     \/ /\ ForeignKeysHold(w)
        /\ orders' = [o \in Orders |-> SeenOrder(w, o)]
        /\ items' = [i \in Items |-> SeenItem(w, i)]
        /\ Contend(w)
  /\ Finish(w)
  /\ UNCHANGED <<served, failures>>

PaidOrder(w) == [read[w] EXCEPT !.paid = TRUE]

\* The notice's order.save(), which commits at once.
Store(w) ==
  /\ pc[w] = "store"
  /\ OrderHolders(w, Main(w)) = {}
  /\ orders' = [orders EXCEPT ![Main(w)] = PaidOrder(w)]
  /\ Contend(w)
  /\ Finish(w)
  /\ UNCHANGED <<items, served, failures>>

DeadlockAbort(w) ==
  /\ Deadlocked(w)
  /\ Finish(w)
  /\ UNCHANGED <<tables, history, served, failures>>

Fail(w) ==
  /\ pc[w] # "idle"
  /\ failures < MaxFailures
  /\ failures' = failures + 1
  /\ Finish(w)
  /\ UNCHANGED <<tables, history, served>>

Serve(w) ==
  \/ Fetch(w) \/ NextOrder(w) \/ Move(w) \/ Wipe(w) \/ Drop(w)
  \/ Sum(w) \/ Save(w) \/ Commit(w) \/ Store(w) \/ DeadlockAbort(w)

Next ==
  \E w \in Workers :
    \/ \E kind \in Kinds, o \in Orders : Receive(w, kind, o)
    \/ Serve(w)
    \/ Fail(w)

Spec == Init /\ [][Next]_vars

\* Workers go on while they can, and a lock that is free again and again is had.
Waiting(w) == Move(w) \/ Wipe(w) \/ Drop(w) \/ Save(w) \/ Commit(w) \/ Store(w)
FairSpec == Spec /\ \A w \in Workers : WF_vars(Serve(w)) /\ SF_vars(Waiting(w))
-----------------------------------------------------------------------------
(***************************************************************************)
(* Properties                                                              *)
(***************************************************************************)
Steps == {"idle", "fetch", "next", "move", "wipe", "drop", "sum", "save", "commit", "store"}

\* The tables and the handlers' locals hold values of their kinds.
TypeOK ==
  /\ orders \in [Orders -> Order \cup {None}]
  /\ items \in [Items -> Orders \cup {None}]
  /\ pc \in [Workers -> Steps]
  /\ job \in [Workers -> Job \cup {NoJob}]
  /\ read \in [Workers -> Order]
  /\ next \in [Workers -> Nat]
  /\ batch \in [Workers -> SUBSET Items]
  /\ sum \in [Workers -> Nat]
  /\ \A w \in Workers :
       /\ DOMAIN orderRows[w] \subseteq Orders /\ DOMAIN itemRows[w] \subseteq Items
       /\ \A o \in DOMAIN orderRows[w] : orderRows[w][o] \in Order \cup {None}
       /\ \A i \in DOMAIN itemRows[w] : itemRows[w][i] \in Orders \cup {None}
  /\ contended \subseteq Orders /\ overtaken \in [Workers -> SUBSET Orders]

\* The subtotal of an order is the sum of its items, whatever was merged, rolled
\* back, deleted or inserted again (_recalculate_order_amount, pos/services.py), unless
\* some request, now or earlier, committed the order while another had read it and was
\* still to use it, or moved an item there which another had fetched for moving.
SubtotalsNeedContention ==
  \A o \in Orders \ contended :
    orders[o] # None => orders[o].subtotal = Cardinality({i \in Items : items[i] = o})

\* The orders of a merge whose main order is one it lists.
Swallowed(w) == IF Main(w) \in ToSet(job[w].list) THEN ToSet(job[w].list) ELSE {}

\* An item disappears only at the commit of a merge ("move all items to the main
\* order", merge_orders), and then from an order it lists together with its own main
\* order, or one that another request committed while this merge had it in hand, or to
\* which another request moved the item when this merge had fetched it.
LossNeedsContention ==
  [][\A i \in Items : items[i] # None /\ items'[i] = None =>
       \E w \in Workers : pc[w] = "commit" /\ pc'[w] = "idle"
                         /\ items[i] \in overtaken[w] \cup Swallowed(w)]_vars

\* A payment that is recorded stays recorded while the order exists, unless some
\* request, now or earlier, committed the order in another's hands.  A merge that
\* deletes a paid order deletes its payment with it: that is not this property's.
PaidStaysPaid ==
  [][\A o \in Orders \ contended' :
       orders[o] # None /\ orders'[o] # None /\ orders[o].paid => orders'[o].paid]_vars

\* Every request ends, also when merges lock each other's orders.
EveryRequestEnds == \A w \in Workers : pc[w] # "idle" ~> pc[w] = "idle"
=============================================================================
