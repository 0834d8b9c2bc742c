------------------------------ MODULE StockBook ------------------------------
(***************************************************************************)
(* What the shop promises about stock and orders, without workers, rows or  *)
(* transactions: an order takes its items from stock in the step that       *)
(* records it, a cancel puts the same items back in the step that closes    *)
(* it, a status change moves no stock, and the shop's staff may set stock   *)
(* as they like without touching orders.  Nothing is promised about the stock  *)
(* of a SKU once it is loose, nor about the status in which an order is     *)
(* cancelled once it is unsure.                                             *)
(***************************************************************************)
EXTENDS Integers, SequencesExt

CONSTANTS
  Skus, Orders, Quantities,
  Statuses,     \* statuses of a recorded order
  Cancellable,  \* statuses in which it may be cancelled
  MaxLines,     \* bound: items of one order
  InitialStock

VARIABLES
  stock,   \* [Skus -> Int]
  status,  \* [Orders -> Statuses \cup {"absent"}]
  lines,   \* [Orders -> sequence of [sku, qty]]
  returned,\* [Orders -> Nat]  how often the items have gone back to stock
  loose,   \* SUBSET Skus    SKUs whose stock is no longer accounted for
  unsure   \* SUBSET Orders  orders whose status is

vars == <<stock, status, lines, returned, loose, unsure>>

Line == [sku : Skus, qty : Quantities]

\* How much of a SKU a sequence of lines is about.
Quantity(items, s) ==
  MapThenSumSet(LAMBDA i : items[i].qty, {i \in DOMAIN items : items[i].sku = s})

Init ==
  /\ stock = [s \in Skus |-> InitialStock]
  /\ status = [o \in Orders |-> "absent"]
  /\ lines = [o \in Orders |-> <<>>]
  /\ returned = [o \in Orders |-> 0]
  /\ loose = {}
  /\ unsure = {}

\* The stock becomes what next says, but for SKUs that are loose by then.
Becomes(next) ==
  /\ stock' \in [Skus -> Int]
  /\ loose \subseteq loose'
  /\ \A s \in Skus \ loose' : stock'[s] = next[s]

Record(o, items, st) ==
  /\ status[o] = "absent"
  /\ status' = [status EXCEPT ![o] = st]
  /\ lines' = [lines EXCEPT ![o] = items]
  /\ unsure \subseteq unsure'
  /\ UNCHANGED returned

\* An order of the web shop takes what it lists, whether or not it is there.
Order(o, items) ==
  /\ Record(o, items, "pending")
  /\ Becomes([s \in Skus |-> stock[s] - Quantity(items, s)])

\* A sale at the till takes what it lists as far as it is there.
TillSale(o, items) ==
  /\ Record(o, items, "paid")
  /\ Becomes([s \in Skus |->
                IF \E i \in DOMAIN items : items[i].sku = s
                THEN Max({0, stock[s] - Quantity(items, s)}) ELSE stock[s]])

Cancel(o) ==
  /\ status[o] \in Cancellable \/ o \in unsure
  /\ status' = [status EXCEPT ![o] = "cancelled"]
  /\ Becomes([s \in Skus |-> stock[s] + Quantity(lines[o], s)])
  /\ returned' = [returned EXCEPT ![o] = @ + 1]
  /\ unsure \subseteq unsure'
  /\ UNCHANGED lines

SetStatus(o, st) ==
  /\ status[o] # "absent"
  /\ status' = [status EXCEPT ![o] = st]
  /\ unsure \subseteq unsure'
  /\ UNCHANGED <<stock, lines, returned, loose>>

AdjustStock ==
  /\ stock' \in [Skus -> Int]
  /\ loose \subseteq loose'
  /\ UNCHANGED <<status, lines, returned, unsure>>

Next ==
  \/ AdjustStock
  \/ \E o \in Orders :
       \/ Cancel(o)
       \/ \E st \in Statuses : SetStatus(o, st)
       \/ \E items \in BoundedSeq(Line, MaxLines) : Order(o, items) \/ TillSale(o, items)

Spec == Init /\ [][Next]_vars
=============================================================================
