------------------------------ MODULE CartBook ------------------------------
(***************************************************************************)
(* What a customer may rely on: products are added to a cart, their         *)
(* quantities changed and lines removed, and an order is for what the cart   *)
(* holds, which it empties.                                                *)
(***************************************************************************)
EXTENDS Integers, Sequences

CONSTANTS Products, Quantities

VARIABLES
  cart,   \* [Products -> Nat]
  orders  \* Seq([Products -> Nat])

vars == <<cart, orders>>

Empty == [p \in Products |-> 0]

Init == cart = Empty /\ orders = <<>>

Add(p, q) ==
  /\ cart' = [cart EXCEPT ![p] = @ + q]
  /\ UNCHANGED orders

Change(p, q) ==
  /\ cart[p] > 0
  /\ cart' = [cart EXCEPT ![p] = q]
  /\ UNCHANGED orders

Remove(p) ==
  /\ cart' = [cart EXCEPT ![p] = 0]
  /\ UNCHANGED orders

Clear ==
  /\ cart' = Empty
  /\ UNCHANGED orders

Checkout ==
  /\ orders' = Append(orders, cart)
  /\ cart' = Empty

Next ==
  \/ \E p \in Products : Remove(p) \/ \E q \in Quantities : Add(p, q) \/ Change(p, q)
  \/ Clear
  \/ Checkout

Spec == Init /\ [][Next]_vars
=============================================================================
