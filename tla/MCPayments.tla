----------------------------- MODULE MCPayments -----------------------------
(* Instances of Payments for TLC. *)
EXTENDS Payments

AllKinds == Kinds

\* One amount below zero, a part of the price and the whole of it.
SomeRefunds == {-1, 1, 2}
=============================================================================
