----------------------------- MODULE MCCheckout -----------------------------
(* Instances of Checkout for TLC. *)
EXTENDS Checkout

Symmetry == Permutations(Workers) \cup Permutations(Sessions)
=============================================================================
