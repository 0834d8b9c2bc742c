----------------------------- MODULE MCCoupons ------------------------------
(* An instance of Coupons for TLC. *)
EXTENDS Coupons, TLC

\* A total may also be negative by mistake.
SomeTotals == {-1, 1, 2}

Symmetry == Permutations(Workers) \cup Permutations(Users)
=============================================================================
