---------------------------- MODULE MCOrderMerge ----------------------------
(* OrderMerge for TLC: the constants are all in the .cfg. *)
EXTENDS OrderMerge
=============================================================================
