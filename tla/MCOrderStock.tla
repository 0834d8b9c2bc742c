---------------------------- MODULE MCOrderStock ----------------------------
(* Instances of OrderStock for TLC. *)
EXTENDS OrderStock

AllKinds == Kinds
CreateKind == {"create"}

\* A build in which a PUT of an order stops before it saves, as at this commit.
WithoutPut == Kinds \ {"edit_status"}

\* An order and what sets its status, in a build where all of it runs.
LifecycleKinds == {"create", "cancel", "update_status", "notice", "edit_status", "bulk_set"}

\* A stock set by hand, also to a number no shelf can hold.
HandValues == {-1, 1}

Symmetry == Permutations(Workers) \cup Permutations(Skus) \cup Permutations(Orders)
=============================================================================
