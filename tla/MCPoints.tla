------------------------------ MODULE MCPoints ------------------------------
(* Instances of Points for TLC. *)
EXTENDS Points, TLC
CONSTANTS s1, s2, silver, gold

AllKinds == Kinds

\* One shop gives silver early, the other late and gold for as much.
TwoScales ==
  (s1 :> {[level |-> Regular, min_points |-> 0], [level |-> silver, min_points |-> 3]})
  @@ (s2 :> {[level |-> Regular, min_points |-> 0], [level |-> silver, min_points |-> 4],
               [level |-> gold, min_points |-> 4]})

Symmetry == Permutations(Workers)
=============================================================================
