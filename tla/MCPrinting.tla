----------------------------- MODULE MCPrinting -----------------------------
(* An instance of Printing for TLC. *)
EXTENDS Printing, TLC

AllKinds == Kinds \cup Single
TemplateKinds == TemplateSaves \cup {"create_template", "delete_template"}
Both == {"time", "timezone"}

Symmetry == Permutations(Workers) \cup Permutations(Templates) \cup Permutations(Tasks)
=============================================================================
