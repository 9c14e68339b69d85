------------------------------ MODULE MCSessions ------------------------------
(* Sessions for TLC. *)
EXTENDS Sessions, TLC

Symmetry == Permutations(Tabs) \cup Permutations(Calls)
=============================================================================
