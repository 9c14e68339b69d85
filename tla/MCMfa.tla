-------------------------------- MODULE MCMfa --------------------------------
(* Mfa for TLC. *)
EXTENDS Mfa, TLC

Symmetry == Permutations(Tabs) \cup Permutations(Reqs)
=============================================================================
