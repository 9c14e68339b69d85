-------------------------------- MODULE MCTeam --------------------------------
(* Team for TLC: the requests are interchangeable, the people but the founder are too. *)
EXTENDS Team, TLC

Symmetry == Permutations(Requests) \cup Permutations(People \ {Founder})
=============================================================================
