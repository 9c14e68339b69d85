------------------------------- MODULE MCItems -------------------------------
(* Items for TLC. *)
EXTENDS Items, TLC

CONSTANTS l1, l2

(* Captured without a place; tagged, on the page of a new note that lists the  *)
(* folders of the location it showed before; and with the folder it showed,     *)
(* for the inbox.                                                               *)
MCNewItems == {[place |-> Inbox, tags |-> {}],
               [place |-> [loc |-> l1, folder |-> l2, spot |-> None], tags |-> Tags],
               [place |-> [loc |-> None, folder |-> l1, spot |-> None], tags |-> {}]}
MCFilings == [loc : Locs, folder : {Omit, None, l2}, spot : {Omit, l2}]

Symmetry == Permutations(Reqs)
=============================================================================
