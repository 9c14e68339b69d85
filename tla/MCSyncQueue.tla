----------------------------- MODULE MCSyncQueue -----------------------------
(* SyncQueue for TLC.  Tabs are interchangeable; entries are not, because the *)
(* drain pass takes them in key order.                                        *)
EXTENDS SyncQueue, TLC

Symmetry == Permutations(Tabs)
=============================================================================
