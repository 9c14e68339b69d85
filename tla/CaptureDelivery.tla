--------------------------- MODULE CaptureDelivery ---------------------------
(***************************************************************************)
(* What the offline outbox promises (the comment above outboxDb in         *)
(* lib/outboxDb.ts): a capture, once written to the device, stays on the   *)
(* device until the server holds a complete copy of it, and once it has    *)
(* been let go it never comes back.  Nothing is said here about tabs,      *)
(* locks, requests or retries; SyncQueue is shown to implement this.       *)
(***************************************************************************)
CONSTANT Entries

VARIABLES captured,   \* captures the user has made
          onDevice,   \* captures the device still holds
          landed      \* captures the server holds a complete copy of

dvars == <<captured, onDevice, landed>>

Init == /\ captured = {}
        /\ onDevice = {}
        /\ landed = {}

(* A new capture is on the device from the moment it exists. *)
Capture(e) == /\ e \notin captured
              /\ captured' = captured \cup {e}
              /\ onDevice' = onDevice \cup {e}
              /\ UNCHANGED landed

(* A complete copy reaches the server while the device still holds its own. *)
Land(e) == /\ e \in onDevice
           /\ landed' = landed \cup {e}
           /\ UNCHANGED <<captured, onDevice>>

(* The device lets go only of what has landed. *)
Release(e) == /\ e \in onDevice \cap landed
              /\ onDevice' = onDevice \ {e}
              /\ UNCHANGED <<captured, landed>>

Next == \E e \in Entries : Capture(e) \/ Land(e) \/ Release(e)

Spec == Init /\ [][Next]_dvars
=============================================================================
