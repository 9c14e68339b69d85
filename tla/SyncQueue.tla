------------------------------ MODULE SyncQueue ------------------------------
(***************************************************************************)
(* The offline outbox of the mobile web app: lib/syncQueue.ts over the     *)
(* IndexedDB store of lib/outboxDb.ts, run by several tabs of one browser, *)
(* against the create / upload / confirm endpoints of the API.             *)
(*                                                                         *)
(* Every await of the source ends a step.  A tab runs one drain pass (the  *)
(* flag `processing` sees to that) and any number of retries; both are     *)
(* workers here, each with its own program counter.                        *)
(***************************************************************************)
EXTENDS Integers, FiniteSets

CONSTANTS Tabs,           \* tabs and installed PWA instances of one browser
          Entries,        \* outbox entries, numbered in the store's key order
          Media,          \* entries with a file: upload and confirm follow create
          Retries,        \* retry calls a tab can have outstanding
          HasLocks,       \* "locks" in navigator
          MaxTaps,        \* bound: taps on "retry"
          MaxFaults,      \* bound: closed tabs, lost connections, broken attempts
          MaxStoreFaults, \* bound: rejected IndexedDB requests
          MaxRows         \* bound: Item rows per entry (grows only without locks)

ASSUME EntriesAssumption == Entries \subseteq Nat \ {0}
ASSUME MediaAssumption == Media \subseteq Entries
ASSUME RetriesAssumption == "drain" \notin Retries
ASSUME LocksAssumption == HasLocks \in BOOLEAN
ASSUME BoundsAssumption == /\ MaxTaps \in Nat
                           /\ MaxFaults \in Nat
                           /\ MaxStoreFaults \in Nat
                           /\ MaxRows \in Nat

Workers == Tabs \X (Retries \cup {"drain"})
DrainOf(t) == <<t, "drain">>
NoEntry == 0

(* OutboxEntry.status, and "ABSENT" for an entry the store does not hold. *)
Statuses == {"ABSENT", "QUEUED", "UPLOADING", "SYNCED", "FAILED"}

VARIABLES captured,     \* entries enqueue has written at some time
          store,        \* the outbox, shared by the tabs
          view,         \* cachedEntries of each tab: what its screen shows
          refreshing,   \* tabs with a refreshAndNotify outstanding outside a worker
          open,         \* tabs that are open
          online,       \* navigator.onLine
          processing,   \* tabs whose flag `processing` is set
          held,         \* workers holding the Web Lock SYNC_LOCK_NAME
          pc, cur,      \* where each worker is, and the entry it works on
          attempted,    \* attemptedThisPass of each tab
          rows,         \* server: Item rows made for an entry
          whole,        \* server: entries it has had a complete copy of
          strays,       \* entries with a create request nobody waits for any more
          broken,       \* history: attempts that ended with a row but without SYNCED
          taps, faults, storeFaults

deviceVars == <<captured, store>>
tabVars == <<view, refreshing, open, online>>
taskVars == <<processing, held, pc, cur, attempted>>
serverVars == <<rows, whole, strays, broken>>
boundVars == <<taps, faults, storeFaults>>
vars == <<captured, store, view, refreshing, open, online, processing, held, pc, cur,
          attempted, rows, whole, strays, broken, taps, faults, storeFaults>>

(* syncOne in the order of its awaits. *)
BeforeRow  == {"marking", "showUploading", "creating"}
HasRow     == {"created", "uploading", "confirming", "confirmed", "storing"}
AfterStore == {"showSynced", "grace"}
Syncing    == BeforeRow \cup HasRow \cup AfterStore \cup {"failing"}
Busy       == Syncing \cup {"showEnd", "reading", "picking", "cleaning"}
Steps      == Busy \cup {"idle", "waiting"}

Init == /\ captured = {}
        /\ store = [e \in Entries |-> "ABSENT"]
        /\ view = [t \in Tabs |-> [e \in Entries |-> "ABSENT"]]
        /\ refreshing = {}
        /\ open = {}
        /\ online = TRUE
        /\ processing = {}
        /\ held = {}
        /\ pc = [w \in Workers |-> "idle"]
        /\ cur = [w \in Workers |-> NoEntry]
        /\ attempted = [t \in Tabs |-> {}]
        /\ rows = [e \in Entries |-> 0]
        /\ whole = {}
        /\ strays = {}
        /\ broken = [e \in Entries |-> 0]
        /\ taps = 0 /\ faults = 0 /\ storeFaults = 0

(* A fault the network, the browser or the server may inject, within its bound. *)
Fault == faults < MaxFaults /\ faults' = faults + 1 /\ UNCHANGED <<taps, storeFaults>>
StoreFault == /\ storeFaults < MaxStoreFaults /\ storeFaults' = storeFaults + 1
              /\ UNCHANGED <<taps, faults>>

-----------------------------------------------------------------------------
(* The tab: start-up, the network events, enqueue and the live view. *)

(* Loading the module calls refreshAndNotify; processQueue follows it. *)
OpenTab(t) == /\ t \notin open
              /\ open' = open \cup {t}
              /\ refreshing' = refreshing \cup {t}
              /\ UNCHANGED <<deviceVars, view, online, taskVars, serverVars, boundVars>>

(* The entries tab t is working on in one of the given steps. *)
At(t, steps) == {cur[w] : w \in {v \in Workers : v[1] = t /\ pc[v] \in steps}}

(* A tab may close between any two steps: its memory goes, the browser frees  *)
(* its lock, and a create request on the wire may still reach the server.    *)
CloseTab(t) ==
  /\ t \in open
  /\ Fault
  /\ open' = open \ {t}
  /\ view' = [view EXCEPT ![t] = [e \in Entries |-> "ABSENT"]]
  /\ refreshing' = refreshing \ {t}
  /\ processing' = processing \ {t}
  /\ held' = {w \in held : w[1] # t}
  /\ pc' = [w \in Workers |-> IF w[1] = t THEN "idle" ELSE pc[w]]
  /\ cur' = [w \in Workers |-> IF w[1] = t THEN NoEntry ELSE cur[w]]
  /\ attempted' = [attempted EXCEPT ![t] = {}]
  /\ broken' = [e \in Entries |-> IF e \in At(t, HasRow) THEN broken[e] + 1 ELSE broken[e]]
  /\ \E lost \in SUBSET At(t, {"creating"}) : strays' = strays \cup lost
  /\ UNCHANGED <<deviceVars, online, rows, whole>>

GoOffline == /\ online /\ Fault
             /\ online' = FALSE
             /\ UNCHANGED <<deviceVars, view, refreshing, open, taskVars, serverVars>>

GoOnline == /\ ~online
            /\ online' = TRUE
            /\ UNCHANGED <<deviceVars, view, refreshing, open, taskVars, serverVars, boundVars>>

(* syncQueue.enqueue: the put, with refreshAndNotify to follow. *)
Enqueue(t, e) == /\ t \in open
                 /\ e \notin captured
                 /\ captured' = captured \cup {e}
                 /\ store' = [store EXCEPT ![e] = "QUEUED"]
                 /\ refreshing' = refreshing \cup {t}
                 /\ UNCHANGED <<view, open, online, taskVars, serverVars, boundVars>>

(* refreshAndNotify as start-up and enqueue call it. *)
Refresh(t) == /\ t \in refreshing
              /\ view' = [view EXCEPT ![t] = store]
              /\ refreshing' = refreshing \ {t}
              /\ UNCHANGED <<deviceVars, open, online, taskVars, serverVars, boundVars>>

RefreshError(t) == /\ t \in refreshing /\ StoreFault
                   /\ refreshing' = refreshing \ {t}
                   /\ UNCHANGED <<deviceVars, view, open, online, taskVars, serverVars>>

-----------------------------------------------------------------------------
(* Tasks: a drain pass or a retry, from its trigger to its end. *)

Goto(w, step) == pc' = [pc EXCEPT ![w] = step]

(* A step inside a task, which leaves the lock and the pass as they are. *)
StepTo(w, step) == Goto(w, step) /\ UNCHANGED <<cur, held, processing, attempted>>

(* The task returns or throws: the lock is freed, `finally` clears the flag. *)
EndTask(w) == /\ Goto(w, "idle")
              /\ cur' = [cur EXCEPT ![w] = NoEntry]
              /\ held' = held \ {w}
              /\ processing' = processing \ (IF w[2] = "drain" THEN {w[1]} ELSE {})
              /\ attempted' = IF w[2] = "drain" THEN [attempted EXCEPT ![w[1]] = {}]
                                                ELSE attempted

(* Mutant: a pass runs whether or not its ifAvailable request got the lock. *)
LockIgnored == TRUE
(* Mutant: an ifAvailable request overtakes the retries that wait. *)
LockNotHeld == held = {}

(* { ifAvailable: true } is granted when nobody holds the lock or waits for it. *)
LockFree == held = {} /\ \A w \in Workers : pc[w] # "waiting"

(* Mutant: the timer of a tab goes on after the tab has closed. *)
MayStartClosed(t) == t \notin processing /\ online

(* The early return of processQueue. *)
MayStart(t) == t \in open /\ t \notin processing /\ online

(* processQueue, on any of its triggers: timer, online event, enqueue, start-up. *)
ProcessQueue(t) ==
  /\ MayStart(t)
  /\ HasLocks => LockFree
  /\ held' = IF HasLocks THEN held \cup {DrainOf(t)} ELSE held
  /\ processing' = processing \cup {t}
  /\ Goto(DrainOf(t), "picking")
  /\ UNCHANGED <<deviceVars, tabVars, cur, attempted, serverVars, boundVars>>

(* A tap on a row this tab's view shows as FAILED calls retry.  The call does *)
(* not look at `processing`; with locks it queues for the lock.               *)
TapRetry(t, r, e) ==
  LET w == <<t, r>> IN
  /\ t \in open /\ view[t][e] = "FAILED" /\ online
  /\ pc[w] = "idle"
  /\ taps < MaxTaps /\ taps' = taps + 1
  /\ Goto(w, IF HasLocks THEN "waiting" ELSE "reading")
  /\ cur' = [cur EXCEPT ![w] = e]
  /\ UNCHANGED <<deviceVars, tabVars, processing, held, attempted, serverVars, faults,
                 storeFaults>>

GrantLock(w) == /\ pc[w] = "waiting" /\ held = {}
                /\ held' = {w}
                /\ Goto(w, "reading")
                /\ UNCHANGED <<deviceVars, tabVars, processing, cur, attempted, serverVars,
                               boundVars>>

(* Mutant: retry trusts the status the tap saw. *)
NotRechecked(e) == TRUE

(* What retry re-checks once it has the lock. *)
StillFailed(e) == store[e] = "FAILED"

RetryRead(w) == /\ pc[w] = "reading"
                /\ IF StillFailed(cur[w]) THEN StepTo(w, "marking") ELSE EndTask(w)
                /\ UNCHANGED <<deviceVars, tabVars, serverVars, boundVars>>

(* Mutants: a pass tries a failing entry again and again; failures are not retried. *)
TriedAgain(t) == {e \in Entries : store[e] # "ABSENT"}
NeverRetried(t) == {e \in Entries : store[e] = "QUEUED" /\ e \notin attempted[t]}

(* The entries of the store this pass has not tried. *)
Candidates(t) == {e \in Entries : store[e] # "ABSENT" /\ e \notin attempted[t]}

(* Mutants: an interrupted upload passes for a finished one; SYNCED is synced again. *)
LeftOverInterrupted(e) == store[e] \in {"SYNCED", "UPLOADING"}
LeftOverNone(e) == FALSE

(* An entry drainQueue deletes instead of syncing. *)
LeftOver(e) == store[e] = "SYNCED"

(* getAll, then the loop's two tests and the choice of `next`, with no await between. *)
Pick(w) ==
  LET t == w[1] IN
  /\ pc[w] = "picking"
  /\ IF online /\ Candidates(t) # {}
       THEN \E e \in Candidates(t) :
              /\ \A d \in Candidates(t) : e <= d
              /\ attempted' = [attempted EXCEPT ![t] = @ \cup {e}]
              /\ cur' = [cur EXCEPT ![w] = e]
              /\ Goto(w, IF LeftOver(e) THEN "cleaning" ELSE "marking")
              /\ UNCHANGED <<held, processing>>
       ELSE EndTask(w)
  /\ UNCHANGED <<deviceVars, tabVars, serverVars, boundVars>>

-----------------------------------------------------------------------------
(* syncOne, the client's half. *)

(* A step that awaits a put or delete of the worker's entry. *)
Write(w, from, status, to) == /\ pc[w] = from
                              /\ store' = [store EXCEPT ![cur[w]] = status]
                              /\ StepTo(w, to)
                              /\ UNCHANGED <<captured, tabVars, serverVars, boundVars>>

(* Mutant: a failed entry is dropped. *)
DropFailed(w) == Write(w, "failing", "ABSENT", "showEnd")

PutUploading(w) == Write(w, "marking", "UPLOADING", "showUploading")
PutSynced(w)    == Write(w, "storing", "SYNCED", "showSynced")
DeleteSynced(w) == Write(w, "grace", "ABSENT", "showEnd")     \* after the 1.5 s on screen
PutFailed(w)    == Write(w, "failing", "FAILED", "showEnd")   \* the catch block
CleanUp(w)      == Write(w, "cleaning", "ABSENT", "picking")  \* no refreshAndNotify here

(* refreshAndNotify inside syncOne.  The last one returns to the drain loop or *)
(* ends the retry.                                                             *)
Notify(w) == /\ pc[w] \in {"showUploading", "showSynced", "showEnd"}
             /\ view' = [view EXCEPT ![w[1]] = store]
             /\ CASE pc[w] = "showUploading" -> StepTo(w, "creating")
                  [] pc[w] = "showSynced" -> StepTo(w, "grace")
                  [] OTHER -> IF w[2] = "drain" THEN StepTo(w, "picking") ELSE EndTask(w)
             /\ UNCHANGED <<deviceVars, refreshing, open, online, serverVars, boundVars>>

(* A step of the attempt that only the client sees. *)
Proceed(w, from, to) == /\ pc[w] = from
                        /\ StepTo(w, to)
                        /\ UNCHANGED <<deviceVars, tabVars, serverVars, boundVars>>

(* Mutants: the upload, or its confirmation, is left out. *)
SkipUpload(w)  == Proceed(w, "created", "storing")
SkipConfirm(w) == Proceed(w, "uploading", "storing")

(* Create answers with an uploadUrl for a media item only. *)
CreateResponse(w)  == Proceed(w, "created", IF cur[w] \in Media THEN "uploading" ELSE "storing")
Upload(w)          == Proceed(w, "uploading", "confirming")
ConfirmResponse(w) == Proceed(w, "confirmed", "storing")
(* Create fails before a row is made: no connection, 401, 5xx, a rejected input. *)
Unreachable(w)     == Proceed(w, "creating", "failing")

(* The attempt has made a row and will not be recorded as SYNCED. *)
Break(w) == broken' = [broken EXCEPT ![cur[w]] = @ + 1]

(* A lost response, a failed upload, a failed confirm. *)
AttemptBreaks(w) == /\ pc[w] \in {"created", "uploading", "confirming", "confirmed"}
                    /\ Fault
                    /\ Break(w)
                    /\ StepTo(w, "failing")
                    /\ UNCHANGED <<deviceVars, tabVars, rows, whole, strays>>

(* The connection drops under a create request that is still on its way. *)
AbandonCreate(w) == /\ pc[w] = "creating" /\ Fault
                    /\ strays' = strays \cup {cur[w]}
                    /\ StepTo(w, "failing")
                    /\ UNCHANGED <<deviceVars, tabVars, rows, whole, broken>>

(* An IndexedDB request of the worker rejects.  Inside syncOne's try block the *)
(* catch takes over; anywhere else the error ends the task.                    *)
StoreError(w) ==
  /\ pc[w] \in (Busy \ (HasRow \cup {"creating"})) \cup {"storing"}
  /\ StoreFault
  /\ IF pc[w] \in {"storing"} \cup AfterStore
       THEN Break(w) /\ StepTo(w, "failing")
       ELSE EndTask(w) /\ UNCHANGED broken
  /\ UNCHANGED <<deviceVars, tabVars, rows, whole, strays>>

-----------------------------------------------------------------------------
(* The server: ItemsService.create and confirmUpload, as one client sees them. *)

(* A note is complete with its row; a media item has no bytes yet. *)
CompleteOnCreate(e) == IF e \in Media THEN {} ELSE {e}

InsertRow(e) == /\ rows[e] < MaxRows
                /\ rows' = [rows EXCEPT ![e] = @ + 1]
                /\ whole' = whole \cup CompleteOnCreate(e)

ServerCreate(w) == /\ pc[w] = "creating"
                   /\ InsertRow(cur[w])
                   /\ StepTo(w, "created")
                   /\ UNCHANGED <<deviceVars, tabVars, broken, strays, boundVars>>

(* The row is inserted first: tags or presigning may still fail the request. *)
ServerCreatePartly(w) == /\ pc[w] = "creating" /\ Fault
                         /\ InsertRow(cur[w])
                         /\ Break(w)
                         /\ StepTo(w, "failing")
                         /\ UNCHANGED <<deviceVars, tabVars, strays>>

(* An abandoned create request arrives after all. *)
LateCreate(e) == /\ e \in strays
                 /\ strays' = strays \ {e}
                 /\ InsertRow(e)
                 /\ broken' = [broken EXCEPT ![e] = @ + 1]
                 /\ UNCHANGED <<deviceVars, tabVars, taskVars, boundVars>>

ServerConfirm(w) == /\ pc[w] = "confirming"
                    /\ whole' = whole \cup {cur[w]}
                    /\ StepTo(w, "confirmed")
                    /\ UNCHANGED <<deviceVars, tabVars, broken, rows, strays, boundVars>>

(* Over the plan's storage limit the server deletes the attempt's row and says 403. *)
ServerReject(w) == /\ pc[w] = "confirming" /\ Fault
                   /\ rows' = [rows EXCEPT ![cur[w]] = @ - 1]
                   /\ StepTo(w, "failing")
                   /\ UNCHANGED <<deviceVars, tabVars, broken, whole, strays>>

-----------------------------------------------------------------------------

(* What a worker does on its own, in the order its code is written. *)
Step(w) == \/ RetryRead(w) \/ Pick(w) \/ CleanUp(w)
           \/ PutUploading(w) \/ Notify(w)
           \/ ServerCreate(w) \/ Unreachable(w)
           \/ CreateResponse(w) \/ Upload(w) \/ ServerConfirm(w) \/ ConfirmResponse(w)
           \/ PutSynced(w) \/ DeleteSynced(w) \/ PutFailed(w)

(* What goes wrong under it. *)
Disturb(w) == \/ AbandonCreate(w) \/ ServerCreatePartly(w) \/ ServerReject(w)
              \/ AttemptBreaks(w) \/ StoreError(w)

TabStep(t) == \/ OpenTab(t) \/ CloseTab(t)
              \/ Refresh(t) \/ RefreshError(t)
              \/ ProcessQueue(t)
              \/ \E e \in Entries : Enqueue(t, e)
              \/ \E r \in Retries, e \in Entries : TapRetry(t, r, e)

Next == \/ \E t \in Tabs : TabStep(t)
        \/ \E w \in Workers : GrantLock(w) \/ Step(w) \/ Disturb(w)
        \/ \E e \in Entries : LateCreate(e)
        \/ GoOffline \/ GoOnline

Spec == Init /\ [][Next]_vars

(* Promises settle, the browser grants a free lock, and the 25 s timer of an *)
(* open tab keeps calling processQueue; the user and the faults owe nothing. *)
Fairness == /\ \A w \in Workers : WF_vars(Step(w)) /\ WF_vars(GrantLock(w))
            /\ \A t \in Tabs : WF_vars(ProcessQueue(t)) /\ WF_vars(Refresh(t))

FairSpec == Spec /\ Fairness

(* Delivery also needs the user to come back, the network to return, and the *)
(* server not to be unreachable every single time.                           *)
Recovery == /\ WF_vars(GoOnline)
            /\ WF_vars(\E t \in Tabs : OpenTab(t))
            /\ \A w \in Workers : SF_vars(ServerCreate(w))

-----------------------------------------------------------------------------
TypeOK ==
  /\ captured \subseteq Entries
  /\ store \in [Entries -> Statuses]
  /\ view \in [Tabs -> [Entries -> Statuses]]
  /\ refreshing \subseteq open
  /\ open \subseteq Tabs
  /\ online \in BOOLEAN
  /\ processing \subseteq open
  /\ held \subseteq Workers
  /\ pc \in [Workers -> Steps]
  /\ cur \in [Workers -> Entries \cup {NoEntry}]
  /\ attempted \in [Tabs -> SUBSET Entries]
  /\ rows \in [Entries -> Int]
  /\ whole \subseteq captured
  /\ strays \subseteq captured
  /\ broken \in [Entries -> Nat]
  /\ taps \in 0..MaxTaps /\ faults \in 0..MaxFaults /\ storeFaults \in 0..MaxStoreFaults

(* A capture the device no longer holds is complete on the server, through    *)
(* every crash, retry and lost response ("only removed once the server        *)
(* confirms it", outboxDb.ts).  It does not depend on the lock.               *)
NoCaptureLost == \A e \in captured : store[e] = "ABSENT" => e \in whole

(* Whatever the store calls SYNCED, or a screen shows as synced, is complete  *)
(* on the server: drainQueue deletes a SYNCED entry without asking again.     *)
SyncedMeansWhole == \A e \in Entries :
   (store[e] = "SYNCED" \/ \E t \in Tabs : view[t][e] = "SYNCED") => e \in whole

(* One entry is never synced by two workers at a time, in whatever tabs they  *)
(* run (the comments above SYNC_LOCK_NAME and above retry).                   *)
NoDoubleSync == \A v, w \in Workers :
   v # w /\ pc[v] \in Syncing /\ pc[w] \in Syncing => cur[v] # cur[w]

(* Entry e has an attempt whose row counts: recorded as SYNCED, or under way. *)
Landed(e) == \/ e \in captured /\ store[e] \in {"SYNCED", "ABSENT"}
             \/ \E w \in Workers : cur[w] = e /\ pc[w] \in HasRow

(* The server has at most one Item per capture, and one more for each attempt *)
(* that broke after the row was made: retrying alone never duplicates.        *)
DuplicatesOnlyFromFailure == \A e \in Entries :
   rows[e] <= broken[e] + (IF Landed(e) THEN 1 ELSE 0)

(* The same, as a count a user would notice: with no broken attempt a capture  *)
(* is one Item.  It is the guarantee the comment above SYNC_LOCK_NAME keeps    *)
(* for a single tab of a browser without Web Locks.                            *)
OneItemPerCapture == \A e \in Entries : rows[e] <= broken[e] + 1

(* An entry the store has let go is never put back by a worker that still     *)
(* carries a copy of it: every put of syncOne writes the whole entry.         *)
GoneStaysGone ==
   [][\A e \in captured : store[e] = "ABSENT" => store'[e] = "ABSENT"]_vars

(* The outbox implements what CaptureDelivery promises. *)
OnDevice == {e \in Entries : store[e] # "ABSENT"}
Delivery == INSTANCE CaptureDelivery WITH onDevice <- OnDevice, landed <- whole
ImplementsDelivery == Delivery!Spec

(* A drain pass ends even when every attempt of it fails at once, because it  *)
(* tries each entry once (the comment above SYNC_LOCK_NAME).                  *)
PassesTerminate == \A t \in Tabs : t \in processing ~> t \notin processing

(* A retry that queued for the lock is served, whatever the timers of the     *)
(* other tabs do meanwhile: ifAvailable requests do not overtake it.          *)
RetriesAreServed == \A w \in Workers : pc[w] = "waiting" ~> pc[w] # "waiting"

(* With the user, the network and the server doing their part, every capture  *)
(* reaches the server and leaves the outbox in the end.                       *)
EveryCaptureDelivered == Recovery =>
   \A e \in Entries : e \in captured ~> (e \in whole /\ store[e] = "ABSENT")

(* The outbox a tab shows is the outbox there is, once the tab has nothing    *)
(* under way ("Live view of the outbox", above useOutbox).                    *)
LiveView == \A t \in open :
   t \notin refreshing /\ (\A w \in Workers : w[1] = t => pc[w] = "idle")
      => view[t] = store
=============================================================================
