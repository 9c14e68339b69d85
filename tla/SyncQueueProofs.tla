--------------------------- MODULE SyncQueueProofs ---------------------------
(***************************************************************************)
(* Theorems about SyncQueue, for every set of tabs, entries and retries    *)
(* and for every bound.                                                    *)
(***************************************************************************)
EXTENDS SyncQueue, TLAPS

(* Steps in which a worker has an entry in its hands. *)
Carrying == Steps \ {"idle", "picking"}

(* Entries are known to the store, to a screen or to a worker only once enqueue *)
(* has written them.                                                            *)
OnlyCaptured ==
  /\ \A e \in Entries : store[e] # "ABSENT" => e \in captured
  /\ \A t \in Tabs, e \in Entries : view[t][e] # "ABSENT" => e \in captured
  /\ \A w \in Workers : pc[w] \in Carrying => cur[w] \in captured

TypeInv == TypeOK /\ OnlyCaptured

(* A worker is a tab and a task of it. *)
LEMMA WorkerParts ==
  /\ \A w \in Workers : w[1] \in Tabs
  /\ \A t \in Tabs : DrainOf(t) \in Workers
  /\ \A t \in Tabs, r \in Retries : <<t, r>> \in Workers
BY DEF Workers, DrainOf

(* The initial state satisfies the strengthened type invariant. *)
LEMMA TypeInit == Init => TypeInv
BY BoundsAssumption DEF Init, TypeInv, TypeOK, OnlyCaptured, Statuses, Steps, Carrying, NoEntry

USE DEF boundVars

(* Every step of a tab preserves it. *)
LEMMA TypeTab ==
  ASSUME TypeInv, NEW t \in Tabs, TabStep(t)
  PROVE  TypeInv'
<1> USE WorkerParts, BoundsAssumption DEF TypeInv, TypeOK, OnlyCaptured
<1>1. CASE OpenTab(t)
  BY <1>1 DEF OpenTab, deviceVars, taskVars, serverVars
<1>2. CASE CloseTab(t)
  <2>1. /\ pc' \in [Workers -> Steps]
        /\ cur' \in [Workers -> Entries \cup {NoEntry}]
        /\ \A w \in Workers : pc'[w] \in Carrying => pc'[w] = pc[w] /\ cur'[w] = cur[w]
    BY <1>2 DEF CloseTab, Steps, Carrying, NoEntry
  <2>2. broken' \in [Entries -> Nat] /\ held' \subseteq Workers
    BY <1>2 DEF CloseTab
  <2>3. strays' \subseteq captured
    <3>1. At(t, {"creating"}) \subseteq captured
      BY DEF At, Carrying, Steps, Busy, Syncing, BeforeRow
    <3> QED BY <1>2, <3>1 DEF CloseTab
  <2>4. /\ view' \in [Tabs -> [Entries -> Statuses]]
        /\ \A u \in Tabs, e \in Entries : view'[u][e] # "ABSENT" => view'[u][e] = view[u][e]
    BY <1>2 DEF CloseTab, Statuses
  <2> QED BY <1>2, <2>1, <2>2, <2>3, <2>4 DEF CloseTab, Fault, deviceVars
<1>3. CASE Refresh(t)
  BY <1>3 DEF Refresh, deviceVars, taskVars, serverVars
<1>4. CASE RefreshError(t)
  BY <1>4 DEF RefreshError, StoreFault, deviceVars, taskVars, serverVars
<1>5. CASE ProcessQueue(t)
  BY <1>5 DEF ProcessQueue, MayStart, Goto, deviceVars, tabVars, serverVars, Steps, Busy, Carrying
<1>6. CASE \E e \in Entries : Enqueue(t, e)
  BY <1>6 DEF Enqueue, taskVars, serverVars, Statuses
<1>7. CASE \E r \in Retries, e \in Entries : TapRetry(t, r, e)
  BY <1>7 DEF TapRetry, Goto, deviceVars, tabVars, serverVars, Steps, Busy, Carrying, Statuses
<1> QED BY <1>1, <1>2, <1>3, <1>4, <1>5, <1>6, <1>7 DEF TabStep

(* Every step of a worker preserves it, whether it goes well or not. *)
LEMMA TypeWorker ==
  ASSUME TypeInv, NEW w \in Workers, GrantLock(w) \/ Step(w) \/ Disturb(w)
  PROVE  TypeInv'
<1> USE WorkerParts, BoundsAssumption DEF TypeInv, TypeOK, OnlyCaptured, StepTo, EndTask, Goto, deviceVars,
                        tabVars, serverVars, Steps, Busy, Syncing, BeforeRow, HasRow, AfterStore,
                        Carrying, Statuses
<1>1. CASE GrantLock(w)
  BY <1>1 DEF GrantLock
<1>2. CASE RetryRead(w)
  BY <1>2 DEF RetryRead, NoEntry
<1>3. CASE Pick(w)
  <2>1. CASE online /\ Candidates(w[1]) # {}
    <3>1. PICK e \in Candidates(w[1]) :
             /\ attempted' = [attempted EXCEPT ![w[1]] = @ \cup {e}]
             /\ cur' = [cur EXCEPT ![w] = e]
             /\ pc' = [pc EXCEPT ![w] = IF LeftOver(e) THEN "cleaning" ELSE "marking"]
             /\ UNCHANGED <<held, processing>>
      BY <1>3, <2>1 DEF Pick
    <3>2. e \in Entries /\ e \in captured
      BY <3>1 DEF Candidates
    <3> QED BY <1>3, <3>1, <3>2 DEF Pick
  <2>2. CASE ~(online /\ Candidates(w[1]) # {})
    BY <1>3, <2>2 DEF Pick, NoEntry
  <2> QED BY <2>1, <2>2
<1>4. ASSUME NEW from \in Carrying, NEW status \in Statuses,
             NEW to \in Steps, Write(w, from, status, to)
      PROVE  TypeInv'
  BY <1>4 DEF Write
<1>5. CASE PutUploading(w) \/ PutSynced(w) \/ DeleteSynced(w) \/ PutFailed(w) \/ CleanUp(w)
  BY <1>4, <1>5 DEF PutUploading, PutSynced, DeleteSynced, PutFailed, CleanUp
<1>6. CASE Notify(w)
  BY <1>6 DEF Notify, NoEntry
<1>7. ASSUME NEW from \in Carrying, NEW to \in Steps, Proceed(w, from, to)
      PROVE  TypeInv'
  BY <1>7 DEF Proceed
<1>8. CASE CreateResponse(w) \/ Upload(w) \/ ConfirmResponse(w) \/ Unreachable(w)
  BY <1>7, <1>8 DEF CreateResponse, Upload, ConfirmResponse, Unreachable
<1>9. CASE ServerCreate(w)
  BY <1>9 DEF ServerCreate, InsertRow, CompleteOnCreate
<1>10. CASE ServerConfirm(w)
  BY <1>10 DEF ServerConfirm
<1>11. CASE AbandonCreate(w)
  BY <1>11 DEF AbandonCreate, Fault
<1>12. CASE ServerCreatePartly(w)
  BY <1>12 DEF ServerCreatePartly, InsertRow, CompleteOnCreate, Break, Fault
<1>13. CASE ServerReject(w)
  BY <1>13 DEF ServerReject, Fault
<1>14. CASE AttemptBreaks(w)
  BY <1>14 DEF AttemptBreaks, Break, Fault
<1>15. CASE StoreError(w)
  <2>1. storeFaults' \in 0..MaxStoreFaults /\ UNCHANGED <<taps, faults>>
    BY <1>15 DEF StoreError, StoreFault
  <2>2. UNCHANGED <<captured, store, view, refreshing, open, online, rows, whole, strays>>
    BY <1>15 DEF StoreError
  <2>3. CASE Break(w) /\ StepTo(w, "failing") /\ pc[w] \in Carrying
    BY <2>1, <2>2, <2>3 DEF Break
  <2>4. CASE EndTask(w) /\ UNCHANGED broken
    BY <2>1, <2>2, <2>4 DEF NoEntry
  <2> QED BY <1>15, <2>3, <2>4 DEF StoreError
<1> QED
  BY <1>1, <1>2, <1>3, <1>5, <1>6, <1>8, <1>9, <1>10, <1>11, <1>12, <1>13, <1>14, <1>15
  DEF Step, Disturb

(* So does a late request, a change of the network, or nothing at all. *)
LEMMA TypeOther ==
  ASSUME TypeInv,
         (\E e \in Entries : LateCreate(e)) \/ GoOffline \/ GoOnline \/ UNCHANGED vars
  PROVE  TypeInv'
<1> USE BoundsAssumption DEF TypeInv, TypeOK, OnlyCaptured, deviceVars, tabVars, taskVars, serverVars
<1>1. CASE \E e \in Entries : LateCreate(e)
  BY <1>1 DEF LateCreate, InsertRow, CompleteOnCreate
<1>2. CASE GoOffline
  <2>1. faults' \in 0..MaxFaults /\ UNCHANGED <<taps, storeFaults>>
    BY <1>2 DEF GoOffline, Fault
  <2>2. online' \in BOOLEAN
    BY <1>2, Zenon DEF GoOffline
  <2>3. /\ UNCHANGED <<captured, store, view, refreshing, open, processing, held, pc, cur>>
        /\ UNCHANGED <<attempted, rows, whole, strays, broken>>
    BY <1>2 DEF GoOffline
  <2> QED BY <2>1, <2>2, <2>3
<1>3. CASE GoOnline
  BY <1>3 DEF GoOnline
<1>4. CASE UNCHANGED vars
  BY <1>4 DEF vars
<1> QED BY <1>1, <1>2, <1>3, <1>4

LEMMA TypeStep == TypeInv /\ [Next]_vars => TypeInv'
BY TypeTab, TypeWorker, TypeOther DEF Next

(* The type invariant: every variable of the outbox keeps its type, the server *)
(* has copies of captures only, and only an open tab drains or refreshes.      *)
THEOREM TypeCorrect == Spec => [](TypeOK /\ OnlyCaptured)
<1>1. Spec => []TypeInv
  BY TypeInit, TypeStep, PTL DEF Spec
<1> QED BY <1>1, PTL DEF TypeInv

-----------------------------------------------------------------------------
(* Nothing is lost: this argument does not need the lock. *)

(* Steps that are only reached once the server has all of the entry. *)
Assured == {"cleaning", "confirmed", "storing", "showSynced", "grace"}

WholeInv ==
  /\ NoCaptureLost
  /\ SyncedMeansWhole
  /\ \A w \in Workers : pc[w] \in Assured => cur[w] \in whole
  /\ \A w \in Workers : pc[w] = "created" => cur[w] \in whole \cup Media

LEMMA WholeInit == Init => WholeInv
BY DEF Init, WholeInv, NoCaptureLost, SyncedMeansWhole, Assured

LEMMA WholeTab ==
  ASSUME TypeInv, WholeInv, NEW t \in Tabs, TabStep(t)
  PROVE  WholeInv'
<1> USE WorkerParts DEF TypeInv, TypeOK, OnlyCaptured, WholeInv, NoCaptureLost,
                        SyncedMeansWhole, Assured
<1>1. CASE OpenTab(t)
  BY <1>1 DEF OpenTab, deviceVars, taskVars, serverVars
<1>2. CASE CloseTab(t)
  <2>1. \A w \in Workers : pc'[w] # "idle" => pc'[w] = pc[w] /\ cur'[w] = cur[w]
    BY <1>2 DEF CloseTab
  <2>2. \A u \in Tabs, e \in Entries : view'[u][e] # "ABSENT" => view'[u][e] = view[u][e]
    BY <1>2 DEF CloseTab
  <2> QED BY <1>2, <2>1, <2>2 DEF CloseTab, deviceVars
<1>3. CASE Refresh(t)
  BY <1>3 DEF Refresh, deviceVars, taskVars, serverVars
<1>4. CASE RefreshError(t)
  BY <1>4 DEF RefreshError, deviceVars, taskVars, serverVars
<1>5. CASE ProcessQueue(t)
  BY <1>5 DEF ProcessQueue, MayStart, Goto, deviceVars, tabVars, serverVars
<1>6. CASE \E e \in Entries : Enqueue(t, e)
  BY <1>6 DEF Enqueue, taskVars, serverVars
<1>7. CASE \E r \in Retries, e \in Entries : TapRetry(t, r, e)
  BY <1>7 DEF TapRetry, Goto, deviceVars, tabVars, serverVars
<1> QED BY <1>1, <1>2, <1>3, <1>4, <1>5, <1>6, <1>7 DEF TabStep

LEMMA WholeWorker ==
  ASSUME TypeInv, WholeInv, NEW w \in Workers, GrantLock(w) \/ Step(w) \/ Disturb(w)
  PROVE  WholeInv'
<1> USE WorkerParts DEF TypeInv, TypeOK, OnlyCaptured, WholeInv, NoCaptureLost,
                        SyncedMeansWhole, Assured, StepTo, EndTask, Goto, deviceVars, tabVars,
                        serverVars
<1>1. CASE GrantLock(w)
  BY <1>1 DEF GrantLock
<1>2. CASE RetryRead(w)
  BY <1>2 DEF RetryRead
<1>3. CASE Pick(w)
  <2>1. CASE online /\ Candidates(w[1]) # {}
    <3>1. PICK e \in Entries :
             /\ cur' = [cur EXCEPT ![w] = e]
             /\ pc' = [pc EXCEPT ![w] = IF LeftOver(e) THEN "cleaning" ELSE "marking"]
      BY <1>3, <2>1 DEF Pick, Candidates
    <3>2. UNCHANGED <<captured, store, view, whole>>
      BY <1>3 DEF Pick
    <3>3. \A v \in Workers : v # w => pc'[v] = pc[v] /\ cur'[v] = cur[v]
      BY <3>1
    <3>4. cur'[w] = e /\ pc'[w] \in {"cleaning", "marking"}
      BY <3>1
    <3>5. pc'[w] = "cleaning" => e \in whole
      BY <3>1 DEF LeftOver
    <3> QED BY <3>2, <3>3, <3>4, <3>5
  <2>2. CASE ~(online /\ Candidates(w[1]) # {})
    BY <1>3, <2>2 DEF Pick
  <2> QED BY <2>1, <2>2
<1>4. CASE PutUploading(w) \/ PutFailed(w)
  BY <1>4 DEF PutUploading, PutFailed, Write
<1>5. CASE PutSynced(w)
  BY <1>5 DEF PutSynced, Write
<1>6. CASE DeleteSynced(w) \/ CleanUp(w)
  BY <1>6 DEF DeleteSynced, CleanUp, Write
<1>7. CASE Notify(w)
  BY <1>7 DEF Notify
<1>8. CASE CreateResponse(w)
  BY <1>8 DEF CreateResponse, Proceed
<1>9. CASE Upload(w) \/ ConfirmResponse(w) \/ Unreachable(w)
  BY <1>9 DEF Upload, ConfirmResponse, Unreachable, Proceed
<1>10. CASE ServerCreate(w)
  <2>1. whole' = whole \cup CompleteOnCreate(cur[w]) /\ cur[w] \in whole' \cup Media
    BY <1>10 DEF ServerCreate, InsertRow, CompleteOnCreate
  <2> QED BY <1>10, <2>1 DEF ServerCreate
<1>11. CASE ServerConfirm(w)
  BY <1>11 DEF ServerConfirm
<1>12. CASE AbandonCreate(w) \/ AttemptBreaks(w) \/ ServerReject(w)
  BY <1>12 DEF AbandonCreate, AttemptBreaks, ServerReject
<1>13. CASE ServerCreatePartly(w)
  BY <1>13 DEF ServerCreatePartly, InsertRow, CompleteOnCreate
<1>14. CASE StoreError(w)
  <2>1. UNCHANGED <<captured, store, view, whole>>
    BY <1>14 DEF StoreError
  <2>2. StepTo(w, "failing") \/ EndTask(w)
    BY <1>14 DEF StoreError
  <2> QED BY <2>1, <2>2
<1> QED
  BY <1>1, <1>2, <1>3, <1>4, <1>5, <1>6, <1>7, <1>8, <1>9, <1>10, <1>11, <1>12, <1>13, <1>14
  DEF Step, Disturb

LEMMA WholeOther ==
  ASSUME TypeInv, WholeInv,
         (\E e \in Entries : LateCreate(e)) \/ GoOffline \/ GoOnline \/ UNCHANGED vars
  PROVE  WholeInv'
<1> USE DEF TypeInv, TypeOK, WholeInv, NoCaptureLost, SyncedMeansWhole, Assured, deviceVars,
            tabVars, taskVars, serverVars
<1>1. CASE \E e \in Entries : LateCreate(e)
  BY <1>1 DEF LateCreate, InsertRow, CompleteOnCreate
<1>2. CASE GoOffline \/ GoOnline
  BY <1>2 DEF GoOffline, GoOnline
<1>3. CASE UNCHANGED vars
  BY <1>3 DEF vars
<1> QED BY <1>1, <1>2, <1>3

LEMMA WholeStep == TypeInv /\ WholeInv /\ [Next]_vars => WholeInv'
BY WholeTab, WholeWorker, WholeOther DEF Next

LEMMA WholeAlways == Spec => [](TypeInv /\ WholeInv)
<1>1. Init => TypeInv /\ WholeInv
  BY TypeInit, WholeInit
<1>2. TypeInv /\ WholeInv /\ [Next]_vars => (TypeInv /\ WholeInv)'
  BY TypeStep, WholeStep
<1> QED BY <1>1, <1>2, PTL DEF Spec

(* A capture the device has let go of is complete on the server, whatever tabs *)
(* close, requests fail or responses get lost, and with or without Web Locks.  *)
THEOREM CapturesSurvive == Spec => []NoCaptureLost
BY WholeAlways, PTL DEF WholeInv

(* What the store or a screen calls SYNCED is complete on the server. *)
THEOREM SyncedIsWhole == Spec => []SyncedMeansWhole
BY WholeAlways, PTL DEF WholeInv

-----------------------------------------------------------------------------
(* One at a time: from here on the browser has Web Locks. *)

(* Only the holder of the lock is past it, and there is one holder. *)
LockInv ==
  /\ \A v, w \in held : v = w
  /\ \A w \in Workers : pc[w] \in Busy => w \in held

LEMMA LockStep ==
  ASSUME HasLocks, TypeInv, LockInv, [Next]_vars
  PROVE  LockInv'
<1> USE DEF TypeInv, TypeOK, LockInv, Busy, deviceVars, tabVars, taskVars, serverVars
<1>1. ASSUME NEW t \in Tabs, TabStep(t)
      PROVE  LockInv'
  <2>1. CASE OpenTab(t) \/ Refresh(t) \/ RefreshError(t) \/ \E e \in Entries : Enqueue(t, e)
    BY <2>1 DEF OpenTab, Refresh, RefreshError, Enqueue
  <2>2. CASE CloseTab(t)
    BY <2>2 DEF CloseTab, Syncing, BeforeRow, HasRow, AfterStore
  <2>3. CASE ProcessQueue(t)
    BY <2>3, WorkerParts DEF ProcessQueue, MayStart, LockFree, Goto
  <2>4. CASE \E r \in Retries, e \in Entries : TapRetry(t, r, e)
    BY <2>4, WorkerParts DEF TapRetry, Goto, Syncing, BeforeRow, HasRow, AfterStore
  <2> QED BY <1>1, <2>1, <2>2, <2>3, <2>4 DEF TabStep
<1>2. ASSUME NEW w \in Workers, GrantLock(w) \/ Step(w) \/ Disturb(w)
      PROVE  LockInv'
  <2>1. CASE GrantLock(w)
    BY <2>1 DEF GrantLock, Goto
  <2>2. ASSUME pc[w] \in Busy, EndTask(w)
        PROVE  LockInv'
    BY <2>2 DEF EndTask, Goto, Syncing, BeforeRow, HasRow, AfterStore
  <2>3. ASSUME pc[w] \in Busy, UNCHANGED held, NEW step \in Busy, Goto(w, step)
        PROVE  LockInv'
    BY <2>3 DEF Goto
  <2>4. CASE Step(w)
    <3> USE DEF StepTo, Syncing, BeforeRow, HasRow, AfterStore
    <3>1. CASE RetryRead(w)
      BY <2>2, <2>3, <3>1 DEF RetryRead
    <3>2. CASE Pick(w)
      <4>1. EndTask(w) \/ (UNCHANGED held /\ (Goto(w, "cleaning") \/ Goto(w, "marking")))
        BY <3>2 DEF Pick
      <4> QED BY <2>2, <2>3, <3>2, <4>1 DEF Pick
    <3>3. CASE \/ PutUploading(w) \/ PutSynced(w) \/ DeleteSynced(w) \/ PutFailed(w)
               \/ CleanUp(w)
      BY <2>3, <3>3 DEF PutUploading, PutSynced, DeleteSynced, PutFailed, CleanUp, Write
    <3>4. CASE Notify(w)
      BY <2>2, <2>3, <3>4 DEF Notify
    <3>5. CASE CreateResponse(w) \/ Upload(w) \/ ConfirmResponse(w) \/ Unreachable(w)
      BY <2>3, <3>5 DEF CreateResponse, Upload, ConfirmResponse, Unreachable, Proceed
    <3>6. CASE ServerCreate(w) \/ ServerConfirm(w)
      BY <2>3, <3>6 DEF ServerCreate, ServerConfirm
    <3> QED BY <2>4, <3>1, <3>2, <3>3, <3>4, <3>5, <3>6 DEF Step
  <2>5. CASE Disturb(w)
    <3> USE DEF StepTo, Syncing, BeforeRow, HasRow, AfterStore
    <3>1. CASE AbandonCreate(w) \/ ServerCreatePartly(w) \/ ServerReject(w) \/ AttemptBreaks(w)
      BY <2>3, <3>1 DEF AbandonCreate, ServerCreatePartly, ServerReject, AttemptBreaks
    <3>2. CASE StoreError(w)
      BY <2>2, <2>3, <3>2 DEF StoreError
    <3> QED BY <2>5, <3>1, <3>2 DEF Disturb
  <2> QED BY <1>2, <2>1, <2>4, <2>5
<1>3. CASE (\E e \in Entries : LateCreate(e)) \/ GoOffline \/ GoOnline \/ UNCHANGED vars
  BY <1>3 DEF LateCreate, GoOffline, GoOnline, vars
<1> QED BY <1>1, <1>2, <1>3 DEF Next

(* A step that changes what the store holds is one worker's write, or enqueue. *)
LEMMA StoreChanges ==
  ASSUME TypeInv, [Next]_vars
  PROVE  \/ UNCHANGED store
         \/ \E e \in Entries \ captured : store' = [store EXCEPT ![e] = "QUEUED"]
         \/ \E w \in Workers :
              /\ pc[w] \in Syncing \cup {"cleaning"}
              /\ \E s \in Statuses : store' = [store EXCEPT ![cur[w]] = s]
<1> USE DEF deviceVars
<1>1. ASSUME NEW t \in Tabs, TabStep(t)
      PROVE  UNCHANGED store \/
             \E e \in Entries \ captured : store' = [store EXCEPT ![e] = "QUEUED"]
  BY <1>1 DEF TabStep, OpenTab, CloseTab, Refresh, RefreshError, ProcessQueue, MayStart, Enqueue, TapRetry
<1>2. ASSUME NEW w \in Workers, GrantLock(w) \/ Step(w) \/ Disturb(w)
      PROVE  \/ UNCHANGED store
             \/ /\ pc[w] \in Syncing \cup {"cleaning"}
                /\ \E s \in Statuses : store' = [store EXCEPT ![cur[w]] = s]
  <2>1. CASE GrantLock(w) \/ RetryRead(w) \/ Pick(w) \/ Notify(w)
    BY <2>1 DEF GrantLock, RetryRead, Pick, Notify
  <2>2. CASE \/ PutUploading(w) \/ PutSynced(w) \/ DeleteSynced(w) \/ PutFailed(w) \/ CleanUp(w)
    BY <2>2 DEF PutUploading, PutSynced, DeleteSynced, PutFailed, CleanUp, Write, Syncing,
                BeforeRow, HasRow, AfterStore, Statuses
  <2>3. CASE CreateResponse(w) \/ Upload(w) \/ ConfirmResponse(w) \/ Unreachable(w)
    BY <2>3 DEF CreateResponse, Upload, ConfirmResponse, Unreachable, Proceed
  <2>4. CASE ServerCreate(w) \/ ServerConfirm(w) \/ Disturb(w)
    BY <2>4 DEF ServerCreate, ServerConfirm, Disturb, AbandonCreate, ServerCreatePartly,
                ServerReject, AttemptBreaks, StoreError
  <2> QED BY <1>2, <2>1, <2>2, <2>3, <2>4 DEF Step
<1>3. CASE (\E e \in Entries : LateCreate(e)) \/ GoOffline \/ GoOnline \/ UNCHANGED vars
  BY <1>3 DEF LateCreate, GoOffline, GoOnline, vars
<1> QED BY <1>1, <1>2, <1>3 DEF Next

(* The entry in the holder's hands is still in the store until its delete. *)
InHand == \A w \in Workers :
   pc[w] \in Syncing \cup {"cleaning"} => store[cur[w]] # "ABSENT"


LEMMA InHandStep ==
  ASSUME TypeInv, LockInv, InHand, [Next]_vars
  PROVE  InHand'
<1> USE DEF TypeInv, TypeOK, OnlyCaptured, LockInv, InHand, Syncing, Busy, BeforeRow, HasRow,
            AfterStore, deviceVars, tabVars, taskVars, serverVars
<1>1. ASSUME NEW t \in Tabs, TabStep(t)
      PROVE  InHand'
  <2>1. CASE OpenTab(t) \/ Refresh(t) \/ RefreshError(t)
    BY <2>1 DEF OpenTab, Refresh, RefreshError
  <2>2. CASE CloseTab(t)
    BY <2>2 DEF CloseTab
  <2>3. CASE ProcessQueue(t)
    BY <2>3, WorkerParts DEF ProcessQueue, MayStart, Goto
  <2>4. CASE \E e \in Entries : Enqueue(t, e)
    <3>1. PICK e \in Entries : Enqueue(t, e)
      BY <2>4
    <3>2. \A w \in Workers : pc[w] \in Syncing \cup {"cleaning"} => cur[w] \in Entries
      BY DEF Carrying, Steps
    <3> QED BY <3>1, <3>2 DEF Enqueue
  <2>5. CASE \E r \in Retries, e \in Entries : TapRetry(t, r, e)
    BY <2>5, WorkerParts DEF TapRetry, Goto
  <2> QED BY <1>1, <2>1, <2>2, <2>3, <2>4, <2>5 DEF TabStep
<1>2. ASSUME NEW w \in Workers, GrantLock(w) \/ Step(w) \/ Disturb(w)
      PROVE  InHand'
  <2> USE DEF StepTo, Goto, EndTask
  <2>1. CASE GrantLock(w)
    BY <2>1 DEF GrantLock
  <2>2. CASE RetryRead(w)
    BY <2>2 DEF RetryRead, StillFailed
  <2>3. CASE Pick(w)
    <3>1. CASE online /\ Candidates(w[1]) # {}
      <4>1. PICK e \in Candidates(w[1]) :
              /\ cur' = [cur EXCEPT ![w] = e]
              /\ pc' = [pc EXCEPT ![w] = IF LeftOver(e) THEN "cleaning" ELSE "marking"]
        BY <2>3, <3>1 DEF Pick
      <4>2. store[e] # "ABSENT" /\ UNCHANGED store
        BY <2>3 DEF Pick, Candidates
      <4>3. cur'[w] = e /\ \A v \in Workers : v # w => pc'[v] = pc[v] /\ cur'[v] = cur[v]
        BY <4>1
      <4> QED BY <4>2, <4>3
    <3>2. CASE ~(online /\ Candidates(w[1]) # {})
      BY <2>3, <3>2 DEF Pick
    <3> QED BY <3>1, <3>2
  <2>4. CASE PutUploading(w) \/ PutSynced(w) \/ DeleteSynced(w) \/ PutFailed(w) \/ CleanUp(w)
    <3>1. \A v \in Workers : v # w => pc'[v] \notin Syncing \cup {"cleaning"}
      BY <2>4 DEF PutUploading, PutSynced, DeleteSynced, PutFailed, CleanUp, Write
    <3>2. cur[w] \in Entries
      BY <2>4 DEF PutUploading, PutSynced, DeleteSynced, PutFailed, CleanUp, Write, Carrying,
                  Steps
    <3> QED BY <2>4, <3>1, <3>2 DEF PutUploading, PutSynced, DeleteSynced, PutFailed, CleanUp,
                                    Write
  <2>5. CASE Notify(w)
    BY <2>5 DEF Notify
  <2>6. CASE CreateResponse(w) \/ Upload(w) \/ ConfirmResponse(w) \/ Unreachable(w)
    BY <2>6 DEF CreateResponse, Upload, ConfirmResponse, Unreachable, Proceed
  <2>7. CASE ServerCreate(w) \/ ServerConfirm(w)
    BY <2>7 DEF ServerCreate, ServerConfirm
  <2>8. CASE AbandonCreate(w) \/ ServerCreatePartly(w) \/ ServerReject(w) \/ AttemptBreaks(w)
    BY <2>8 DEF AbandonCreate, ServerCreatePartly, ServerReject, AttemptBreaks
  <2>9. CASE StoreError(w)
    BY <2>9 DEF StoreError
  <2> QED BY <1>2, <2>1, <2>2, <2>3, <2>4, <2>5, <2>6, <2>7, <2>8, <2>9 DEF Step, Disturb
<1>3. CASE (\E e \in Entries : LateCreate(e)) \/ GoOffline \/ GoOnline \/ UNCHANGED vars
  BY <1>3 DEF LateCreate, GoOffline, GoOnline, vars
<1> QED BY <1>1, <1>2, <1>3 DEF Next

LockedInv == TypeInv /\ WholeInv /\ LockInv /\ InHand

LEMMA LockedAlways ==
  ASSUME HasLocks
  PROVE  Spec => []LockedInv
<1>1. Init => LockedInv
  BY TypeInit, WholeInit DEF Init, LockedInv, LockInv, InHand, Busy, Syncing, BeforeRow, HasRow,
                             AfterStore
<1>2. LockedInv /\ [Next]_vars => LockedInv'
  BY TypeStep, WholeStep, LockStep, InHandStep DEF LockedInv
<1> QED BY <1>1, <1>2, PTL DEF Spec

(* With Web Locks no entry is synced by two workers at a time, in one tab or in *)
(* several, whatever taps on retry, timers and closed tabs come in between.     *)
THEOREM SyncIsExclusive ==
  ASSUME HasLocks
  PROVE  Spec => []NoDoubleSync
<1>1. LockedInv => NoDoubleSync
  BY DEF LockedInv, LockInv, NoDoubleSync, Busy
<1> QED BY <1>1, LockedAlways, PTL

(* With Web Locks an entry that has left the outbox is never written back. *)
THEOREM NothingReturns ==
  ASSUME HasLocks
  PROVE  Spec => GoneStaysGone
<1>1. LockedInv /\ [Next]_vars
        => [\A e \in captured : store[e] = "ABSENT" => store'[e] = "ABSENT"]_vars
  <2> SUFFICES ASSUME LockedInv, [Next]_vars, NEW e \in captured, store[e] = "ABSENT"
               PROVE  store'[e] = "ABSENT"
    OBVIOUS
  <2>1. \A w \in Workers : pc[w] \in Syncing \cup {"cleaning"} => cur[w] # e
    BY DEF LockedInv, InHand
  <2> QED BY <2>1, StoreChanges DEF LockedInv, TypeInv, TypeOK
<1> QED BY <1>1, LockedAlways, PTL DEF Spec, GoneStaysGone

-----------------------------------------------------------------------------
(* How many Items one capture becomes. *)

(* Before an attempt has made its row, and once it has failed, every row there *)
(* is has been paid for by a broken attempt.                                   *)
CopyInv ==
  /\ DuplicatesOnlyFromFailure
  /\ \A w \in Workers : pc[w] \in BeforeRow \cup {"failing"} => rows[cur[w]] <= broken[cur[w]]

LEMMA CopyTab ==
  ASSUME HasLocks, TypeInv, LockInv, CopyInv, NEW t \in Tabs, TabStep(t)
  PROVE  CopyInv'
<1> USE WorkerParts DEF TypeInv, TypeOK, OnlyCaptured, CopyInv, DuplicatesOnlyFromFailure, Landed,
                        HasRow, BeforeRow
<1>1. CASE OpenTab(t) \/ Refresh(t) \/ RefreshError(t)
  BY <1>1 DEF OpenTab, Refresh, RefreshError, deviceVars, taskVars, serverVars
<1>2. CASE CloseTab(t)
  <2>1. UNCHANGED <<captured, store, rows>>
    BY <1>2 DEF CloseTab, deviceVars
  <2>2. \A w \in Workers : \/ pc'[w] = pc[w] /\ cur'[w] = cur[w]
                           \/ w[1] = t /\ pc'[w] = "idle"
    BY <1>2 DEF CloseTab
  <2>3. \A e \in Entries : broken'[e] = IF e \in At(t, HasRow) THEN broken[e] + 1 ELSE broken[e]
    BY <1>2 DEF CloseTab
  <2>4. \A w \in Workers : w[1] = t /\ pc[w] \in HasRow => cur[w] \in At(t, HasRow)
    BY DEF At
  <2>5. \A w \in Workers : pc[w] \in BeforeRow \cup {"failing"} => cur[w] \in Entries
    BY DEF Carrying, Steps, Busy, Syncing
  <2>6. ASSUME NEW e \in Entries
        PROVE  rows'[e] <= broken'[e] + (IF Landed(e)' THEN 1 ELSE 0)
    <3>1. CASE e \in At(t, HasRow)
      BY <2>1, <2>3, <3>1
    <3>2. CASE e \notin At(t, HasRow)
      <4>1. Landed(e) => Landed(e)'
        BY <2>1, <2>2, <2>4, <3>2
      <4> QED BY <2>1, <2>3, <3>2, <4>1
    <3> QED BY <3>1, <3>2
  <2>7. ASSUME NEW w \in Workers, pc'[w] \in BeforeRow \cup {"failing"}
        PROVE  rows'[cur'[w]] <= broken'[cur'[w]]
    BY <2>1, <2>2, <2>3, <2>5, <2>7
  <2> QED BY <2>6, <2>7
<1>3. CASE ProcessQueue(t)
  <2>1. \A w \in Workers : pc[w] \notin HasRow
    BY <1>3 DEF ProcessQueue, MayStart, LockFree, LockInv, Busy, Syncing
  <2>2. UNCHANGED <<captured, store, rows, broken, cur>>
    BY <1>3 DEF ProcessQueue, MayStart, deviceVars, serverVars
  <2>3. \A w \in Workers : pc'[w] \in BeforeRow \cup {"failing"} => pc'[w] = pc[w]
    BY <1>3 DEF ProcessQueue, MayStart, Goto
  <2>4. ASSUME NEW e \in Entries
        PROVE  rows'[e] <= broken'[e] + (IF Landed(e)' THEN 1 ELSE 0)
    <3>1. Landed(e) => Landed(e)'
      BY <2>1, <2>2
    <3> QED BY <2>2, <3>1
  <2> QED BY <2>2, <2>3, <2>4
<1>4. CASE \E e \in Entries : Enqueue(t, e)
  <2>1. PICK e \in Entries : Enqueue(t, e)
    BY <1>4
  <2>2. UNCHANGED <<rows, broken, pc, cur>>
    BY <2>1 DEF Enqueue, taskVars, serverVars
  <2>3. ASSUME NEW d \in Entries
        PROVE  rows'[d] <= broken'[d] + (IF Landed(d)' THEN 1 ELSE 0)
    <3>1. Landed(d) => Landed(d)'
      BY <2>1, <2>2 DEF Enqueue
    <3> QED BY <2>2, <3>1
  <2> QED BY <2>2, <2>3
<1>5. CASE \E r \in Retries, e \in Entries : TapRetry(t, r, e)
  <2>1. UNCHANGED <<captured, store, rows, broken>>
    BY <1>5 DEF TapRetry, deviceVars, serverVars
  <2>2. \A w \in Workers : \/ pc'[w] = pc[w] /\ cur'[w] = cur[w]
                           \/ pc[w] = "idle" /\ pc'[w] \in {"waiting", "reading"}
    BY <1>5 DEF TapRetry, Goto
  <2>3. ASSUME NEW e \in Entries
        PROVE  rows'[e] <= broken'[e] + (IF Landed(e)' THEN 1 ELSE 0)
    <3>1. Landed(e) => Landed(e)'
      BY <2>1, <2>2
    <3> QED BY <2>1, <3>1
  <2> QED BY <2>1, <2>2, <2>3
<1> QED BY <1>1, <1>2, <1>3, <1>4, <1>5 DEF TabStep

LEMMA CopyWorker ==
  ASSUME HasLocks, TypeInv, LockInv, CopyInv, NEW w \in Workers,
         GrantLock(w) \/ Step(w) \/ Disturb(w)
  PROVE  CopyInv'
<1> DEFINE Slack(e) == IF Landed(e) THEN 1 ELSE 0
<1> USE DEF TypeInv, TypeOK, HasRow, BeforeRow, StepTo, Goto
<1>1. /\ \A e \in Entries : rows[e] <= broken[e] + Slack(e)
      /\ \A v \in Workers : pc[v] \in BeforeRow \cup {"failing"} => rows[cur[v]] <= broken[cur[v]]
  BY DEF CopyInv, DuplicatesOnlyFromFailure
<1>2. \A v \in Workers : v # w /\ pc[w] \in Busy => pc[v] \notin BeforeRow \cup HasRow \cup {"failing"}
  BY DEF LockInv, Busy, Syncing
<1>3. pc[w] \in Carrying => cur[w] \in Entries
  BY DEF OnlyCaptured
(* It is enough that a step keeps the balance of the entries it does not touch, *)
(* and settles the one it does.                                                 *)
<1>4. ASSUME NEW e \in Entries, rows'[e] <= broken'[e] + Slack(e)',
             \A d \in Entries \ {e} : UNCHANGED <<rows[d], broken[d]>> /\ (Landed(d) => Landed(d)'),
             \A v \in Workers : pc'[v] \in BeforeRow \cup {"failing"}
                => v = w /\ cur'[w] = e /\ rows'[e] <= broken'[e]
      PROVE  CopyInv'
  <2>1. \A d \in Entries : rows'[d] <= broken'[d] + Slack(d)'
    BY <1>1, <1>4
  <2> QED BY <1>4, <2>1 DEF CopyInv, DuplicatesOnlyFromFailure
<1>5. ASSUME UNCHANGED <<captured, store, rows, broken>>,
             \A v \in Workers : v # w => pc'[v] = pc[v] /\ cur'[v] = cur[v],
             pc[w] \in HasRow => pc'[w] \in HasRow /\ cur'[w] = cur[w],
             pc'[w] \in BeforeRow \cup {"failing"} => rows[cur'[w]] <= broken[cur'[w]]
      PROVE  CopyInv'
  <2>1. \A d \in Entries : Landed(d) => Landed(d)'
    BY <1>5 DEF Landed
  <2>2. \A d \in Entries : rows'[d] <= broken'[d] + Slack(d)'
    BY <1>1, <1>5, <2>1
  <2>3. \A v \in Workers : pc'[v] \in BeforeRow \cup {"failing"} => rows'[cur'[v]] <= broken'[cur'[v]]
    BY <1>1, <1>5
  <2> QED BY <2>2, <2>3 DEF CopyInv, DuplicatesOnlyFromFailure
<1>6. ASSUME NEW e \in Entries, pc[w] \in Busy \ HasRow, store[e] \notin {"SYNCED", "ABSENT"}
      PROVE  rows[e] <= broken[e]
  <2>1. ~Landed(e)
    BY <1>2, <1>6 DEF Landed
  <2> QED BY <1>1, <2>1
<1>7. CASE GrantLock(w)
  BY <1>5, <1>7 DEF GrantLock, deviceVars, serverVars
<1>8. CASE RetryRead(w)
  <2>1. CASE StillFailed(cur[w])
    <3>1. rows[cur[w]] <= broken[cur[w]]
      BY <1>3, <1>6, <1>8, <2>1 DEF RetryRead, StillFailed, Busy, Carrying, Steps
    <3> QED BY <1>5, <1>8, <2>1, <3>1 DEF RetryRead, deviceVars, serverVars
  <2>2. CASE ~StillFailed(cur[w])
    BY <1>5, <1>8, <2>2 DEF RetryRead, EndTask, deviceVars, serverVars
  <2> QED BY <2>1, <2>2
<1>9. CASE Pick(w)
  <2>1. CASE online /\ Candidates(w[1]) # {}
    <3>1. PICK e \in Candidates(w[1]) :
            /\ cur' = [cur EXCEPT ![w] = e]
            /\ pc' = [pc EXCEPT ![w] = IF LeftOver(e) THEN "cleaning" ELSE "marking"]
      BY <1>9, <2>1 DEF Pick
    <3>2. e \in Entries /\ store[e] # "ABSENT"
      BY DEF Candidates
    <3>3. ~LeftOver(e) => rows[e] <= broken[e]
      BY <1>6, <1>9, <3>2 DEF Pick, LeftOver, Busy
    <3>4. cur'[w] = e /\ \A v \in Workers : v # w => pc'[v] = pc[v] /\ cur'[v] = cur[v]
      BY <3>1
    <3>5. pc[w] \notin HasRow /\ pc'[w] = IF LeftOver(e) THEN "cleaning" ELSE "marking"
      BY <1>9, <3>1 DEF Pick
    <3> QED BY <1>5, <1>9, <3>3, <3>4, <3>5 DEF Pick, deviceVars, serverVars
  <2>2. CASE ~(online /\ Candidates(w[1]) # {})
    BY <1>5, <1>9, <2>2 DEF Pick, EndTask, deviceVars, serverVars
  <2> QED BY <2>1, <2>2
<1>10. CASE Notify(w)
  BY <1>1, <1>5, <1>10 DEF Notify, EndTask, deviceVars, serverVars
<1>11. CASE CreateResponse(w) \/ Upload(w) \/ ConfirmResponse(w) \/ Unreachable(w)
  BY <1>1, <1>5, <1>11 DEF CreateResponse, Upload, ConfirmResponse, Unreachable, Proceed,
                           deviceVars, serverVars
<1>12. CASE ServerConfirm(w) \/ AbandonCreate(w)
  BY <1>1, <1>5, <1>12 DEF ServerConfirm, AbandonCreate, deviceVars
(* The remaining steps touch one entry, cur[w]. *)
<1>13. ASSUME NEW e \in Entries, e = cur[w], pc[w] \in Busy,
              \A d \in Entries \ {e} : UNCHANGED <<rows[d], broken[d], store[d]>>,
              \A v \in Workers : v # w => pc'[v] = pc[v],
              UNCHANGED captured, pc'[w] # "idle" => cur'[w] = e,
              rows'[e] <= broken'[e] + Slack(e)',
              pc'[w] \in BeforeRow \cup {"failing"} => rows'[e] <= broken'[e]
       PROVE  CopyInv'
  <2>1. \A d \in Entries \ {e} : Landed(d) => Landed(d)'
    BY <1>2, <1>13 DEF Landed
  <2>2. \A v \in Workers : pc'[v] \in BeforeRow \cup {"failing"}
           => v = w /\ cur'[w] = e /\ rows'[e] <= broken'[e]
    BY <1>2, <1>13
  <2> QED BY <1>4, <1>13, <2>1, <2>2
<1>14. ASSUME pc[w] \in Busy \ {"picking"}
       PROVE  cur[w] \in Entries /\ cur[w] \in captured
  BY <1>14 DEF OnlyCaptured, Carrying, Busy, Syncing, AfterStore, Steps
<1>15. CASE PutUploading(w) \/ PutFailed(w)
  <2>1. PICK e \in Entries : e = cur[w]
    BY <1>14, <1>15 DEF PutUploading, PutFailed, Write, Busy, Syncing
  <2>2. rows'[e] <= broken'[e]
    BY <1>1, <1>15, <2>1 DEF PutUploading, PutFailed, Write, serverVars
  <2>3. rows'[e] <= broken'[e] + Slack(e)'
    BY <2>1, <2>2, <1>15 DEF PutUploading, PutFailed, Write, serverVars
  <2> QED BY <1>13, <1>15, <2>1, <2>2, <2>3 DEF PutUploading, PutFailed, Write, serverVars, Busy,
                                            Syncing
<1>16. CASE PutSynced(w) \/ DeleteSynced(w) \/ CleanUp(w)
  <2>1. PICK e \in Entries : e = cur[w]
    BY <1>14, <1>16 DEF PutSynced, DeleteSynced, CleanUp, Write, Busy, Syncing, AfterStore
  <2>2. rows[e] <= broken[e] + 1
    BY <1>1, <2>1
  <2>3. Landed(e)'
    BY <1>14, <1>16, <2>1 DEF PutSynced, DeleteSynced, CleanUp, Write, Busy, Syncing, AfterStore,
                              Landed
  <2>4. rows'[e] <= broken'[e] + Slack(e)'
    BY <1>16, <2>2, <2>3 DEF PutSynced, DeleteSynced, CleanUp, Write, serverVars
  <2> QED BY <1>13, <1>16, <2>1, <2>4 DEF PutSynced, DeleteSynced, CleanUp, Write, serverVars, Busy,
                                      Syncing, AfterStore
<1>17. ASSUME NEW e \in Entries, e = cur[w], pc[w] \in Busy \ {"picking"}, StepTo(w, "failing"),
              UNCHANGED <<captured, store>>, rows'[e] <= broken'[e],
              broken'[e] \in Nat, rows'[e] \in Int,
              \A d \in Entries \ {e} : UNCHANGED <<rows[d], broken[d]>>
       PROVE  CopyInv'
  <2>1. rows'[e] <= broken'[e] + Slack(e)'
    BY <1>17
  <2> QED BY <1>13, <1>17, <2>1
<1>18. CASE ServerCreate(w)
  <2>1. PICK e \in Entries : e = cur[w]
    BY <1>14, <1>18 DEF ServerCreate, Busy, Syncing
  <2>2. rows[e] <= broken[e]
    BY <1>1, <1>18, <2>1 DEF ServerCreate
  <2>3. Landed(e)'
    BY <1>18, <2>1 DEF ServerCreate, Landed
  <2>4. rows'[e] <= broken'[e] + Slack(e)'
    BY <1>18, <2>1, <2>2, <2>3 DEF ServerCreate, InsertRow
  <2> QED BY <1>13, <1>18, <2>1, <2>4 DEF ServerCreate, InsertRow, deviceVars, Busy, Syncing
<1>19. CASE ServerCreatePartly(w)
  <2>1. PICK e \in Entries : e = cur[w]
    BY <1>14, <1>19 DEF ServerCreatePartly, Busy, Syncing
  <2>2. rows'[e] = rows[e] + 1 /\ broken'[e] = broken[e] + 1 /\ rows[e] <= broken[e]
    BY <1>1, <1>19, <2>1 DEF ServerCreatePartly, InsertRow, Break
  <2> QED BY <1>17, <1>19, <2>1, <2>2 DEF ServerCreatePartly, InsertRow, Break, deviceVars, Busy,
                                          Syncing
<1>20. CASE ServerReject(w)
  <2>1. PICK e \in Entries : e = cur[w]
    BY <1>14, <1>20 DEF ServerReject, Busy, Syncing
  <2>2. rows'[e] = rows[e] - 1 /\ broken'[e] = broken[e] /\ rows[e] <= broken[e] + 1
    BY <1>1, <1>20, <2>1 DEF ServerReject
  <2> QED BY <1>17, <1>20, <2>1, <2>2 DEF ServerReject, deviceVars, Busy, Syncing
<1>21. CASE AttemptBreaks(w)
  <2>1. PICK e \in Entries : e = cur[w]
    BY <1>14, <1>21 DEF AttemptBreaks, Busy, Syncing
  <2>2. rows'[e] = rows[e] /\ broken'[e] = broken[e] + 1 /\ rows[e] <= broken[e] + 1
    BY <1>1, <1>21, <2>1 DEF AttemptBreaks, Break
  <2> QED BY <1>17, <1>21, <2>1, <2>2 DEF AttemptBreaks, Break, deviceVars, Busy, Syncing
<1>22. CASE StoreError(w)
  <2>1. CASE EndTask(w) /\ pc[w] \notin HasRow /\ UNCHANGED broken
    BY <1>5, <1>22, <2>1 DEF StoreError, EndTask, deviceVars
  <2>2. CASE pc[w] \in {"storing"} \cup AfterStore /\ Break(w) /\ StepTo(w, "failing")
    <3>1. PICK e \in Entries : e = cur[w]
      BY <1>14, <2>2 DEF Busy, Syncing, AfterStore
    <3>2. rows'[e] = rows[e] /\ broken'[e] = broken[e] + 1 /\ rows[e] <= broken[e] + 1
      BY <1>1, <1>22, <2>2, <3>1 DEF StoreError, Break
    <3> QED BY <1>17, <1>22, <2>2, <3>1, <3>2 DEF StoreError, Break, deviceVars, Busy, Syncing,
                                                  AfterStore
  <2> QED BY <1>22, <2>1, <2>2 DEF StoreError
<1> QED
  BY <1>7, <1>8, <1>9, <1>10, <1>11, <1>12, <1>15, <1>16, <1>18, <1>19, <1>20, <1>21, <1>22
  DEF Step, Disturb

LEMMA CopyOther ==
  ASSUME TypeInv, CopyInv,
         (\E e \in Entries : LateCreate(e)) \/ GoOffline \/ GoOnline \/ UNCHANGED vars
  PROVE  CopyInv'
<1> DEFINE Slack(e) == IF Landed(e) THEN 1 ELSE 0
<1>1. UNCHANGED <<captured, store, pc, cur>>
  BY DEF LateCreate, GoOffline, GoOnline, vars, deviceVars, taskVars
<1>2. \A e \in Entries : Landed(e) <=> Landed(e)'
  BY <1>1 DEF Landed
<1>3. \A e \in Entries : \/ UNCHANGED <<rows[e], broken[e]>>
                         \/ rows'[e] = rows[e] + 1 /\ broken'[e] = broken[e] + 1
  BY DEF LateCreate, InsertRow, GoOffline, GoOnline, vars, serverVars, TypeInv, TypeOK
<1>4. \A e \in Entries : rows[e] \in Int /\ broken[e] \in Int
  BY DEF TypeInv, TypeOK
<1>5. \A e \in Entries : rows[e] <= broken[e] + Slack(e) => rows'[e] <= broken'[e] + Slack(e)'
  BY <1>2, <1>3, <1>4
<1>6. \A w \in Workers : pc[w] \in BeforeRow \cup {"failing"} => cur[w] \in Entries
  BY DEF TypeInv, TypeOK, OnlyCaptured, Carrying, Steps, Busy, Syncing, BeforeRow
<1> QED BY <1>1, <1>3, <1>4, <1>5, <1>6 DEF CopyInv, DuplicatesOnlyFromFailure

(* With Web Locks the server ends up with one Item per capture, and one more   *)
(* only for an attempt that broke after the server had made its row.           *)
THEOREM DuplicatesHaveACause ==
  ASSUME HasLocks
  PROVE  Spec => []DuplicatesOnlyFromFailure
<1>1. Init => CopyInv
  BY DEF Init, CopyInv, DuplicatesOnlyFromFailure, BeforeRow
<1>2. LockedInv /\ CopyInv /\ [Next]_vars => CopyInv'
  BY CopyTab, CopyWorker, CopyOther DEF LockedInv, Next
<1>3. CopyInv => DuplicatesOnlyFromFailure
  BY DEF CopyInv
<1> QED BY <1>1, <1>2, <1>3, LockedAlways, PTL DEF Spec

-----------------------------------------------------------------------------
(* The outbox implements the promise. *)

(* A step that touches what the promise speaks of is one of its three actions. *)
LEMMA DeliveryStep ==
  ASSUME LockedInv, [Next]_vars
  PROVE  [Delivery!Next]_<<captured, OnDevice, whole>>
<1> USE DEF LockedInv, TypeInv, TypeOK, OnlyCaptured, OnDevice, deviceVars, serverVars
<1>1. ASSUME NEW e \in Entries, UNCHANGED <<captured, store>>, whole' \in {whole, whole \cup {e}},
             store[e] # "ABSENT" \/ e \in whole
      PROVE  [Delivery!Next]_<<captured, OnDevice, whole>>
  BY <1>1 DEF Delivery!Next, Delivery!Land
<1>2. ASSUME NEW t \in Tabs, TabStep(t)
      PROVE  [Delivery!Next]_<<captured, OnDevice, whole>>
  <2>1. CASE \/ OpenTab(t) \/ CloseTab(t) \/ Refresh(t) \/ RefreshError(t) \/ ProcessQueue(t)
             \/ \E r \in Retries, e \in Entries : TapRetry(t, r, e)
    BY <2>1 DEF OpenTab, CloseTab, Refresh, RefreshError, ProcessQueue, TapRetry
  <2>2. CASE \E e \in Entries : Enqueue(t, e)
    <3>1. PICK e \in Entries : Enqueue(t, e)
      BY <2>2
    <3>2. OnDevice' = OnDevice \cup {e}
      BY <3>1 DEF Enqueue
    <3>3. Delivery!Capture(e)
      BY <3>1, <3>2 DEF Enqueue, Delivery!Capture
    <3> QED BY <3>3 DEF Delivery!Next
  <2> QED BY <1>2, <2>1, <2>2 DEF TabStep
<1>3. ASSUME NEW w \in Workers, GrantLock(w) \/ Step(w) \/ Disturb(w)
      PROVE  [Delivery!Next]_<<captured, OnDevice, whole>>
  <2>1. \A v \in Workers : pc[v] \in Syncing \cup {"cleaning"}
           => cur[v] \in Entries /\ store[cur[v]] # "ABSENT"
    <3>1. Syncing \cup {"cleaning"} \subseteq Carrying
      BY DEF Carrying, Steps, Busy, Syncing, BeforeRow, HasRow, AfterStore
    <3> QED BY <3>1 DEF InHand
  <2>2. CASE GrantLock(w) \/ RetryRead(w) \/ Pick(w) \/ Notify(w)
    BY <2>2 DEF GrantLock, RetryRead, Pick, Notify
  <2>3. CASE PutUploading(w) \/ PutSynced(w) \/ PutFailed(w)
    <3>1. OnDevice' = OnDevice
      BY <2>1, <2>3 DEF PutUploading, PutSynced, PutFailed, Write, Syncing, BeforeRow, HasRow
    <3> QED BY <2>3, <3>1 DEF PutUploading, PutSynced, PutFailed, Write
  <2>4. CASE DeleteSynced(w) \/ CleanUp(w)
    <3>1. PICK e \in Entries : e = cur[w] /\ store[e] # "ABSENT" /\ e \in whole
      BY <2>1, <2>4 DEF DeleteSynced, CleanUp, Write, Syncing, AfterStore, WholeInv, Assured
    <3>2. OnDevice' = OnDevice \ {e} /\ UNCHANGED <<captured, whole>>
      BY <2>4, <3>1 DEF DeleteSynced, CleanUp, Write
    <3>3. Delivery!Release(e)
      BY <3>1, <3>2 DEF Delivery!Release
    <3> QED BY <3>3 DEF Delivery!Next
  <2>5. CASE CreateResponse(w) \/ Upload(w) \/ ConfirmResponse(w) \/ Unreachable(w)
    BY <2>5 DEF CreateResponse, Upload, ConfirmResponse, Unreachable, Proceed
  <2>6. CASE ServerCreate(w) \/ ServerCreatePartly(w) \/ ServerConfirm(w)
    <3>1. PICK e \in Entries : e = cur[w] /\ store[e] # "ABSENT"
      BY <2>1, <2>6 DEF ServerCreate, ServerCreatePartly, ServerConfirm, Syncing, BeforeRow, HasRow
    <3>2. UNCHANGED <<captured, store>> /\ whole' \in {whole, whole \cup {e}}
      BY <2>6, <3>1 DEF ServerCreate, ServerCreatePartly, ServerConfirm, InsertRow,
                        CompleteOnCreate
    <3> QED BY <1>1, <3>1, <3>2
  <2>7. CASE AbandonCreate(w) \/ ServerReject(w) \/ AttemptBreaks(w) \/ StoreError(w)
    BY <2>7 DEF AbandonCreate, ServerReject, AttemptBreaks, StoreError
  <2> QED BY <1>3, <2>2, <2>3, <2>4, <2>5, <2>6, <2>7 DEF Step, Disturb
<1>4. CASE \E e \in Entries : LateCreate(e)
  <2>1. PICK e \in Entries : LateCreate(e)
    BY <1>4
  <2>2. store[e] # "ABSENT" \/ e \in whole
    BY <2>1 DEF LateCreate, WholeInv, NoCaptureLost
  <2>3. UNCHANGED <<captured, store>> /\ whole' \in {whole, whole \cup {e}}
    BY <2>1 DEF LateCreate, InsertRow, CompleteOnCreate
  <2> QED BY <1>1, <2>2, <2>3
<1>5. CASE GoOffline \/ GoOnline \/ UNCHANGED vars
  BY <1>5 DEF GoOffline, GoOnline, vars
<1> QED BY <1>2, <1>3, <1>4, <1>5 DEF Next

(* With Web Locks the outbox implements CaptureDelivery: every step of every    *)
(* tab and of the server is a Capture, a Land, a Release, or invisible.         *)
THEOREM OutboxDelivers ==
  ASSUME HasLocks
  PROVE  Spec => ImplementsDelivery
<1>1. Init => Delivery!Init
  BY DEF Init, Delivery!Init, OnDevice
<1>2. LockedInv /\ [Next]_vars => [Delivery!Next]_(Delivery!dvars)
  BY DeliveryStep DEF Delivery!dvars
<1> QED BY <1>1, <1>2, LockedAlways, PTL DEF Spec, ImplementsDelivery, Delivery!Spec
=============================================================================
