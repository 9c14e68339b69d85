---------------------------- MODULE SessionsProofs ----------------------------
(***************************************************************************)
(* Theorems about Sessions, for any tabs, calls and bounds.                *)
(***************************************************************************)
EXTENDS Sessions, FiniteSetTheorems, TLAPS

Presenting == {"asking", "rotating", "issuing", "revoking"}

(* What a job has in its hands: only a refresh asks for a rotation, whoever     *)
(* presents a token has one, writes begin with both keys to write, and a        *)
(* refresh that was given up is the server's business only.                     *)
Ordered(w, r) ==
  /\ r.step = "reading" => w[2] = "refresh"
  /\ r.step \in {"asking", "rotating", "issuing"} => w[2] # "session"
  /\ r.step \in {"revoking", "clearing"} => w[2] = "session"
  /\ r.step \in Presenting => r.carried # None
  /\ r.step = "revoking" => r.todo = Keys
  /\ r.step = "storing" => r.got # None
  /\ w[2] \in Abandoned => r.step \in {"idle", "asking", "rotating", "issuing"}

JobsInOrder == \A w \in Jobs : Ordered(w, job[w])

(* Whatever a device or a request holds was issued. *)
OnlyIssued ==
  /\ \A key \in Keys : store[key] # None => token[store[key]] # "none"
  /\ \A w \in Jobs : /\ job[w].carried # None => token[job[w].carried] # "none"
                     /\ job[w].got # None => token[job[w].got] # "none"

TypeInv == TypeOK /\ JobsInOrder /\ OnlyIssued

(* A refresh and a session job for each tab, and those it gave up; calls belong to tabs. *)
LEMMA JobParts ==
  /\ \A w \in Jobs : /\ w[1] \in Tabs /\ w[2] \in {"refresh", "session"} \cup Abandoned
                     /\ w[2] = "refresh" => w = RefreshOf(w[1])
  /\ \A t \in Tabs : /\ RefreshOf(t) \in Jobs /\ RefreshOf(t)[2] = "refresh" /\ RefreshOf(t)[1] = t
                     /\ SessionOf(t) \in Jobs /\ SessionOf(t)[2] = "session"
  /\ \A t \in Tabs, a \in Abandoned : /\ <<t, a>> \in Jobs /\ <<t, a>>[2] = a
                                      /\ a # "refresh" /\ a # "session"
  /\ \A x \in Fetches : x[1] \in Tabs
  /\ \A t \in Tabs, c \in Calls : <<t, c>> \in Fetches /\ <<t, c>>[1] = t
BY AbandonedAssumption DEF Jobs, Fetches, RefreshOf, SessionOf

Call == [step : CallSteps, sent : Slots, retried : BOOLEAN]

LEMMA JobRecords ==
  ASSUME NEW r \in Job
  PROVE  /\ \A step \in JobSteps : [r EXCEPT !.step = step] \in Job
         /\ \A c \in Slots : [r EXCEPT !.step = "asking", !.carried = c] \in Job
         /\ \A k \in Slots : [r EXCEPT !.step = "storing", !.got = k, !.todo = Keys] \in Job
         /\ \A key \in Keys : [r EXCEPT !.todo = @ \ {key}] \in Job
         /\ NoJob \in Job
<1>1. \A step \in JobSteps : [r EXCEPT !.step = step] \in Job
  BY DEF Job
<1>2. \A c \in Slots : [r EXCEPT !.carried = c] \in Job
  BY DEF Job
<1>3. \A k \in Slots : [r EXCEPT !.got = k] \in Job
  BY DEF Job
<1>4. \A T \in SUBSET Keys : [r EXCEPT !.todo = T] \in Job
  BY DEF Job
<1>5. \A c \in Slots : [r EXCEPT !.step = "asking", !.carried = c] \in Job
  BY DEF Job, JobSteps
<1>6. \A k \in Slots : [r EXCEPT !.step = "storing", !.got = k, !.todo = Keys] \in Job
  BY DEF Job, JobSteps
<1>7. \A key \in Keys : [r EXCEPT !.todo = @ \ {key}] \in Job
  <2>1. r.todo \in SUBSET Keys
    BY DEF Job
  <2> QED BY <1>4, <2>1
<1>8. NoJob \in Job
  BY DEF NoJob, Job, JobSteps, Slots, Keys
<1> QED BY <1>1, <1>5, <1>6, <1>7, <1>8

LEMMA TypeInit == Init => TypeInv
<1> SUFFICES ASSUME Init PROVE TypeInv
  OBVIOUS
<1> USE JobParts DEF Init
<1>1. NoJob \in Job /\ NoCall \in Call /\ NoCall.step # "waiting"
  BY DEF NoJob, Job, JobSteps, Slots, Keys, NoCall, Call, CallSteps
<1>2. /\ call \in [Fetches -> Call] /\ job \in [Jobs -> Job]
      /\ \A x \in Fetches : call[x].step # "waiting"
  BY <1>1
<1>3. TypeOK
  <2>1. \A t \in Tabs, c \in Calls : call[<<t, c>>].step # "waiting"
    BY <1>2
  <2>2. /\ token \in [Pairs -> {"none", "live", "revoked"}]
        /\ parent \in [Pairs -> Slots] /\ store \in [Keys -> Slots]
    BY DEF Slots
  <2>3. /\ signIns \in 0..MaxSignIns /\ signOuts \in 0..MaxSignOuts /\ faults \in 0..MaxFaults
        /\ replays \in Nat
    BY BoundsAssumption
  <2>4. lost \in BOOLEAN /\ fresh \subseteq Pairs \ Unused /\ givenUp \subseteq Pairs
    OBVIOUS
  <2> QED BY <1>2, <2>1, <2>2, <2>3, <2>4 DEF TypeOK, Call
<1>4. JobsInOrder
  BY DEF JobsInOrder, Ordered, NoJob, Presenting
<1>5. OnlyIssued
  BY DEF OnlyIssued, NoJob
<1> QED BY <1>3, <1>4, <1>5 DEF TypeInv

USE DEF boundVars

(* The record of a job is replaced, and the rest is as it should be. *)
LEMMA TypeJob ==
  ASSUME TypeInv, NEW w \in Jobs, NEW new \in Job,
         job' = [job EXCEPT ![w] = new],
         \/ UNCHANGED call /\ (new.step # "idle" \/ w[2] # "refresh")
         \/ \E ok \in BOOLEAN : call' = IF w[2] = "refresh" THEN Woken(w[1], ok) ELSE call,
         Ordered(w, new),
         new.carried # None => token'[new.carried] # "none",
         new.got # None => token'[new.got] # "none",
         token' \in [Pairs -> {"none", "live", "revoked"}],
         \A k \in Pairs : token[k] # "none" => token'[k] # "none",
         store' \in [Keys -> Slots],
         \A key \in Keys : store'[key] # None => token'[store'[key]] # "none",
         parent' \in [Pairs -> Slots], fresh' \subseteq Pairs \ Unused',
         signIns' \in 0..MaxSignIns, signOuts' \in 0..MaxSignOuts, faults' \in 0..MaxFaults,
         replays' \in Nat, lost' \in BOOLEAN, givenUp' = givenUp
  PROVE  TypeInv'
<1> USE JobParts DEF TypeInv
<1>1. /\ job \in [Jobs -> Job] /\ job' \in [Jobs -> Job] /\ job'[w] = new
      /\ \A v \in Jobs \ {w} : job'[v] = job[v]
  BY DEF TypeOK
<1>2. call' \in [Fetches -> Call]
  <2>1. call \in [Fetches -> Call] /\ \A retried \in BOOLEAN : Send(retried) \in Call
    BY DEF TypeOK, Call, Send, CallSteps, Keys
  <2>2. NoCall \in Call
    BY DEF NoCall, Call, CallSteps, Slots
  <2>3. \A t, ok : Woken(t, ok) \in [Fetches -> Call]
    BY <2>1, <2>2 DEF Woken
  <2> QED BY <2>1, <2>3
<1>3. ASSUME NEW t \in Tabs, NEW c \in Calls,
             job'[RefreshOf(t)].step = "idle"
      PROVE  call'[<<t, c>>].step # "waiting"
  <2>1. CASE w = RefreshOf(t) /\ \E ok \in BOOLEAN : call' = Woken(w[1], ok)
    BY <2>1 DEF Woken, Send, NoCall
  <2>2. CASE w # RefreshOf(t)
    <3>1. call[<<t, c>>].step # "waiting"
      BY <1>1, <1>3, <2>2 DEF TypeOK
    <3>2. CASE w[2] = "refresh"
      <4>1. w[1] # t
        BY <2>2, <3>2
      <4>2. \A ok : Woken(w[1], ok)[<<t, c>>] = call[<<t, c>>]
        BY <4>1 DEF Woken
      <4> QED BY <3>1, <3>2, <4>2
    <3>3. CASE w[2] # "refresh"
      BY <3>1, <3>3
    <3> QED BY <3>2, <3>3
  <2> QED BY <1>1, <1>3, <2>1, <2>2
<1>4. JobsInOrder'
  BY <1>1 DEF JobsInOrder
<1>5. OnlyIssued'
  <2>1. \A v \in Jobs : job[v].carried \in Slots /\ job[v].got \in Slots
    BY <1>1 DEF Job
  <2> QED BY <1>1, <2>1 DEF OnlyIssued, Slots
<1> QED BY <1>1, <1>2, <1>3, <1>4, <1>5 DEF TypeOK, Call

(* The refresh of a tab settles, or its sign-in or sign-out ends. *)
LEMMA TypeSettle ==
  ASSUME TypeInv, NEW w \in Jobs, NEW ok \in BOOLEAN, Settle(w, ok),
         UNCHANGED <<token, parent, fresh, store, signIns, signOuts, replays, givenUp>>,
         faults' \in 0..MaxFaults, lost' \in BOOLEAN
  PROVE  TypeInv'
<1>1. NoJob \in Job /\ NoJob.step = "idle" /\ NoJob.carried = None /\ NoJob.got = None
  BY DEF NoJob, Job, JobSteps, Slots, Keys
<1>2. UNCHANGED Unused
  BY DEF Unused
<1>3. Ordered(w, NoJob)
  BY <1>1 DEF Presenting, Ordered
<1>4. /\ UNCHANGED givenUp /\ token' \in [Pairs -> {"none", "live", "revoked"}] /\ parent' \in [Pairs -> Slots]
      /\ fresh' \subseteq Pairs \ Unused' /\ store' \in [Keys -> Slots]
      /\ signIns' \in 0..MaxSignIns /\ signOuts' \in 0..MaxSignOuts /\ replays' \in Nat
  BY <1>2 DEF TypeInv, TypeOK
<1>5. /\ \A k \in Pairs : token[k] # "none" => token'[k] # "none"
      /\ \A key \in Keys : store'[key] # None => token'[store'[key]] # "none"
  BY DEF TypeInv, OnlyIssued
<1>6. /\ job' = [job EXCEPT ![w] = NoJob]
      /\ call' = IF w[2] = "refresh" THEN Woken(w[1], ok) ELSE call
  BY DEF Settle
<1> QED BY <1>1, <1>3, <1>4, <1>5, <1>6, TypeJob

(* A pair is issued to a job that will store it, or to nobody. *)
LEMMA TypeIssue ==
  ASSUME TypeInv, NEW w \in Jobs, NEW k \in Pairs, NEW from \in Slots, NEW new \in Job,
         Issue(k, from), job' = [job EXCEPT ![w] = new],
         Ordered(w, new), new.got \in {None, k}, new.carried \in {None, job[w].carried},
         new.step # "idle" \/ w[2] # "refresh",
         UNCHANGED <<store, call, signOuts, faults, replays, lost, givenUp>>,
         signIns' \in 0..MaxSignIns
  PROVE  TypeInv'
<1> USE DEF TypeInv
<1>1. /\ token' \in [Pairs -> {"none", "live", "revoked"}] /\ parent' \in [Pairs -> Slots]
      /\ \A j \in Pairs : token'[j] = IF j = k THEN "live" ELSE token[j]
  BY DEF TypeOK, Issue
<1>2. fresh' \subseteq Pairs \ Unused'
  BY <1>1 DEF TypeOK, Issue, Unused
<1>3. /\ \A j \in Pairs : token[j] # "none" => token'[j] # "none"
      /\ \A key \in Keys : store'[key] # None => token'[store'[key]] # "none"
  <2>1. store \in [Keys -> Slots]
    BY DEF TypeOK
  <2> QED BY <1>1, <2>1 DEF OnlyIssued, Slots
<1>4. new.carried # None => token'[new.carried] # "none"
  <2>1. job[w] \in Job
    BY DEF TypeOK
  <2> QED BY <1>1, <2>1 DEF OnlyIssued, Job, Slots
<1>5. k # None /\ token'[k] # "none"
  BY <1>1 DEF Pairs, None
<1>6. /\ store' \in [Keys -> Slots] /\ signOuts' \in 0..MaxSignOuts
      /\ faults' \in 0..MaxFaults /\ replays' \in Nat /\ lost' \in BOOLEAN
  BY DEF TypeOK
<1> HIDE DEF TypeInv
<1>7. UNCHANGED <<call, givenUp>> /\ (new.got # None => token'[new.got] # "none")
  BY <1>5
<1> QED BY <1>1, <1>2, <1>3, <1>4, <1>6, <1>7, TypeJob

(* A job goes on, and nothing is issued; it may revoke a token, or write a key. *)
LEMMA TypeGoOn ==
  ASSUME TypeInv, NEW w \in Jobs, NEW new \in Job, job' = [job EXCEPT ![w] = new],
         new.step # "idle" \/ w[2] # "refresh",
         Ordered(w, new),
         new.carried \in {None, job[w].carried, store["refresh"]},
         new.got \in {None, job[w].got},
         token' = token \/ token' = Rotated(job[w].carried),
         store' = store \/ \E key \in Keys, k \in {None, job[w].got} : store' = [store EXCEPT ![key] = k],
         UNCHANGED <<parent, fresh, call, signIns>>,
         signOuts' \in 0..MaxSignOuts, faults' \in 0..MaxFaults, replays' \in Nat, lost' = lost,
         givenUp' = givenUp
  PROVE  TypeInv'
<1> USE DEF TypeInv
<1>1. /\ token \in [Pairs -> {"none", "live", "revoked"}] /\ store \in [Keys -> Slots]
      /\ job[w] \in Job /\ "refresh" \in Keys
  BY DEF TypeOK, Keys
<1>2. /\ token' \in [Pairs -> {"none", "live", "revoked"}]
      /\ \A k \in Pairs : token[k] # "none" => token'[k] # "none"
      /\ job[w].carried # None => token[job[w].carried] # "none"
  <2>1. token' \in [Pairs -> {"none", "live", "revoked"}]
    BY <1>1 DEF Rotated
  <2>2. job[w].carried # None => token[job[w].carried] # "none"
    BY DEF OnlyIssued
  <2>3. \A k \in Pairs : token'[k] \in {token[k], "revoked"}
    BY <1>1 DEF Rotated
  <2> QED BY <2>1, <2>2, <2>3
<1>3. \A k \in Pairs : token[k] = "none" => token'[k] = "none"
  <2>1. \A k \in Pairs : k # job[w].carried => token'[k] = token[k]
    BY <1>1 DEF Rotated
  <2>2. \A k \in Pairs : k # None
    BY DEF Pairs, None
  <2> QED BY <1>2, <2>1, <2>2
<1>4. /\ store' \in [Keys -> Slots]
      /\ \A key \in Keys : store'[key] \in {None, job[w].got, store[key]}
  BY <1>1 DEF Job, Slots
<1>5. \A key \in Keys : store'[key] # None => token'[store'[key]] # "none"
  BY <1>1, <1>2, <1>4 DEF OnlyIssued, Slots, Job
<1>6. /\ new.carried # None => token'[new.carried] # "none"
      /\ new.got # None => token'[new.got] # "none"
  BY <1>1, <1>2 DEF OnlyIssued, Slots, Job
<1>7. fresh' \subseteq Pairs \ Unused' /\ parent' \in [Pairs -> Slots]
  BY <1>2 DEF TypeOK, Unused
<1>8. signIns' \in 0..MaxSignIns /\ lost' \in BOOLEAN /\ UNCHANGED call
  BY DEF TypeOK
<1>9. TypeInv
  OBVIOUS
<1> HIDE DEF TypeInv
<1> QED BY <1>9, <1>2, <1>4, <1>5, <1>6, <1>7, <1>8, TypeJob

LEMMA TypeNext == TypeInv /\ [Next]_vars => TypeInv'
<1> SUFFICES ASSUME TypeInv, [Next]_vars PROVE TypeInv'
  OBVIOUS
<1> USE JobParts
<1>1. /\ job \in [Jobs -> Job] /\ token \in [Pairs -> {"none", "live", "revoked"}]
      /\ call \in [Fetches -> Call] /\ store \in [Keys -> Slots]
      /\ faults \in 0..MaxFaults /\ replays \in Nat /\ signOuts \in 0..MaxSignOuts
      /\ signIns \in 0..MaxSignIns
  BY DEF TypeInv, TypeOK, Call
<1>2. \A w \in Jobs : /\ job[w] \in Job /\ job[w].carried \in Slots /\ job[w].got \in Slots
                      /\ job[w].todo \subseteq Keys
  BY <1>1 DEF Job
<1>3. CASE \E k \in Pairs : AccessExpires(k)
  BY <1>3 DEF AccessExpires, TypeInv, TypeOK, JobsInOrder, OnlyIssued, Unused
<1>4. CASE \E x \in Fetches : Fetch(x) \/ Answer(x)
  <2>1. /\ call' \in [Fetches -> Call] /\ UNCHANGED <<token, parent, fresh, store, job, boundVars, replays, lost, givenUp>>
        /\ \A x \in Fetches : call'[x].step = "waiting" => call[x].step = "waiting"
    <3>1. Send(FALSE) \in Call /\ NoCall \in Call /\ Send(FALSE).step # "waiting" /\ NoCall.step # "waiting"
      BY <1>1 DEF Send, Call, CallSteps, Keys, NoCall, Slots
    <3>2. PICK x \in Fetches : Fetch(x) \/ Answer(x)
      BY <1>4
    <3>3. \E r \in {Send(FALSE), NoCall} : call' = [call EXCEPT ![x] = r]
      BY <3>2 DEF Fetch, Answer
    <3>4. UNCHANGED <<token, parent, fresh, store, job, boundVars, replays, lost, givenUp>>
      BY <3>2 DEF Fetch, Answer
    <3>5. PICK r \in Call : r.step # "waiting" /\ call' = [call EXCEPT ![x] = r]
      BY <3>1, <3>3
    <3>6. call' \in [Fetches -> Call] /\ \A y \in Fetches : call'[y] = IF y = x THEN r ELSE call[y]
      BY <1>1, <3>5
    <3> QED BY <3>4, <3>5, <3>6
  <2>2. TypeOK'
    BY <2>1 DEF TypeInv, TypeOK, Call, Unused
  <2> QED BY <2>1, <2>2 DEF TypeInv, JobsInOrder, OnlyIssued
<1>5. CASE \E x \in Fetches : Unauthorized(x)
  <2>1. PICK x \in Fetches : Unauthorized(x)
    BY <1>5
  <2> DEFINE w == RefreshOf(x[1])
  <2>2. w \in Jobs /\ w[2] = "refresh"
    OBVIOUS
  <2>3. /\ call' \in [Fetches -> Call]
        /\ \A y \in Fetches : call'[y].step = "waiting" => y = x \/ call[y].step = "waiting"
    <3>1. [call[x] EXCEPT !.step = "waiting"] \in Call
      BY <1>1 DEF Call, CallSteps
    <3>2. call' = [call EXCEPT ![x] = [call[x] EXCEPT !.step = "waiting"]]
      BY <2>1 DEF Unauthorized
    <3> QED BY <1>1, <3>1, <3>2
  <2>4. /\ job' \in [Jobs -> Job] /\ job'[w].step # "idle"
        /\ \A v \in Jobs : /\ job'[v].step = job[v].step \/ (v = w /\ job'[v].step = "reading")
                           /\ job'[v].carried = job[v].carried /\ job'[v].got = job[v].got
                           /\ job'[v].todo = job[v].todo
    <3>1. [job[w] EXCEPT !.step = "reading"] \in Job
      BY <1>2, <2>2 DEF Job, JobSteps
    <3>2. job' = IF job[w].step = "idle"
                   THEN [job EXCEPT ![w] = [job[w] EXCEPT !.step = "reading"]] ELSE job
      BY <2>1 DEF Unauthorized
    <3> DEFINE new == [job[w] EXCEPT !.step = "reading"]
    <3>3. /\ new.step = "reading" /\ new.carried = job[w].carried /\ new.got = job[w].got
          /\ new.todo = job[w].todo
      BY <1>2, <2>2 DEF Job
    <3>4. new \in Job /\ job' = IF job[w].step = "idle" THEN [job EXCEPT ![w] = new] ELSE job
      BY <3>1, <3>2
    <3> HIDE DEF new, w
    <3>5. CASE job[w].step = "idle"
      BY <1>1, <2>2, <3>3, <3>4, <3>5
    <3>6. CASE job[w].step # "idle"
      BY <1>1, <2>2, <3>4, <3>6
    <3> QED BY <3>5, <3>6
  <2>5. UNCHANGED <<token, parent, fresh, store, boundVars, replays, lost, givenUp>>
    BY <2>1 DEF Unauthorized
  <2>6. ASSUME NEW t \in Tabs, NEW c \in Calls, job'[RefreshOf(t)].step = "idle"
        PROVE  call'[<<t, c>>].step # "waiting"
    <3>1. x[1] # t
      BY <2>4, <2>6
    <3>2. job[RefreshOf(t)].step = "idle"
      BY <2>4, <2>6
    <3> QED BY <2>3, <3>1, <3>2 DEF TypeInv, TypeOK
  <2>7. TypeOK'
    <3>1. \A t \in Tabs : \/ job'[RefreshOf(t)].step # "idle"
                         \/ \A c \in Calls : call'[<<t, c>>].step # "waiting"
      BY <2>6
    <3> QED BY <2>3, <2>4, <2>5, <3>1 DEF TypeInv, TypeOK, Call, Unused
  <2>8. JobsInOrder'
    <3>1. Ordered(w, job'[w])
      BY <2>2, <2>4, AbandonedAssumption DEF TypeInv, JobsInOrder, Ordered, Presenting
    <3> QED BY <2>2, <2>4, <3>1 DEF TypeInv, JobsInOrder, Ordered, Presenting
  <2>9. OnlyIssued'
    BY <2>4, <2>5 DEF TypeInv, OnlyIssued
  <2> QED BY <2>7, <2>8, <2>9 DEF TypeInv
<1>6. CASE \E w \in Jobs : JobStep(w)
  <2>1. PICK w \in Jobs : JobStep(w)
    BY <1>6
  <2>2. CASE ReadRefreshToken(w)
    <3>1. CASE store["refresh"] = None
      BY <1>1, <2>2, <3>1, TypeSettle DEF ReadRefreshToken, TypeInv, TypeOK
    <3>2. CASE store["refresh"] # None
      <4> DEFINE new == [job[w] EXCEPT !.step = "asking", !.carried = store["refresh"]]
      <4>0. store["refresh"] \in Slots
        BY <1>1 DEF Keys
      <4>1. new \in Job
        BY <1>2, <4>0, JobRecords
      <4>4. job' = [job EXCEPT ![w] = new]
        BY <1>1, <2>2, <3>2 DEF ReadRefreshToken
      <4>2. /\ new.step = "asking" /\ new.carried = store["refresh"] /\ new.got = job[w].got
            /\ Ordered(w, new)
        BY <1>2, <2>2, <3>2 DEF ReadRefreshToken, Refreshing, Job, Ordered
      <4>3. UNCHANGED <<token, parent, fresh, store, call, boundVars, replays, lost, givenUp>>
        BY <2>2, <3>2 DEF ReadRefreshToken
      <4> HIDE DEF new
      <4> QED BY <1>1, <3>2, <4>1, <4>2, <4>3, <4>4, TypeGoOn
    <3> QED BY <3>1, <3>2
  <2>3. CASE FindToken(w)
    <3>1. CASE Valid(job[w].carried)
      <4> DEFINE new == [job[w] EXCEPT !.step = "rotating"]
      <4>1. new \in Job /\ job' = [job EXCEPT ![w] = new]
        BY <1>1, <1>2, <2>3, <3>1 DEF FindToken, Job, JobSteps
      <4>2. /\ new.step = "rotating" /\ new.carried = job[w].carried /\ new.got = job[w].got
            /\ new.carried # None /\ Ordered(w, new)
        BY <1>2, <2>3 DEF FindToken, Refreshing, Job, TypeInv, JobsInOrder, Ordered, Presenting
      <4>3. UNCHANGED <<token, parent, fresh, store, call, boundVars, replays, lost, givenUp>>
        BY <2>3, <3>1 DEF FindToken
      <4> HIDE DEF new
      <4> QED BY <1>1, <4>1, <4>2, <4>3, TypeGoOn
    <3>2. CASE ~Valid(job[w].carried)
      BY <1>1, <2>3, <3>2, TypeSettle DEF FindToken, TypeInv, TypeOK
    <3> QED BY <3>1, <3>2
  <2>4. CASE RevokeOld(w)
    <3> DEFINE new == [job[w] EXCEPT !.step = "issuing"]
    <3>1. new \in Job /\ job' = [job EXCEPT ![w] = new]
      BY <1>1, <1>2, <2>4 DEF RevokeOld, Job, JobSteps
    <3>2. /\ new.step = "issuing" /\ new.carried = job[w].carried /\ new.got = job[w].got
          /\ new.carried # None /\ Ordered(w, new)
      BY <1>2, <2>4 DEF RevokeOld, Refreshing, Job, TypeInv, JobsInOrder, Ordered, Presenting
    <3>3. /\ UNCHANGED <<parent, fresh, store, call, boundVars, lost, givenUp>>
          /\ token' = Rotated(job[w].carried) /\ replays' \in Nat
      BY <1>1, <2>4 DEF RevokeOld
    <3> HIDE DEF new
    <3> QED BY <1>1, <3>1, <3>2, <3>3, TypeGoOn
  <2>5. CASE IssueNew(w)
    <3>1. PICK k \in Pairs : Issue(k, job[w].carried) /\ job' = [job EXCEPT ![w] = Answered(w, k)]
      BY <2>5 DEF IssueNew
    <3> DEFINE new == Answered(w, k)
    <3>2. new \in Job /\ k \in Slots /\ k # None
      <4>1. job[w] \in Job /\ k \in Slots /\ k # None
        BY <1>2 DEF Slots, Pairs, None
      <4> QED BY <4>1, JobRecords DEF Answered
    <3>3. /\ new.got \in {None, k} /\ new.carried \in {None, job[w].carried}
          /\ IF w[2] \in Abandoned THEN new.step = "idle" /\ new.carried = None /\ new.got = None
             ELSE new.step = "storing" /\ new.got = k
      BY <1>2 DEF Answered, NoJob, Job
    <3>4. UNCHANGED <<store, call, boundVars, replays, lost, givenUp>>
      BY <2>5 DEF IssueNew
    <3>5. Ordered(w, new)
      BY <3>2, <3>3 DEF Ordered, Presenting
    <3>6. new.step # "idle" \/ w[2] # "refresh"
      BY <3>3
    <3>8. job' = [job EXCEPT ![w] = new]
      BY <3>1
    <3> HIDE DEF new
    <3>7. job[w].carried \in Slots /\ signIns' \in 0..MaxSignIns
      BY <1>1, <1>2, <3>4
    <3> QED BY <3>1, <3>2, <3>3, <3>4, <3>5, <3>6, <3>7, <3>8, TypeIssue
  <2>6. CASE TokensStored(w)
    BY <1>1, <2>6, TypeSettle DEF TokensStored, TypeInv, TypeOK
  <2>7. CASE Revoke(w)
    <3> DEFINE new == [job[w] EXCEPT !.step = "clearing"]
    <3>1. new \in Job /\ job' = [job EXCEPT ![w] = new]
      BY <1>1, <1>2, <2>7 DEF Revoke, Job, JobSteps
    <3>2. new.step = "clearing" /\ new.carried = job[w].carried /\ new.got = job[w].got
      BY <1>2 DEF Job
    <3>5. Ordered(w, new)
      BY <2>7, <3>2 DEF Revoke, TypeInv, JobsInOrder, Ordered, Presenting
    <3>3. /\ UNCHANGED <<parent, fresh, store, call, boundVars, replays, lost, givenUp>>
          /\ token' = Rotated(job[w].carried)
      BY <2>7 DEF Revoke
    <3> HIDE DEF new
    <3> QED BY <1>1, <3>1, <3>2, <3>3, <3>5, TypeGoOn
  <2>8. ASSUME NEW key \in Keys, StoreToken(w, key)
        PROVE  TypeInv'
    <3> DEFINE new == [job[w] EXCEPT !.todo = @ \ {key}]
    <3>1. new \in Job /\ job' = [job EXCEPT ![w] = new]
      BY <1>1, <1>2, <2>8 DEF StoreToken, Job
    <3>2. /\ new.step = "storing" /\ new.carried = job[w].carried /\ new.got = job[w].got
          /\ new.got # None /\ Ordered(w, new)
      BY <1>2, <2>8 DEF StoreToken, Job, TypeInv, JobsInOrder, Ordered, Presenting
    <3>3. /\ UNCHANGED <<token, parent, fresh, call, boundVars, replays, lost, givenUp>>
          /\ store' = [store EXCEPT ![key] = job[w].got]
      BY <2>8 DEF StoreToken
    <3> HIDE DEF new
    <3> QED BY <1>1, <3>1, <3>2, <3>3, TypeGoOn
  <2>9. ASSUME NEW key \in Keys, ClearToken(w, key)
        PROVE  TypeInv'
    <3> DEFINE new == IF job[w].todo = {key} THEN NoJob ELSE [job[w] EXCEPT !.todo = @ \ {key}]
    <3>0. NoJob \in Job /\ [job[w] EXCEPT !.todo = @ \ {key}] \in Job
      BY <1>2, JobRecords
    <3>1. new \in Job /\ job' = [job EXCEPT ![w] = new]
      <4>1. new \in Job
        BY <3>0
      <4>2. job' = [job EXCEPT ![w] = new]
        BY <2>9 DEF ClearToken
      <4> QED BY <4>1, <4>2
    <3>2. /\ new.step \in {"idle", "clearing"} /\ new.carried \in {None, job[w].carried}
          /\ new.got \in {None, job[w].got}
      BY <1>2, <2>9 DEF ClearToken, Job, NoJob
    <3>3. /\ UNCHANGED <<token, parent, fresh, call, boundVars, replays, lost, givenUp>>
          /\ store' = [store EXCEPT ![key] = None]
      BY <2>9 DEF ClearToken
    <3>4. w[2] = "session" /\ Ordered(w, new)
      BY <2>9, <3>2 DEF ClearToken, TypeInv, JobsInOrder, Ordered, Presenting
    <3> HIDE DEF new
    <3> QED BY <1>1, <3>1, <3>2, <3>3, <3>4, TypeGoOn
  <2> QED BY <2>1, <2>2, <2>3, <2>4, <2>5, <2>6, <2>7, <2>8, <2>9 DEF JobStep
<1>7. CASE \E w \in Jobs : RequestLost(w) \/ AnswerLost(w) \/ IssueFails(w)
  <2>1. PICK w \in Jobs : RequestLost(w) \/ AnswerLost(w) \/ IssueFails(w)
    BY <1>7
  <2>2. faults' \in 0..MaxFaults /\ UNCHANGED <<signIns, signOuts>>
    <3>1. Fault
      BY <2>1 DEF RequestLost, AnswerLost, IssueFails
    <3> QED BY <1>1, <3>1, BoundsAssumption DEF Fault
  <2>3. CASE RequestLost(w) /\ job[w].step = "revoking"
    <3> DEFINE new == [job[w] EXCEPT !.step = "clearing"]
    <3>0. job' = [job EXCEPT ![w] = new]
      BY <2>3 DEF RequestLost, Refreshing
    <3>1. new \in Job /\ job' = [job EXCEPT ![w] = new]
      BY <1>2, <3>0 DEF Job, JobSteps
    <3>2. new.step = "clearing" /\ new.carried = job[w].carried /\ new.got = job[w].got
      BY <1>2 DEF Job
    <3>3. Ordered(w, new)
      BY <2>3, <3>2 DEF TypeInv, JobsInOrder, Ordered, Presenting
    <3>4. UNCHANGED <<token, parent, fresh, store, call, replays, lost, givenUp>>
      BY <2>3 DEF RequestLost, Refreshing
    <3> HIDE DEF new
    <3> QED BY <1>1, <2>2, <3>1, <3>2, <3>3, <3>4, TypeGoOn
  <2>4. CASE ~(RequestLost(w) /\ job[w].step = "revoking")
    <3>1. Settle(w, FALSE) /\ UNCHANGED <<token, parent, fresh, store, replays, givenUp>>
      BY <2>1, <2>4 DEF RequestLost, AnswerLost, IssueFails
    <3>2. lost' \in BOOLEAN
      BY <2>1 DEF RequestLost, AnswerLost, IssueFails, TypeInv, TypeOK
    <3> QED BY <2>2, <3>1, <3>2, TypeSettle
  <2> QED BY <2>3, <2>4
<1>8. CASE \E t \in Tabs : SignIn(t)
  <2>1. PICK t \in Tabs : SignIn(t)
    BY <1>8
  <2> DEFINE w == SessionOf(t)
  <2>2. PICK k \in Pairs :
           /\ Issue(k, None)
           /\ job' = [job EXCEPT ![w] = [step |-> "storing", carried |-> None, got |-> k, todo |-> Keys]]
    BY <2>1 DEF SignIn
  <2> DEFINE new == [step |-> "storing", carried |-> None, got |-> k, todo |-> Keys]
  <2>3. new \in Job /\ None \in Slots /\ w \in Jobs
    BY DEF Job, JobSteps, Slots
  <2>4. /\ new.step = "storing" /\ new.got = k /\ new.carried = None /\ k # None
        /\ job' = [job EXCEPT ![w] = new]
    BY <2>2 DEF Pairs, None
  <2>6. Ordered(w, new)
    BY <2>3, <2>4 DEF Ordered, Presenting
  <2>5. UNCHANGED <<store, call, signOuts, faults, replays, lost, givenUp>> /\ signIns' \in 0..MaxSignIns
    BY <1>1, <2>1, BoundsAssumption DEF SignIn
  <2> HIDE DEF new, w
  <2> QED BY <2>2, <2>3, <2>4, <2>5, <2>6, TypeIssue
<1>9. CASE \E t \in Tabs : SignOut(t)
  <2>1. PICK t \in Tabs : SignOut(t)
    BY <1>9
  <2> DEFINE w == SessionOf(t)
             new == [step |-> IF store["refresh"] = None THEN "clearing" ELSE "revoking",
                     carried |-> store["refresh"], got |-> None, todo |-> Keys]
  <2>2. new \in Job /\ w \in Jobs /\ w[2] = "session" /\ job' = [job EXCEPT ![w] = new]
    BY <1>1, <2>1 DEF Job, JobSteps, Slots, Keys, SignOut
  <2>3. /\ new.step # "idle" /\ new.carried = store["refresh"] /\ new.got = None
        /\ Ordered(w, new)
    BY <2>2 DEF Ordered, Presenting
  <2>4. /\ UNCHANGED <<token, parent, fresh, store, call, signIns, faults, replays, lost, givenUp>>
        /\ signOuts' \in 0..MaxSignOuts
    BY <1>1, <2>1, BoundsAssumption DEF SignOut
  <2> HIDE DEF new, w
  <2> QED BY <1>1, <2>2, <2>3, <2>4, TypeGoOn
<1>10. CASE \E t \in Tabs, a \in Abandoned : GiveUp(t, a)
  <2>1. PICK t \in Tabs, a \in Abandoned : GiveUp(t, a)
    BY <1>10
  <2> DEFINE v == RefreshOf(t)
             w == <<t, a>>
  <2>2. /\ v \in Jobs /\ v[2] = "refresh" /\ v[1] = t
        /\ w \in Jobs /\ w[2] = a /\ a # "refresh" /\ a # "session" /\ v # w
    OBVIOUS
  <2>3. /\ job' = [job EXCEPT ![v] = NoJob, ![w] = job[v]] /\ call' = Woken(t, FALSE)
        /\ job[v].step \in {"asking", "rotating", "issuing"} /\ lost' = TRUE
        /\ givenUp' = givenUp \cup {job[v].carried}
        /\ UNCHANGED <<token, parent, fresh, store, replays>>
    BY <2>1 DEF GiveUp
  <2>4. faults' \in 0..MaxFaults /\ UNCHANGED <<signIns, signOuts>>
    BY <1>1, <2>1, BoundsAssumption DEF GiveUp, Fault
  <2> HIDE DEF v, w
  <2>5. /\ job'[v] = NoJob /\ job'[w] = job[v] /\ \A u \in Jobs \ {v, w} : job'[u] = job[u]
        /\ job' \in [Jobs -> Job]
    <3>1. job \in [Jobs -> Job] /\ job[v] \in Job
      BY <1>1, <2>2
    <3>2. NoJob \in Job
      BY <3>1, JobRecords
    <3>3. DOMAIN job = Jobs
      BY <3>1
    <3> QED BY <2>2, <2>3, <3>1, <3>2, <3>3
  <2>6. Ordered(v, job[v]) /\ job[v].carried \in Pairs
    BY <1>2, <2>2, <2>3 DEF TypeInv, JobsInOrder, Ordered, Presenting, Slots
  <2>7. call' \in [Fetches -> Call] /\ \A x \in Fetches : call'[x] = call[x] \/ call'[x] = NoCall
    <3>1. NoCall \in Call
      BY DEF NoCall, Call, CallSteps, Slots
    <3> QED BY <1>1, <2>3, <3>1 DEF Woken
  <2>8. ASSUME NEW s \in Tabs, NEW c \in Calls, job'[RefreshOf(s)].step = "idle"
        PROVE  call'[<<s, c>>].step # "waiting"
    <3>1. CASE s = t
      BY <2>3, <3>1 DEF Woken, NoCall
    <3>2. CASE s # t
      <4>1. RefreshOf(s) \in Jobs \ {v, w}
        <5>1. RefreshOf(s) \in Jobs /\ RefreshOf(s)[1] = s /\ w[1] = t
          BY DEF w
        <5> QED BY <2>2, <3>2, <5>1
      <4>2. call[<<s, c>>].step # "waiting"
        BY <2>5, <2>8, <4>1 DEF TypeInv, TypeOK
      <4> QED BY <2>7, <4>2 DEF NoCall
    <3> QED BY <3>1, <3>2
  <2>9. TypeOK'
    <3>1. \A s \in Tabs : \/ job'[RefreshOf(s)].step # "idle"
                         \/ \A c \in Calls : call'[<<s, c>>].step # "waiting"
      BY <2>8
    <3>2. /\ givenUp' \subseteq Pairs /\ lost' \in BOOLEAN /\ faults' \in 0..MaxFaults
          /\ Unused' = Unused
      BY <2>3, <2>4, <2>6 DEF TypeInv, TypeOK, Unused
    <3> QED BY <2>3, <2>4, <2>5, <2>7, <3>1, <3>2 DEF TypeInv, TypeOK, Call
  <2>10. JobsInOrder'
    <3>1. Ordered(v, NoJob) /\ Ordered(w, job[v])
      BY <2>2, <2>3, <2>6 DEF Ordered, NoJob, Presenting
    <3> QED BY <2>5, <3>1 DEF TypeInv, JobsInOrder
  <2>11. OnlyIssued'
    BY <2>2, <2>3, <2>5 DEF TypeInv, OnlyIssued, NoJob
  <2> QED BY <2>9, <2>10, <2>11 DEF TypeInv
<1>11. CASE UNCHANGED vars
  BY <1>11 DEF vars, TypeInv, TypeOK, JobsInOrder, OnlyIssued, Unused
<1> QED BY <1>3, <1>4, <1>5, <1>6, <1>7, <1>8, <1>9, <1>10, <1>11 DEF Next, CallStep

LEMMA TypeAlways == Spec => []TypeInv
BY TypeInit, TypeNext, PTL DEF Spec

(* Types of every variable; a call waits only while its tab refreshes. *)
THEOREM SessionTypeCorrect == Spec => []TypeOK
BY TypeAlways, PTL DEF TypeInv

-----------------------------------------------------------------------------
(* What a step does to one job, and to the tokens *)

(* A refresh token on its way to the store. *)
OnItsWay(w) == job[w].step = "storing" /\ "refresh" \in job[w].todo

(* The refresh token that a job has presented is about to be overwritten. *)
AboutToReplace(w) ==
  \/ job[w].step = "issuing"
  \/ job[w].step \in {"storing", "clearing"} /\ "refresh" \in job[w].todo

Ends(w) == /\ job'[w] = NoJob
           /\ UNCHANGED <<token, parent, store, replays, signIns, givenUp>>
           /\ lost' \/ (~lost /\ ~AboutToReplace(w))

Advances(w) == /\ job'[w].step \in {"reading", "asking", "rotating", "revoking", "clearing"}
               /\ job'[w].step = "rotating" => /\ job'[w].carried = job[w].carried
                                               /\ job[w].carried \in Pairs
                                               /\ token[job[w].carried] = "live"
               /\ job'[w].carried \in {job[w].carried, store["refresh"]}
               /\ w[2] \in Abandoned => job[w].step # "idle" /\ job'[w].carried = job[w].carried
               /\ ~AboutToReplace(w) /\ job[w].step # "storing"
               /\ UNCHANGED <<token, parent, store, replays, signIns, lost, givenUp>>

Revokes(w) == /\ job[w].carried \in Pairs /\ job'[w].carried = job[w].carried
              /\ token' = [token EXCEPT ![job[w].carried] = "revoked"]
              /\ \/ /\ job[w].step = "rotating" /\ job'[w].step = "issuing"
                    /\ replays' = IF token[job[w].carried] = "revoked" THEN replays + 1 ELSE replays
                 \/ /\ job[w].step = "revoking" /\ job'[w].step = "clearing"
                    /\ "refresh" \in job'[w].todo
                    /\ UNCHANGED replays
              /\ UNCHANGED <<parent, store, signIns, lost, givenUp>>

Issues(w, k) == /\ token[k] = "none" /\ token' = [token EXCEPT ![k] = "live"]
                /\ parent' = [parent EXCEPT ![k] = IF job[w].step = "issuing"
                                                      THEN job[w].carried ELSE None]
                /\ IF w[2] \in Abandoned
                     THEN job[w].step = "issuing" /\ job'[w] = NoJob
                     ELSE /\ job'[w].step = "storing" /\ job'[w].got = k
                          /\ "refresh" \in job'[w].todo
                          /\ job'[w].carried = IF job[w].step = "issuing"
                                                  THEN job[w].carried ELSE None
                /\ \/ job[w].step = "issuing" /\ job[w].carried \in Pairs /\ UNCHANGED signIns
                   \/ job[w].step = "idle" /\ signIns' = signIns + 1
                /\ UNCHANGED <<store, replays, lost, givenUp>>

Writes(w, key) ==
  /\ job[w].step \in {"storing", "clearing"} /\ key \in job[w].todo
  /\ store' = [store EXCEPT ![key] = IF job[w].step = "storing" THEN job[w].got ELSE None]
  /\ \/ job'[w] = [job[w] EXCEPT !.todo = @ \ {key}]
     \/ job'[w] = NoJob /\ job[w].todo = {key} /\ job[w].step = "clearing"
  /\ UNCHANGED <<token, parent, replays, signIns, lost, givenUp>>

Moves(w) == /\ \A v \in Jobs \ {w} : job'[v] = job[v]
            /\ \/ Ends(w) \/ Advances(w) \/ Revokes(w)
               \/ \E k \in Pairs : Issues(w, k)
               \/ \E key \in Keys : Writes(w, key)

(* A refresh whose tab gives it up is the server's only. *)
HandsOver(v, w) ==
  /\ v # w /\ v[1] = w[1] /\ w[2] \in Abandoned
  /\ job[v].step \in {"asking", "rotating", "issuing"} /\ job[w].step = "idle"
  /\ job[v].carried \in Pairs
  /\ job'[v] = NoJob /\ job'[w] = job[v] /\ \A u \in Jobs \ {v, w} : job'[u] = job[u]
  /\ lost' /\ givenUp' = givenUp \cup {job[v].carried}
  /\ UNCHANGED <<token, parent, store, replays, signIns>>

(* Every step is one of these, or leaves tokens and jobs alone. *)
LEMMA StepKinds ==
  ASSUME TypeInv, [Next]_vars
  PROVE  \/ UNCHANGED <<token, parent, store, job, replays, signIns, lost, givenUp>>
         \/ \E w \in Jobs : Moves(w)
         \/ \E v, w \in Jobs : HandsOver(v, w)
<1> USE JobParts
<1>1. /\ job \in [Jobs -> Job] /\ token \in [Pairs -> {"none", "live", "revoked"}]
      /\ \A w \in Jobs : Ordered(w, job[w]) /\ job[w] \in Job /\ job[w].carried \in Slots
      /\ lost \in BOOLEAN
  BY DEF TypeInv, TypeOK, JobsInOrder, Job
<1>2. ASSUME NEW w \in Jobs, Settle(w, TRUE) \/ Settle(w, FALSE),
             UNCHANGED <<token, parent, store, replays, signIns, givenUp>>,
             lost' \/ (~lost /\ ~AboutToReplace(w))
      PROVE  Moves(w)
  BY <1>1, <1>2 DEF Settle, Moves, Ends
<1>3. ASSUME NEW w \in Jobs, NEW r \in Job, job' = [job EXCEPT ![w] = r]
      PROVE  job'[w] = r /\ \A v \in Jobs \ {w} : job'[v] = job[v]
  BY <1>1, <1>3
<1>4. CASE \/ \E k \in Pairs : AccessExpires(k)
           \/ \E x \in Fetches : Fetch(x) \/ Answer(x)
           \/ UNCHANGED vars
  BY <1>4 DEF AccessExpires, Fetch, Answer, vars
<1>5. CASE \E x \in Fetches : Unauthorized(x)
  <2>1. PICK x \in Fetches : Unauthorized(x)
    BY <1>5
  <2> DEFINE w == RefreshOf(x[1])
             new == [job[w] EXCEPT !.step = "reading"]
  <2>2. /\ UNCHANGED <<token, parent, store, replays, signIns, lost, givenUp>> /\ w \in Jobs
        /\ job' = IF job[w].step = "idle" THEN [job EXCEPT ![w] = new] ELSE job
        /\ w[2] \notin Abandoned
    BY <2>1, AbandonedAssumption DEF Unauthorized
  <2>3. new \in Job /\ new.step = "reading" /\ new.carried = job[w].carried
    <3>1. job[w] \in Job /\ "reading" \in JobSteps
      BY <1>1, <2>2 DEF JobSteps
    <3> HIDE DEF w
    <3>2. new.step = "reading" /\ new.carried = job[w].carried
      BY <3>1 DEF Job
    <3> QED BY <3>1, <3>2, JobRecords
  <2> HIDE DEF new, w
  <2>4. CASE job[w].step = "idle"
    <3>1. job'[w] = new /\ \A v \in Jobs \ {w} : job'[v] = job[v]
      BY <1>3, <2>2, <2>3, <2>4
    <3>2. Advances(w)
      BY <2>2, <2>3, <2>4, <3>1 DEF Advances, AboutToReplace
    <3> QED BY <2>2, <3>1, <3>2 DEF Moves
  <2>5. CASE job[w].step # "idle"
    BY <2>2, <2>5
  <2> QED BY <2>4, <2>5
<1>6. ASSUME NEW w \in Jobs, JobStep(w)
      PROVE  Moves(w)
  <2>1. CASE ReadRefreshToken(w)
    <3>1. CASE store["refresh"] = None
      BY <1>1, <1>2, <2>1, <3>1 DEF ReadRefreshToken, Refreshing, AboutToReplace
    <3>2. CASE store["refresh"] # None
      <4> DEFINE new == [job[w] EXCEPT !.step = "asking", !.carried = store["refresh"]]
      <4>1. new \in Job /\ new.step = "asking" /\ new.carried = store["refresh"]
        <5>1. job[w] \in Job /\ store["refresh"] \in Slots
          BY <1>1 DEF TypeInv, TypeOK, Keys
        <5>2. new.step = "asking" /\ new.carried = store["refresh"]
          BY <5>1 DEF Job
        <5> QED BY <5>1, <5>2, JobRecords
      <4>2. job' = [job EXCEPT ![w] = new]
        BY <1>1, <2>1, <3>2 DEF ReadRefreshToken
      <4> HIDE DEF new
      <4>3. job'[w] = new /\ \A v \in Jobs \ {w} : job'[v] = job[v]
        BY <1>3, <4>1, <4>2
      <4>4. w[2] \notin Abandoned
        BY <1>1, <2>1, AbandonedAssumption DEF ReadRefreshToken, Refreshing, Ordered
      <4> QED BY <2>1, <3>2, <4>1, <4>3, <4>4
              DEF ReadRefreshToken, Refreshing, Moves, Advances, AboutToReplace
    <3> QED BY <3>1, <3>2
  <2>2. CASE FindToken(w)
    <3>1. CASE Valid(job[w].carried)
      <4> DEFINE new == [job[w] EXCEPT !.step = "rotating"]
      <4>1. new \in Job /\ new.step = "rotating" /\ new.carried = job[w].carried
        <5>1. job[w] \in Job /\ "rotating" \in JobSteps
          BY <1>1 DEF JobSteps
        <5>2. new.step = "rotating" /\ new.carried = job[w].carried
          BY <5>1 DEF Job
        <5> QED BY <5>1, <5>2, JobRecords
      <4>2. job' = [job EXCEPT ![w] = new]
        BY <2>2, <3>1 DEF FindToken
      <4> HIDE DEF new
      <4>3. job'[w] = new /\ \A v \in Jobs \ {w} : job'[v] = job[v]
        BY <1>3, <4>1, <4>2
      <4>4. job[w].carried \in Pairs
        BY <1>1, <2>2 DEF FindToken, Refreshing, Ordered, Presenting, Slots
      <4> QED BY <2>2, <3>1, <4>1, <4>3, <4>4
              DEF FindToken, Refreshing, Moves, Advances, AboutToReplace, Valid
    <3>2. CASE ~Valid(job[w].carried)
      BY <1>1, <1>2, <2>2, <3>2 DEF FindToken, Refreshing, AboutToReplace
    <3> QED BY <3>1, <3>2
  <2>3. CASE RevokeOld(w)
    <3> DEFINE new == [job[w] EXCEPT !.step = "issuing"]
    <3>1. new \in Job /\ new.step = "issuing" /\ new.carried = job[w].carried
      BY <1>1 DEF Job, JobSteps
    <3>2. job' = [job EXCEPT ![w] = new]
      BY <2>3 DEF RevokeOld
    <3> HIDE DEF new
    <3>3. job'[w] = new /\ \A v \in Jobs \ {w} : job'[v] = job[v]
      BY <1>3, <3>1, <3>2
    <3>4. job[w].carried \in Pairs
      BY <1>1, <2>3 DEF RevokeOld, Refreshing, Ordered, Presenting, Slots
    <3>5. Revokes(w)
      BY <2>3, <3>1, <3>3, <3>4 DEF RevokeOld, Refreshing, Revokes, Rotated
    <3> QED BY <3>3, <3>5 DEF Moves
  <2>4. CASE IssueNew(w)
    <3>1. PICK k \in Pairs : Issue(k, job[w].carried) /\ job' = [job EXCEPT ![w] = Answered(w, k)]
      BY <2>4 DEF IssueNew
    <3>2. job'[w] = Answered(w, k) /\ \A v \in Jobs \ {w} : job'[v] = job[v]
      BY <1>1, <3>1
    <3>3. /\ w[2] \in Abandoned => Answered(w, k) = NoJob
          /\ w[2] \notin Abandoned =>
               /\ Answered(w, k).step = "storing" /\ Answered(w, k).carried = job[w].carried
               /\ Answered(w, k).got = k /\ Answered(w, k).todo = Keys
      BY <1>1 DEF Answered, Job
    <3>4. job[w].carried \in Pairs /\ job[w].step = "issuing"
      BY <1>1, <2>4 DEF IssueNew, Refreshing, Ordered, Presenting, Slots
    <3>5. /\ token[k] = "none" /\ token' = [token EXCEPT ![k] = "live"]
          /\ parent' = [parent EXCEPT ![k] = job[w].carried]
          /\ UNCHANGED <<signIns, store, replays, lost, givenUp>>
      BY <2>4, <3>1 DEF IssueNew, Issue, Unused
    <3>6. Issues(w, k)
      BY <3>2, <3>3, <3>4, <3>5 DEF Issues, Keys
    <3> QED BY <3>2, <3>6 DEF Moves
  <2>5. CASE TokensStored(w)
    BY <1>1, <1>2, <2>5 DEF TokensStored, AboutToReplace
  <2>6. CASE Revoke(w)
    <3> DEFINE new == [job[w] EXCEPT !.step = "clearing"]
    <3>1. new \in Job /\ new.step = "clearing" /\ new.carried = job[w].carried /\ new.todo = job[w].todo
      BY <1>1 DEF Job, JobSteps
    <3>2. job' = [job EXCEPT ![w] = new]
      BY <2>6 DEF Revoke
    <3> HIDE DEF new
    <3>3. job'[w] = new /\ \A v \in Jobs \ {w} : job'[v] = job[v]
      BY <1>3, <3>1, <3>2
    <3>4. job[w].carried \in Pairs /\ "refresh" \in job[w].todo
      BY <1>1, <2>6 DEF Revoke, Ordered, Presenting, Slots, Keys
    <3>5. Revokes(w)
      BY <2>6, <3>1, <3>3, <3>4 DEF Revoke, Revokes, Rotated
    <3> QED BY <3>3, <3>5 DEF Moves
  <2>7. ASSUME NEW key \in Keys, StoreToken(w, key)
        PROVE  Moves(w)
    <3>1. /\ job'[w] = [job[w] EXCEPT !.todo = @ \ {key}]
          /\ \A v \in Jobs \ {w} : job'[v] = job[v]
      BY <1>1, <2>7 DEF StoreToken
    <3>2. Writes(w, key)
      BY <2>7, <3>1 DEF StoreToken, Writes
    <3> QED BY <3>1, <3>2 DEF Moves
  <2>8. ASSUME NEW key \in Keys, ClearToken(w, key)
        PROVE  Moves(w)
    <3>1. /\ \/ job'[w] = [job[w] EXCEPT !.todo = @ \ {key}]
             \/ job'[w] = NoJob /\ job[w].todo = {key}
          /\ \A v \in Jobs \ {w} : job'[v] = job[v]
      BY <1>1, <2>8 DEF ClearToken
    <3>2. Writes(w, key)
      BY <2>8, <3>1 DEF ClearToken, Writes
    <3> QED BY <3>1, <3>2 DEF Moves
  <2> QED BY <1>6, <2>1, <2>2, <2>3, <2>4, <2>5, <2>6, <2>7, <2>8 DEF JobStep
<1>7. ASSUME NEW w \in Jobs, RequestLost(w) \/ AnswerLost(w) \/ IssueFails(w)
      PROVE  Moves(w)
  <2>1. CASE RequestLost(w) /\ job[w].step = "revoking"
    <3> DEFINE new == [job[w] EXCEPT !.step = "clearing"]
    <3>1. new \in Job /\ new.step = "clearing" /\ new.carried = job[w].carried
      BY <1>1 DEF Job, JobSteps
    <3>2. job' = [job EXCEPT ![w] = new]
      BY <2>1 DEF RequestLost, Refreshing
    <3> HIDE DEF new
    <3>3. job'[w] = new /\ \A v \in Jobs \ {w} : job'[v] = job[v]
      BY <1>3, <3>1, <3>2
    <3> QED BY <2>1, <3>1, <3>3 DEF RequestLost, Fault, Moves, Advances, AboutToReplace
  <2>2. CASE RequestLost(w) /\ job[w].step # "revoking"
    BY <1>1, <1>2, <2>2 DEF RequestLost, Fault, Refreshing, AboutToReplace
  <2>3. CASE AnswerLost(w) \/ IssueFails(w)
    BY <1>2, <2>3 DEF AnswerLost, IssueFails, Fault
  <2> QED BY <1>7, <2>1, <2>2, <2>3
<1>8. ASSUME NEW t \in Tabs, SignIn(t)
      PROVE  Moves(SessionOf(t))
  <2> DEFINE w == SessionOf(t)
  <2>1. PICK k \in Pairs :
           /\ Issue(k, None)
           /\ job' = [job EXCEPT ![w] = [step |-> "storing", carried |-> None, got |-> k, todo |-> Keys]]
    BY <1>8 DEF SignIn
  <2>2. /\ job'[w] = [step |-> "storing", carried |-> None, got |-> k, todo |-> Keys]
        /\ \A v \in Jobs \ {w} : job'[v] = job[v]
    BY <1>1, <2>1
  <2>3. Issues(w, k)
    <3>1. /\ job'[w].step = "storing" /\ job'[w].carried = None /\ job'[w].got = k
          /\ "refresh" \in job'[w].todo
      BY <2>2 DEF Keys
    <3>2. /\ token[k] = "none" /\ token' = [token EXCEPT ![k] = "live"]
          /\ parent' = [parent EXCEPT ![k] = None]
      BY <2>1, <3>1 DEF Issue, Unused
    <3>3. job[w].step = "idle" /\ signIns' = signIns + 1 /\ UNCHANGED <<store, replays, lost, givenUp>>
      BY <1>8 DEF SignIn
    <3>4. w[2] \notin Abandoned
      BY AbandonedAssumption
    <3> QED BY <3>1, <3>2, <3>3, <3>4 DEF Issues
  <2> QED BY <2>2, <2>3 DEF Moves
<1>9. ASSUME NEW t \in Tabs, SignOut(t)
      PROVE  Moves(SessionOf(t))
  <2> DEFINE w == SessionOf(t)
  <2>1. /\ job'[w].step \in {"clearing", "revoking"} /\ job'[w].carried = store["refresh"]
        /\ \A v \in Jobs \ {w} : job'[v] = job[v]
    BY <1>1, <1>9 DEF SignOut
  <2>2. w[2] \notin Abandoned
    BY AbandonedAssumption
  <2> QED BY <1>9, <2>1, <2>2 DEF SignOut, Moves, Advances, AboutToReplace
<1>10. ASSUME NEW t \in Tabs, NEW a \in Abandoned, GiveUp(t, a)
       PROVE  HandsOver(RefreshOf(t), <<t, a>>)
  <2>1. /\ RefreshOf(t) # <<t, a>> /\ RefreshOf(t)[1] = t /\ <<t, a>>[1] = t
        /\ RefreshOf(t) \in Jobs /\ <<t, a>> \in Jobs
    OBVIOUS
  <2>2. /\ job'[RefreshOf(t)] = NoJob /\ job'[<<t, a>>] = job[RefreshOf(t)]
        /\ \A u \in Jobs \ {RefreshOf(t), <<t, a>>} : job'[u] = job[u]
    BY <1>1, <1>10, <2>1 DEF GiveUp
  <2>3. job[RefreshOf(t)].carried \in Pairs
    BY <1>1, <1>10, <2>1 DEF GiveUp, Ordered, Presenting, Slots
  <2> QED BY <1>10, <2>1, <2>2, <2>3 DEF GiveUp, Fault, HandsOver
<1> QED BY <1>4, <1>5, <1>6, <1>7, <1>8, <1>9, <1>10 DEF Next, CallStep

(* Whatever only the server still runs was given up, and its answer is lost. *)
LeftBehind == \A w \in Jobs : w[2] \in Abandoned /\ job[w].step # "idle" =>
                                 lost /\ job[w].carried \in givenUp

LEMMA LeftInit == Init => LeftBehind
BY DEF Init, LeftBehind, NoJob

LEMMA LeftNext == TypeInv /\ LeftBehind /\ [Next]_vars => LeftBehind'
<1> SUFFICES ASSUME TypeInv, LeftBehind, [Next]_vars PROVE LeftBehind'
  OBVIOUS
<1>1. \A w \in Jobs : job[w] \in Job /\ Ordered(w, job[w])
  BY DEF TypeInv, TypeOK, JobsInOrder
<1>2. CASE UNCHANGED <<token, parent, store, job, replays, signIns, lost, givenUp>>
  BY <1>2 DEF LeftBehind
<1>3. ASSUME NEW w \in Jobs, Moves(w)
      PROVE  LeftBehind'
  <2>1. \A v \in Jobs \ {w} : job'[v] = job[v]
    BY <1>3 DEF Moves
  <2>2. givenUp' = givenUp /\ (lost => lost')
    <3>1. CASE Ends(w)
      BY <3>1 DEF Ends
    <3>2. CASE ~Ends(w)
      <4>1. UNCHANGED <<givenUp, lost>>
        BY <1>3, <3>2 DEF Moves, Advances, Revokes, Issues, Writes
      <4> QED BY <4>1
    <3> QED BY <3>1, <3>2
  <2>3. ASSUME w[2] \in Abandoned, job'[w].step # "idle"
        PROVE  job[w].step # "idle" /\ job'[w].carried = job[w].carried
    <3>1. ~Ends(w) /\ \A k \in Pairs : ~Issues(w, k)
      BY <2>3 DEF Ends, Issues, NoJob
    <3>2. \A key \in Keys : ~Writes(w, key)
      BY <1>1, <2>3 DEF Writes, Ordered
    <3> QED BY <1>3, <2>3, <3>1, <3>2 DEF Moves, Advances, Revokes
  <2> QED BY <2>1, <2>2, <2>3 DEF LeftBehind
<1>4. ASSUME NEW v \in Jobs, NEW w \in Jobs, HandsOver(v, w)
      PROVE  LeftBehind'
  <2>1. /\ lost' /\ givenUp' = givenUp \cup {job[v].carried}
        /\ job'[v].step = "idle" /\ job'[w] = job[v]
        /\ \A u \in Jobs \ {v, w} : job'[u] = job[u]
    BY <1>4 DEF HandsOver, NoJob
  <2> QED BY <2>1 DEF LeftBehind
<1> QED BY <1>2, <1>3, <1>4, StepKinds

LEMMA LeftAlways == Spec => []LeftBehind
BY LeftInit, LeftNext, TypeAlways, PTL DEF Spec

-----------------------------------------------------------------------------
(* The device is not stranded *)

(* Until it is stored, nobody else has a new refresh token, so it is live. *)
StillOurs ==
  /\ \A w \in Jobs : OnItsWay(w) =>
       /\ token[job[w].got] = "live"
       /\ store["refresh"] # job[w].got
       /\ \A v \in Jobs : job[v].carried # job[w].got
  /\ \A v, w \in Jobs : OnItsWay(v) /\ OnItsWay(w) /\ job[v].got = job[w].got => v = w

(* A revoked refresh token in the store is about to be overwritten. *)
ToBeReplaced ==
  LET k == store["refresh"] IN
  k # None /\ token[k] = "revoked" =>
    lost \/ \E w \in Jobs : job[w].carried = k /\ AboutToReplace(w)

StrandedInv == StillOurs /\ ToBeReplaced

LEMMA StrandedInit == Init => StrandedInv
BY DEF Init, StrandedInv, StillOurs, ToBeReplaced, OnItsWay, NoJob, Keys

LEMMA StrandedNext == TypeInv /\ LeftBehind /\ StrandedInv /\ [Next]_vars => StrandedInv'
<1> SUFFICES ASSUME TypeInv, LeftBehind, StrandedInv, [Next]_vars PROVE StrandedInv'
  OBVIOUS
<1>1. /\ token \in [Pairs -> {"none", "live", "revoked"}] /\ store \in [Keys -> Slots]
      /\ "refresh" \in Keys /\ lost \in BOOLEAN
      /\ \A v \in Jobs : /\ job[v] \in Job /\ job[v].carried \in Slots
                         /\ OnItsWay(v) => job[v].got \in Pairs /\ job[v].got # None
  BY DEF TypeInv, TypeOK, JobsInOrder, Ordered, Job, Slots, Keys, OnItsWay
<1>2. /\ store["refresh"] # None => token[store["refresh"]] # "none"
      /\ \A v \in Jobs : job[v].carried # None => token[job[v].carried] # "none"
      /\ \A v \in Jobs : OnItsWay(v) => token[job[v].got] # "none"
  BY <1>1 DEF TypeInv, OnlyIssued
<1>3. CASE UNCHANGED <<token, parent, store, job, replays, signIns, lost, givenUp>>
  BY <1>3 DEF StrandedInv, StillOurs, ToBeReplaced, OnItsWay, AboutToReplace
<1>4. ASSUME NEW w \in Jobs, Moves(w)
      PROVE  StrandedInv'
  <2>1. \A v \in Jobs \ {w} : job'[v] = job[v]
    BY <1>4 DEF Moves
  <2>2. \A v \in Jobs \ {w} : (OnItsWay(v)' <=> OnItsWay(v)) /\ (AboutToReplace(v)' <=> AboutToReplace(v))
    BY <2>1 DEF OnItsWay, AboutToReplace
  <2>3. CASE Ends(w)
    <3>1. ~OnItsWay(w)' /\ job'[w].carried = None
      BY <2>3 DEF Ends, OnItsWay, NoJob
    <3>2. StillOurs'
      BY <1>1, <2>1, <2>2, <2>3, <3>1 DEF StrandedInv, StillOurs, Ends
    <3>3. ToBeReplaced'
      BY <2>1, <2>2, <2>3 DEF StrandedInv, ToBeReplaced, Ends
    <3> QED BY <3>2, <3>3 DEF StrandedInv
  <2>4. CASE Advances(w)
    <3>1. ~OnItsWay(w)'
      BY <2>4 DEF Advances, OnItsWay
    <3>2. StillOurs'
      BY <1>1, <2>1, <2>2, <2>4, <3>1 DEF StrandedInv, StillOurs, Advances
    <3>3. ToBeReplaced'
      BY <2>1, <2>2, <2>4 DEF StrandedInv, ToBeReplaced, Advances
    <3> QED BY <3>2, <3>3 DEF StrandedInv
  <2>5. CASE Revokes(w)
    <3>1. ~OnItsWay(w)' /\ ~AboutToReplace(w) /\ AboutToReplace(w)'
      BY <2>5 DEF Revokes, OnItsWay, AboutToReplace
    <3>2. /\ job'[w].carried = job[w].carried /\ UNCHANGED <<store, lost>>
          /\ \A k \in Pairs : token'[k] = IF k = job[w].carried THEN "revoked" ELSE token[k]
      BY <1>1, <2>5 DEF Revokes
    <3>3. StillOurs'
      BY <1>1, <2>1, <2>2, <3>1, <3>2 DEF StrandedInv, StillOurs
    <3>4. ToBeReplaced'
      BY <1>1, <2>1, <2>2, <3>1, <3>2 DEF StrandedInv, ToBeReplaced, Slots
    <3> QED BY <3>3, <3>4 DEF StrandedInv
  <2>6. ASSUME NEW k \in Pairs, Issues(w, k), w[2] \in Abandoned
        PROVE  StrandedInv'
    <3>1. /\ UNCHANGED <<store, lost>> /\ token[k] = "none" /\ job'[w] = NoJob /\ lost
          /\ \A j \in Pairs : token'[j] = IF j = k THEN "live" ELSE token[j]
      BY <1>1, <2>6 DEF Issues, LeftBehind
    <3>2. ~OnItsWay(w)' /\ job'[w].carried = None
      BY <3>1 DEF OnItsWay, NoJob
    <3>3. \A v \in Jobs : OnItsWay(v) => job[v].got # k
      BY <1>2, <3>1
    <3>4. StillOurs'
      BY <1>1, <2>1, <2>2, <3>1, <3>2, <3>3 DEF StrandedInv, StillOurs
    <3> QED BY <3>1, <3>4 DEF StrandedInv, ToBeReplaced
  <2>7. ASSUME NEW k \in Pairs, Issues(w, k), w[2] \notin Abandoned
        PROVE  StrandedInv'
    <3>1. /\ UNCHANGED <<store, lost>> /\ token[k] = "none" /\ job'[w].got = k
          /\ job'[w].carried \in {None, job[w].carried}
          /\ AboutToReplace(w) => job'[w].carried = job[w].carried
          /\ \A j \in Pairs : token'[j] = IF j = k THEN "live" ELSE token[j]
      BY <1>1, <2>7 DEF Issues, AboutToReplace
    <3>2. OnItsWay(w)' /\ AboutToReplace(w)' /\ ~OnItsWay(w)
      BY <2>7 DEF Issues, OnItsWay, AboutToReplace
    <3>3. store["refresh"] # k /\ \A v \in Jobs : job[v].carried # k
      BY <1>2, <3>1 DEF Pairs, None
    <3>4. k # None
      BY DEF Pairs, None
    <3>5. \A v \in Jobs : OnItsWay(v) => job[v].got # k
      BY <1>2, <3>1
    <3>6. StillOurs'
      <4>1. ASSUME NEW v \in Jobs, OnItsWay(v)'
            PROVE  /\ token'[job'[v].got] = "live" /\ store'["refresh"] # job'[v].got
                   /\ \A u \in Jobs : job'[u].carried # job'[v].got
        <5>1. CASE v = w
          BY <2>1, <3>1, <3>3, <3>4, <5>1
        <5>2. CASE v # w
          <6>1. OnItsWay(v) /\ job'[v] = job[v]
            BY <2>1, <2>2, <4>1, <5>2
          <6>2. /\ token[job[v].got] = "live" /\ store["refresh"] # job[v].got
                /\ job[v].got \in Pairs /\ job[v].got # None
                /\ \A u \in Jobs : job[u].carried # job[v].got
            BY <1>1, <6>1 DEF StrandedInv, StillOurs
          <6> QED BY <2>1, <3>1, <6>1, <6>2
        <5> QED BY <5>1, <5>2
      <4>2. \A u, v \in Jobs : OnItsWay(u)' /\ OnItsWay(v)' /\ job'[u].got = job'[v].got => u = v
        BY <2>1, <2>2, <3>1, <3>2, <3>5 DEF StrandedInv, StillOurs
      <4> QED BY <4>1, <4>2 DEF StillOurs
    <3>7. ToBeReplaced'
      <4>1. /\ store'["refresh"] = store["refresh"] /\ lost' = lost
            /\ store["refresh"] # None => token'[store["refresh"]] = token[store["refresh"]]
        BY <1>1, <3>1, <3>3 DEF Slots
      <4>2. \A v \in Jobs : AboutToReplace(v) => AboutToReplace(v)' /\ job'[v].carried = job[v].carried
        BY <2>1, <2>2, <3>1, <3>2
      <4> QED BY <4>1, <4>2 DEF StrandedInv, ToBeReplaced
    <3> QED BY <3>6, <3>7 DEF StrandedInv
  <2>8. ASSUME NEW key \in Keys, Writes(w, key)
        PROVE  StrandedInv'
    <3>1. /\ UNCHANGED <<token, lost>>
          /\ job'[w].carried \in {None, job[w].carried}
          /\ store'["refresh"] = IF key # "refresh" THEN store["refresh"]
                                 ELSE IF job[w].step = "storing" THEN job[w].got ELSE None
      BY <1>1, <2>8 DEF Writes, NoJob, Job
    <3>2. /\ OnItsWay(w)' => OnItsWay(w) /\ key # "refresh" /\ job'[w].got = job[w].got
          /\ AboutToReplace(w) /\ key # "refresh" => AboutToReplace(w)' /\ job'[w].carried = job[w].carried
          /\ key = "refresh" /\ job[w].step = "storing" => OnItsWay(w)
      <4>1. /\ key \in job[w].todo /\ job[w].step \in {"storing", "clearing"}
            /\ \/ /\ job'[w].step = job[w].step /\ job'[w].todo = job[w].todo \ {key}
                  /\ job'[w].got = job[w].got /\ job'[w].carried = job[w].carried
               \/ job'[w].step = "idle" /\ job[w].todo = {key}
        BY <1>1, <2>8 DEF Writes, NoJob, Job
      <4> QED BY <4>1 DEF OnItsWay, AboutToReplace
    <3>3. StillOurs'
      <4>1. ASSUME NEW v \in Jobs, OnItsWay(v)'
            PROVE  /\ token'[job'[v].got] = "live" /\ store'["refresh"] # job'[v].got
                   /\ \A u \in Jobs : job'[u].carried # job'[v].got
        <5>1. /\ OnItsWay(v) /\ job'[v].got = job[v].got
              /\ v = w => key # "refresh"
          BY <2>1, <2>2, <3>2, <4>1
        <5>2. /\ token[job[v].got] = "live" /\ store["refresh"] # job[v].got
              /\ job[v].got # None /\ \A u \in Jobs : job[u].carried # job[v].got
              /\ OnItsWay(w) /\ job[v].got = job[w].got => v = w
          BY <1>1, <5>1 DEF StrandedInv, StillOurs
        <5>3. store'["refresh"] # job[v].got
          BY <3>1, <3>2, <5>1, <5>2
        <5> QED BY <2>1, <3>1, <5>1, <5>2, <5>3
      <4>2. \A u, v \in Jobs : OnItsWay(u)' /\ OnItsWay(v)' /\ job'[u].got = job'[v].got => u = v
        BY <2>1, <2>2, <3>2 DEF StrandedInv, StillOurs
      <4> QED BY <4>1, <4>2 DEF StillOurs
    <3>4. ToBeReplaced'
      <4>1. CASE key = "refresh"
        <5>1. store'["refresh"] # None => token'[store'["refresh"]] = "live"
          BY <3>1, <3>2, <4>1 DEF StrandedInv, StillOurs
        <5> QED BY <5>1 DEF ToBeReplaced
      <4>2. CASE key # "refresh"
        BY <2>1, <2>2, <3>1, <3>2, <4>2 DEF StrandedInv, ToBeReplaced
      <4> QED BY <4>1, <4>2
    <3> QED BY <3>3, <3>4 DEF StrandedInv
  <2> QED BY <1>4, <2>3, <2>4, <2>5, <2>6, <2>7, <2>8 DEF Moves
<1>5. ASSUME NEW v \in Jobs, NEW w \in Jobs, HandsOver(v, w)
      PROVE  StrandedInv'
  <2>1. /\ UNCHANGED <<store, token>> /\ lost' /\ job'[v] = NoJob /\ job'[w] = job[v]
        /\ \A u \in Jobs \ {v, w} : job'[u] = job[u]
        /\ job[v].step \in {"asking", "rotating", "issuing"}
    BY <1>5 DEF HandsOver
  <2>2. ~OnItsWay(v)' /\ ~OnItsWay(w)' /\ job'[v].carried = None
    BY <2>1 DEF OnItsWay, NoJob
  <2>3. \A u \in Jobs : OnItsWay(u)' => OnItsWay(u) /\ job'[u] = job[u]
    BY <2>1, <2>2 DEF OnItsWay
  <2>4. StillOurs'
    <3>1. ASSUME NEW x \in Jobs, OnItsWay(x)'
          PROVE  /\ token'[job'[x].got] = "live" /\ store'["refresh"] # job'[x].got
                 /\ \A u \in Jobs : job'[u].carried # job'[x].got
      <4>1. /\ job'[x] = job[x] /\ token[job[x].got] = "live" /\ store["refresh"] # job[x].got
            /\ job[x].got # None /\ \A u \in Jobs : job[u].carried # job[x].got
        BY <1>1, <2>3, <3>1 DEF StrandedInv, StillOurs
      <4> QED BY <2>1, <2>2, <4>1
    <3> QED BY <2>3, <3>1 DEF StrandedInv, StillOurs
  <2> QED BY <2>1, <2>4 DEF StrandedInv, ToBeReplaced
<1> QED BY <1>3, <1>4, <1>5, StepKinds

(* The device is never left with a refresh token the server has revoked, unless *)
(* an answer was lost: whoever has revoked it still has both keys to write, or  *)
(* "refresh" at least, and what is written there is a token nobody else has.    *)
THEOREM DeviceNotStranded == Spec => []NeverStranded
<1>1. ToBeReplaced => NeverStranded
  BY DEF ToBeReplaced, NeverStranded, Replacing, AboutToReplace
<1> QED BY <1>1, StrandedInit, StrandedNext, LeftAlways, TypeAlways, PTL DEF Spec, StrandedInv

-----------------------------------------------------------------------------
(* Rotation conserves sessions *)

ConservesInv == IsFiniteSet(Issuing) /\ RotationConserves

LEMMA ConservesNext == TypeInv /\ ConservesInv /\ [Next]_vars => ConservesInv'
<1> SUFFICES ASSUME TypeInv, ConservesInv, [Next]_vars PROVE ConservesInv'
  OBVIOUS
<1>1. /\ token \in [Pairs -> {"none", "live", "revoked"}]
      /\ signIns \in Nat /\ replays \in Nat
      /\ \A v \in Jobs : job[v].carried # None => token[job[v].carried] # "none"
  BY BoundsAssumption DEF TypeInv, TypeOK, OnlyIssued
<1>2. /\ IsFiniteSet(LiveTokens) /\ Cardinality(LiveTokens) \in Nat
      /\ IsFiniteSet(Issuing) /\ Cardinality(Issuing) \in Nat
  <2>1. IsFiniteSet(Pairs)
    BY BoundsAssumption, FS_Interval DEF Pairs
  <2>2. IsFiniteSet(LiveTokens)
    BY <2>1, FS_Subset DEF LiveTokens
  <2> QED BY <2>2, FS_CardinalityType DEF ConservesInv
<1>3. Cardinality(LiveTokens) + Cardinality(Issuing) <= signIns + replays
  BY DEF ConservesInv, RotationConserves
(* The sum stays within its bound when each part changes by at most one. *)
<1>4. CASE UNCHANGED <<token, parent, store, job, replays, signIns, lost, givenUp>>
  BY <1>4 DEF ConservesInv, RotationConserves, LiveTokens, Issuing
<1>5. ASSUME NEW w \in Jobs, Moves(w)
      PROVE  ConservesInv'
  <2>1. /\ job[w].step # "issuing" => IF job'[w].step = "issuing" THEN Issuing' = Issuing \cup {w}
                                                              ELSE Issuing' = Issuing
        /\ job[w].step = "issuing" => IF job'[w].step = "issuing" THEN Issuing' = Issuing
                                                              ELSE Issuing' = Issuing \ {w}
        /\ w \in Issuing <=> job[w].step = "issuing"
    BY <1>5 DEF Moves, Issuing
  <2>2. /\ IsFiniteSet(Issuing \cup {w}) /\ IsFiniteSet(Issuing \ {w})
        /\ w \notin Issuing => Cardinality(Issuing \cup {w}) = Cardinality(Issuing) + 1
        /\ w \in Issuing => Cardinality(Issuing \ {w}) = Cardinality(Issuing) - 1
    BY <1>2, FS_AddElement, FS_RemoveElement
  <2>3. ASSUME NEW k \in Pairs
        PROVE  /\ k \notin LiveTokens => Cardinality(LiveTokens \cup {k}) = Cardinality(LiveTokens) + 1
               /\ k \in LiveTokens => Cardinality(LiveTokens \ {k}) = Cardinality(LiveTokens) - 1
    BY <1>2, FS_AddElement, FS_RemoveElement
  <2> DEFINE L == Cardinality(LiveTokens)
             I == Cardinality(Issuing)
             L2 == Cardinality(LiveTokens')
             I2 == Cardinality(Issuing')
  <2>4. SUFFICES IsFiniteSet(Issuing') /\ L2 + I2 <= signIns' + replays'
    BY DEF ConservesInv, RotationConserves
  <2>5. IsFiniteSet(Issuing')
    BY <1>2, <2>1, <2>2
  <2>6. CASE Ends(w) \/ Advances(w) \/ \E key \in Keys : Writes(w, key)
    <3>1. LiveTokens' = LiveTokens /\ UNCHANGED <<signIns, replays>>
      BY <2>6 DEF Ends, Advances, Writes, LiveTokens
    <3>2. job'[w].step # "issuing"
      <4>1. job[w] \in Job
        BY DEF TypeInv, TypeOK
      <4>2. CASE Ends(w) \/ Advances(w)
        BY <4>2 DEF Ends, NoJob, Advances
      <4>3. ASSUME NEW key \in Keys, Writes(w, key)
            PROVE  job'[w].step # "issuing"
        BY <4>1, <4>3 DEF Writes, NoJob, Job
      <4> QED BY <2>6, <4>2, <4>3
    <3>3. I2 = I \/ I2 = I - 1
      BY <2>1, <2>2, <3>2
    <3>4. L2 = L
      BY <3>1
    <3>5. L + I <= signIns + replays /\ L \in Nat /\ I \in Nat
      BY <1>2, <1>3
    <3> HIDE DEF L, I, L2, I2
    <3>6. L2 + I2 <= signIns' + replays'
      BY <1>1, <3>1, <3>3, <3>4, <3>5
    <3> QED BY <2>5, <3>6
  <2>7. CASE Revokes(w)
    <3> DEFINE k == job[w].carried
    <3>1. k \in Pairs /\ LiveTokens' = LiveTokens \ {k} /\ UNCHANGED signIns /\ token[k] # "none"
      BY <1>1, <2>7 DEF Revokes, LiveTokens, Pairs, None
    <3>2. L2 = IF token[k] = "live" THEN L - 1 ELSE L
      BY <2>3, <3>1 DEF LiveTokens
    <3>3. \/ I2 = I + 1 /\ replays' = IF token[k] = "revoked" THEN replays + 1 ELSE replays
          \/ I2 = I /\ replays' = replays
      BY <2>1, <2>2, <2>7 DEF Revokes
    <3>4. token[k] = "live" \/ token[k] = "revoked"
      BY <1>1, <3>1
    <3>5. L + I <= signIns + replays /\ L \in Nat /\ I \in Nat
      BY <1>2, <1>3
    <3> HIDE DEF L, I, L2, I2, k
    <3>6. L2 + I2 <= signIns' + replays'
      BY <1>1, <3>1, <3>2, <3>3, <3>4, <3>5
    <3> QED BY <2>5, <3>6
  <2>8. ASSUME NEW k \in Pairs, Issues(w, k)
        PROVE  L2 + I2 <= signIns' + replays'
    <3>1. LiveTokens' = LiveTokens \cup {k} /\ k \notin LiveTokens /\ UNCHANGED replays
      BY <1>1, <2>8 DEF Issues, LiveTokens
    <3>2. L2 = L + 1
      BY <2>3, <3>1
    <3>5. job'[w].step # "issuing"
      BY <2>8 DEF Issues, NoJob
    <3>3. \/ I2 = I - 1 /\ signIns' = signIns
          \/ I2 = I /\ signIns' = signIns + 1
      BY <2>1, <2>2, <2>8, <3>5 DEF Issues
    <3>4. L + I <= signIns + replays /\ L \in Nat /\ I \in Nat
      BY <1>2, <1>3
    <3> HIDE DEF L, I, L2, I2
    <3> QED BY <1>1, <3>1, <3>2, <3>3, <3>4
  <2> QED BY <1>5, <2>5, <2>6, <2>7, <2>8 DEF Moves
<1>6. ASSUME NEW v \in Jobs, NEW w \in Jobs, HandsOver(v, w)
      PROVE  ConservesInv'
  <2>1. /\ job'[v] = NoJob /\ job'[w] = job[v] /\ \A u \in Jobs \ {v, w} : job'[u] = job[u]
        /\ job[w].step = "idle" /\ v # w /\ UNCHANGED <<token, replays, signIns>>
    BY <1>6 DEF HandsOver
  <2>2. v \notin Issuing' /\ w \notin Issuing
    BY <2>1 DEF Issuing, NoJob
  <2>3. Issuing' = IF v \in Issuing THEN (Issuing \ {v}) \cup {w} ELSE Issuing
    BY <2>1, <2>2 DEF Issuing
  <2>4. /\ IsFiniteSet(Issuing \ {v}) /\ IsFiniteSet((Issuing \ {v}) \cup {w})
        /\ v \in Issuing => Cardinality(Issuing \ {v}) = Cardinality(Issuing) - 1
        /\ Cardinality((Issuing \ {v}) \cup {w}) = Cardinality(Issuing \ {v}) + 1
    BY <1>2, <2>2, FS_AddElement, FS_RemoveElement
  <2>5. IsFiniteSet(Issuing') /\ Cardinality(Issuing') = Cardinality(Issuing)
    BY <1>2, <2>3, <2>4
  <2>6. LiveTokens' = LiveTokens
    BY <2>1 DEF LiveTokens
  <2> QED BY <1>3, <2>1, <2>5, <2>6 DEF ConservesInv, RotationConserves
<1> QED BY <1>4, <1>5, <1>6, StepKinds

(* Live refresh tokens, and those about to be issued, are at most one for each  *)
(* sign-in, and one more for each rotation of a token that another request had  *)
(* revoked since it was looked up.                                              *)
THEOREM SessionsConserved == Spec => []RotationConserves
<1>1. Init => ConservesInv
  <2> SUFFICES ASSUME Init PROVE ConservesInv
    OBVIOUS
  <2>1. LiveTokens = {} /\ Issuing = {} /\ signIns = 0 /\ replays = 0
    BY DEF Init, LiveTokens, Issuing, NoJob
  <2>2. IsFiniteSet({}) /\ Cardinality({}) = 0
    BY FS_EmptySet
  <2> QED BY <2>1, <2>2 DEF ConservesInv, RotationConserves
<1> QED BY <1>1, ConservesNext, TypeAlways, PTL DEF Spec, ConservesInv

-----------------------------------------------------------------------------
(* "The old refresh token is single-use" *)

(* Tokens that others were rotated from are revoked. *)
ParentsRevoked == \A j \in Pairs : parent[j] # None => token[parent[j]] = "revoked"

Childless(k) == \A j \in Pairs : parent[j] # k

(* A token that is about to be rotated into a new one is revoked by then. *)
Consumed == ParentsRevoked /\ \A w \in Jobs : job[w].step = "issuing" => token[job[w].carried] = "revoked"

LEMMA ConsumedHandedOver ==
  ASSUME Consumed, NEW v \in Jobs, NEW w \in Jobs, HandsOver(v, w)
  PROVE  Consumed'
BY DEF HandsOver, Consumed, ParentsRevoked, NoJob

LEMMA ConsumedNext ==
  ASSUME TypeInv, Consumed, NEW w \in Jobs, Moves(w)
  PROVE  Consumed'
<1>1. /\ token \in [Pairs -> {"none", "live", "revoked"}] /\ parent \in [Pairs -> Slots]
      /\ \A v \in Jobs : job[v] \in Job /\ job[v].carried \in Slots
      /\ \A v \in Jobs : job[v].step = "issuing" => job[v].carried \in Pairs
      /\ \A v \in Jobs \ {w} : job'[v] = job[v]
  BY DEF TypeInv, TypeOK, Job, JobsInOrder, Ordered, Presenting, Slots, Moves
<1>2. CASE Ends(w) \/ Advances(w) \/ \E key \in Keys : Writes(w, key)
  <2>1. UNCHANGED <<token, parent>> /\ job'[w].step # "issuing"
    <3>1. CASE Ends(w) \/ Advances(w)
      BY <3>1 DEF Ends, NoJob, Advances
    <3>2. ASSUME NEW key \in Keys, Writes(w, key)
          PROVE  UNCHANGED <<token, parent>> /\ job'[w].step # "issuing"
      BY <1>1, <3>2 DEF Writes, NoJob, Job
    <3> QED BY <1>2, <3>1, <3>2
  <2> QED BY <1>1, <2>1 DEF Consumed, ParentsRevoked
<1>3. CASE Revokes(w)
  <2>1. \A k \in Pairs : token'[k] = IF k = job[w].carried THEN "revoked" ELSE token[k]
    BY <1>1, <1>3 DEF Revokes
  <2>2. UNCHANGED parent /\ job'[w].carried = job[w].carried
    BY <1>3 DEF Revokes
  <2>3. ParentsRevoked'
    BY <1>1, <2>1, <2>2 DEF Consumed, ParentsRevoked, Slots
  <2>4. \A v \in Jobs : job'[v].step = "issuing" => token'[job'[v].carried] = "revoked"
    BY <1>1, <1>3, <2>1, <2>2 DEF Consumed, Revokes
  <2> QED BY <2>3, <2>4 DEF Consumed
<1>4. ASSUME NEW k \in Pairs, Issues(w, k)
      PROVE  Consumed'
  <2>1. /\ token[k] = "none" /\ \A j \in Pairs : token'[j] = IF j = k THEN "live" ELSE token[j]
        /\ \A j \in Pairs : j # k => parent'[j] = parent[j]
        /\ parent'[k] # None => job[w].step = "issuing" /\ parent'[k] = job[w].carried
    BY <1>1, <1>4 DEF Issues
  <2>2. job'[w].step # "issuing"
    BY <1>4 DEF Issues, NoJob
  <2>3. ParentsRevoked'
    BY <1>1, <2>1, <2>2 DEF Consumed, ParentsRevoked, Slots
  <2>4. \A v \in Jobs : job'[v].step = "issuing" => token'[job'[v].carried] = "revoked"
    BY <1>1, <2>1, <2>2 DEF Consumed
  <2> QED BY <2>3, <2>4 DEF Consumed
<1> QED BY <1>2, <1>3, <1>4 DEF Moves

(* A rotation of a token that was live is the only one of that token. *)
FirstUseInv ==
  /\ Consumed
  /\ replays = 0 =>
       /\ SingleUse
       /\ \A w \in Jobs : job[w].step = "issuing" =>
            /\ Childless(job[w].carried)
            /\ \A v \in Jobs : job[v].step = "issuing" /\ job[v].carried = job[w].carried => v = w

(* In one tab there is one refresh at a time, but for those that were given up. *)
OneTabInv ==
  /\ Consumed /\ SingleUseUnlessGivenUp
  /\ \A w \in Jobs : job[w].step \in {"rotating", "issuing"} =>
                       Childless(job[w].carried) \/ job[w].carried \in givenUp

LEMMA UseInit == Init => FirstUseInv /\ OneTabInv
BY DEF Init, FirstUseInv, OneTabInv, Consumed, ParentsRevoked, SingleUse, SingleUseUnlessGivenUp,
       NoJob

(* Pair k is a child of the token its job carries, and others keep their children. *)
LEMMA IssueOnce ==
  ASSUME TypeInv, NEW w \in Jobs, NEW k \in Pairs, Issues(w, k)
  PROVE  /\ job'[w].step \notin {"rotating", "issuing"}
         /\ \A j \in Pairs : j # k => parent'[j] = parent[j]
         /\ parent'[k] # None => job[w].step = "issuing" /\ parent'[k] = job[w].carried
         /\ \A c \in Pairs : Childless(c) /\ (job[w].step = "issuing" => c # job[w].carried) => Childless(c)'
<1>1. /\ parent \in [Pairs -> Slots]
      /\ \A j \in Pairs : parent'[j] = IF j # k THEN parent[j]
                                       ELSE IF job[w].step = "issuing" THEN job[w].carried ELSE None
  BY DEF TypeInv, TypeOK, Issues
<1>2. \A c \in Pairs : c # None
  BY DEF Pairs, None
<1>3. job'[w].step \notin {"rotating", "issuing"}
  BY DEF Issues, NoJob
<1> QED BY <1>1, <1>2, <1>3 DEF Childless

LEMMA FirstUseNext == TypeInv /\ FirstUseInv /\ [Next]_vars => FirstUseInv'
<1> SUFFICES ASSUME TypeInv, FirstUseInv, [Next]_vars PROVE FirstUseInv'
  OBVIOUS
<1>1. CASE UNCHANGED <<token, parent, store, job, replays, signIns, lost, givenUp>>
  BY <1>1 DEF FirstUseInv, Consumed, ParentsRevoked, SingleUse, Childless
<1>2. ASSUME NEW w \in Jobs, Moves(w)
      PROVE  FirstUseInv'
  <2>1. Consumed'
    BY <1>2, ConsumedNext DEF FirstUseInv
  <2>2. /\ \A v \in Jobs \ {w} : job'[v] = job[v]
        /\ replays \in Nat /\ job[w] \in Job
        /\ \A v \in Jobs : job[v].step = "issuing" => job[v].carried \in Pairs
    BY <1>2 DEF Moves, TypeInv, TypeOK, JobsInOrder, Ordered, Presenting, Job, Slots
  <2> DEFINE Only == \A v \in Jobs : job[v].step = "issuing" =>
                       /\ Childless(job[v].carried)
                       /\ \A u \in Jobs : job[u].step = "issuing" /\ job[u].carried = job[v].carried => u = v
  <2>3. SUFFICES ASSUME replays' = 0 PROVE SingleUse' /\ Only'
    BY <2>1 DEF FirstUseInv
  <2>4. replays = 0 /\ SingleUse /\ Only
    <3>1. replays = 0
      <4>1. replays' = replays \/ replays' = replays + 1
        BY <1>2 DEF Moves, Ends, Advances, Revokes, Issues, Writes
      <4> QED BY <2>2, <2>3, <4>1
    <3> QED BY <3>1 DEF FirstUseInv
  <2>5. CASE Ends(w) \/ Advances(w) \/ (\E key \in Keys : Writes(w, key))
             \/ (Revokes(w) /\ job[w].step = "revoking")
    <3>1. UNCHANGED parent /\ job'[w].step # "issuing"
      <4>1. CASE Ends(w) \/ Advances(w) \/ (Revokes(w) /\ job[w].step = "revoking")
        BY <4>1 DEF Ends, NoJob, Advances, Revokes
      <4>2. ASSUME NEW key \in Keys, Writes(w, key)
            PROVE  UNCHANGED parent /\ job'[w].step # "issuing"
        BY <2>2, <4>2 DEF Writes, NoJob, Job
      <4> QED BY <2>5, <4>1, <4>2
    <3> QED BY <2>2, <2>4, <3>1 DEF SingleUse, Childless
  <2>6. CASE Revokes(w) /\ job[w].step # "revoking"
    <3>1. /\ token[job[w].carried] # "revoked" /\ job[w].step = "rotating"
          /\ job'[w].carried = job[w].carried /\ job[w].carried \in Pairs /\ UNCHANGED parent
      BY <2>2, <2>3, <2>6 DEF Revokes
    <3>2. /\ Childless(job[w].carried)
          /\ \A v \in Jobs : job[v].step = "issuing" => job[v].carried # job[w].carried
      BY <3>1 DEF FirstUseInv, Consumed, ParentsRevoked, Childless, Pairs, None
    <3> QED BY <2>2, <2>4, <3>1, <3>2 DEF SingleUse, Childless
  <2>7. ASSUME NEW k \in Pairs, Issues(w, k)
        PROVE  SingleUse' /\ Only'
    <3>1. /\ job'[w].step # "issuing"
          /\ \A j \in Pairs : j # k => parent'[j] = parent[j]
          /\ parent'[k] # None => job[w].step = "issuing" /\ parent'[k] = job[w].carried
          /\ \A c \in Pairs : Childless(c) /\ (job[w].step = "issuing" => c # job[w].carried) => Childless(c)'
      BY <2>7, IssueOnce
    <3>2. SingleUse'
      BY <2>2, <2>4, <3>1 DEF SingleUse, Childless
    <3>3. Only'
      BY <2>2, <2>4, <3>1 DEF Childless
    <3> QED BY <3>2, <3>3
  <2> QED BY <1>2, <2>5, <2>6, <2>7 DEF Moves
<1>3. ASSUME NEW v \in Jobs, NEW w \in Jobs, HandsOver(v, w)
      PROVE  FirstUseInv'
  <2>1. Consumed'
    BY <1>3, ConsumedHandedOver DEF FirstUseInv
  <2>2. /\ job'[v].step = "idle" /\ job'[w] = job[v] /\ \A u \in Jobs \ {v, w} : job'[u] = job[u]
        /\ v # w /\ UNCHANGED <<parent, replays>>
    BY <1>3 DEF HandsOver, NoJob
  <2> QED BY <2>1, <2>2 DEF FirstUseInv, SingleUse, Childless
<1> QED BY <1>1, <1>2, <1>3, StepKinds

LEMMA OneTabNext ==
  (\A s, t \in Tabs : s = t) /\ TypeInv /\ LeftBehind /\ OneTabInv /\ [Next]_vars => OneTabInv'
<1> SUFFICES ASSUME \A s, t \in Tabs : s = t, TypeInv, LeftBehind, OneTabInv, [Next]_vars
             PROVE  OneTabInv'
  OBVIOUS
<1>1. CASE UNCHANGED <<token, parent, store, job, replays, signIns, lost, givenUp>>
  BY <1>1 DEF OneTabInv, Consumed, ParentsRevoked, SingleUseUnlessGivenUp, Childless
<1>2. ASSUME NEW w \in Jobs, Moves(w)
      PROVE  OneTabInv'
  <2>1. Consumed'
    BY <1>2, ConsumedNext DEF OneTabInv
  <2>2. /\ \A v \in Jobs \ {w} : job'[v] = job[v]
        /\ job[w] \in Job /\ givenUp' = givenUp
        /\ \A v \in Jobs : job[v].step \in {"rotating", "issuing"} => job[v].carried \in Pairs
    <3>1. givenUp' = givenUp
      <4>1. CASE Ends(w) \/ Advances(w) \/ Revokes(w)
        BY <4>1 DEF Ends, Advances, Revokes
      <4>2. CASE (\E k \in Pairs : Issues(w, k)) \/ \E key \in Keys : Writes(w, key)
        BY <4>2 DEF Issues, Writes
      <4> QED BY <1>2, <4>1, <4>2 DEF Moves
    <3> QED BY <1>2, <3>1 DEF Moves, TypeInv, TypeOK, JobsInOrder, Ordered, Presenting, Job, Slots
  <2>3. ASSUME NEW u \in Jobs, NEW v \in Jobs, u # v, job[u].step \in {"rotating", "issuing"},
               job[v].step \in {"rotating", "issuing"}, job[u].carried = job[v].carried
        PROVE  job[u].carried \in givenUp
    <3>1. u[2] # "session" /\ v[2] # "session"
      BY <2>3 DEF TypeInv, JobsInOrder, Ordered
    <3>2. u[2] \in Abandoned \/ v[2] \in Abandoned
      BY <2>3, <3>1, JobParts
    <3> QED BY <2>3, <3>2 DEF LeftBehind
  <2>4. CASE Ends(w) \/ (\E key \in Keys : Writes(w, key)) \/ Advances(w) \/ Revokes(w)
    <3>1. /\ UNCHANGED parent
          /\ job'[w].step \in {"rotating", "issuing"} =>
                /\ job'[w].carried = job[w].carried
                /\ job[w].carried \in Pairs
                /\ job[w].step = "rotating" \/ token[job[w].carried] = "live"
      <4>1. CASE Ends(w) \/ Advances(w) \/ Revokes(w)
        BY <4>1 DEF Ends, NoJob, Advances, Revokes
      <4>2. ASSUME NEW key \in Keys, Writes(w, key)
            PROVE  UNCHANGED parent /\ job'[w].step \notin {"rotating", "issuing"}
        BY <2>2, <4>2 DEF Writes, NoJob, Job
      <4> QED BY <2>4, <4>1, <4>2
    <3>2. job'[w].step \in {"rotating", "issuing"} =>
            Childless(job[w].carried)' \/ job'[w].carried \in givenUp'
      <4>1. token[job[w].carried] = "live" /\ job[w].carried \in Pairs => Childless(job[w].carried)
        BY DEF OneTabInv, Consumed, ParentsRevoked, Childless, Pairs, None
      <4> QED BY <2>2, <3>1, <4>1 DEF OneTabInv, Childless
    <3>3. SingleUseUnlessGivenUp'
      BY <2>2, <3>1 DEF OneTabInv, SingleUseUnlessGivenUp
    <3>4. \A v \in Jobs : job'[v].step \in {"rotating", "issuing"} =>
                            Childless(job[v].carried)' \/ job'[v].carried \in givenUp'
      BY <2>2, <3>1, <3>2 DEF OneTabInv, Childless
    <3> QED BY <2>1, <3>3, <3>4 DEF OneTabInv
  <2>5. ASSUME NEW k \in Pairs, Issues(w, k)
        PROVE  OneTabInv'
    <3>1. /\ job'[w].step \notin {"rotating", "issuing"}
          /\ \A j \in Pairs : j # k => parent'[j] = parent[j]
          /\ parent'[k] # None => job[w].step = "issuing" /\ parent'[k] = job[w].carried
          /\ \A c \in Pairs : Childless(c) /\ (job[w].step = "issuing" => c # job[w].carried) => Childless(c)'
      BY <2>5, IssueOnce
    <3>2. SingleUseUnlessGivenUp'
      <4>1. \A j \in Pairs : parent[j] = parent'[k] /\ parent'[k] # None => parent'[k] \in givenUp
        BY <2>2, <3>1 DEF OneTabInv, Childless
      <4> QED BY <2>2, <3>1, <4>1 DEF OneTabInv, SingleUseUnlessGivenUp
    <3>3. ASSUME NEW v \in Jobs, job'[v].step \in {"rotating", "issuing"}
          PROVE  Childless(job[v].carried)' \/ job'[v].carried \in givenUp'
      <4>1. /\ v # w /\ job'[v] = job[v] /\ job[v].carried \in Pairs
            /\ Childless(job[v].carried) \/ job[v].carried \in givenUp
        BY <2>2, <3>1, <3>3 DEF OneTabInv
      <4>2. job[w].step = "issuing" /\ job[w].carried = job[v].carried => job[v].carried \in givenUp
        BY <2>3, <3>3, <4>1
      <4> QED BY <2>2, <3>1, <4>1, <4>2 DEF Childless
    <3>4. \A v \in Jobs : job'[v].step \in {"rotating", "issuing"} => job'[v] = job[v]
      BY <2>2, <3>1
    <3> QED BY <2>1, <3>2, <3>3, <3>4 DEF OneTabInv
  <2> QED BY <1>2, <2>4, <2>5 DEF Moves
<1>3. ASSUME NEW v \in Jobs, NEW w \in Jobs, HandsOver(v, w)
      PROVE  OneTabInv'
  <2>1. Consumed'
    BY <1>3, ConsumedHandedOver DEF OneTabInv
  <2>2. /\ job'[v].step = "idle" /\ job'[w] = job[v] /\ \A u \in Jobs \ {v, w} : job'[u] = job[u]
        /\ UNCHANGED parent /\ givenUp' = givenUp \cup {job[v].carried}
    BY <1>3 DEF HandsOver, NoJob
  <2> QED BY <2>1, <2>2 DEF OneTabInv, SingleUseUnlessGivenUp, Childless
<1> QED BY <1>1, <1>2, <1>3, StepKinds

(* "The old refresh token is single-use" (AuthService.refresh), in any number   *)
(* of tabs, as long as nobody has rotated a token that another request revoked  *)
(* since it was looked up.                                                      *)
THEOREM SingleUseUnlessReplayed == Spec => [](replays = 0 => SingleUse)
<1>1. FirstUseInv => (replays = 0 => SingleUse)
  BY DEF FirstUseInv
<1> QED BY <1>1, UseInit, FirstUseNext, TypeAlways, PTL DEF Spec

(* In one tab refreshInFlight shares the refresh among the calls: a token is    *)
(* rotated twice only if the tab gave up a refresh with that token, whatever    *)
(* else is lost and whenever the user signs out.  The handler left behind may   *)
(* be anywhere between the look-up and the new token.                           *)
THEOREM OneTabSingleUse ==
  ASSUME \A s, t \in Tabs : s = t
  PROVE  Spec => []SingleUseUnlessGivenUp
<1>1. TypeInv /\ LeftBehind /\ OneTabInv /\ [Next]_vars => OneTabInv'
  BY OneTabNext
<1>2. OneTabInv => SingleUseUnlessGivenUp
  BY DEF OneTabInv
<1> QED BY <1>1, <1>2, UseInit, LeftAlways, TypeAlways, PTL DEF Spec
=============================================================================
