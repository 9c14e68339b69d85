------------------------------- MODULE Sessions -------------------------------
(***************************************************************************)
(* The session of one device: the rotating refresh tokens of AuthService   *)
(* against lib/apiClient.ts, lib/auth.ts and lib/tokenStore.ts in several  *)
(* tabs that share one token store.                                        *)
(*                                                                         *)
(* Access and refresh token are issued in pairs, numbered here.  A tab has *)
(* some apiFetch calls, the refresh they share (refreshInFlight) and at    *)
(* most one sign-in or sign-out; the last two are jobs.  Each statement    *)
(* that a handler awaits is a step.  A refresh that a tab gives up leaves  *)
(* the server's handler behind, which goes on and answers nobody.          *)
(***************************************************************************)
EXTENDS Naturals, FiniteSets

CONSTANTS Tabs,        \* tabs sharing the token store
          Calls,       \* apiFetch calls a tab has at a time
          Abandoned,   \* bound: refreshes of a tab that only the server still runs
          MaxPairs,    \* bound: token pairs ever issued
          MaxSignIns,  \* bound: sign-ins
          MaxSignOuts, \* bound: sign-outs
          MaxFaults    \* bound: lost requests, lost answers, tabs that close

ASSUME BoundsAssumption == /\ MaxPairs \in Nat /\ MaxSignIns \in Nat
                           /\ MaxSignOuts \in Nat /\ MaxFaults \in Nat

ASSUME AbandonedAssumption == "refresh" \notin Abandoned /\ "session" \notin Abandoned

Pairs == 1..MaxPairs
None == 0
Slots == Pairs \cup {None}
Keys == {"access", "refresh"}          \* ACCESS_KEY, REFRESH_KEY
Jobs == Tabs \X ({"refresh", "session"} \cup Abandoned)
Fetches == Tabs \X Calls

VARIABLES token,     \* RefreshToken rows: "none", "live" or "revoked"
          parent,    \* history: the token a row was rotated from
          fresh,     \* access tokens that have not expired
          store,     \* the device's token store: a slot for each key
          job,       \* [step, carried, got, todo] of each job
          call,      \* [step, sent, retried] of each apiFetch
          signIns, signOuts, faults,
          replays,   \* history: rotations of a token that was revoked already
          lost,      \* history: an answer did not reach the token store
          givenUp    \* history: the tokens of refreshes that a tab gave up

vars == <<token, parent, fresh, store, job, call, signIns, signOuts, faults, replays, lost,
          givenUp>>
boundVars == <<signIns, signOuts, faults>>

(* refreshTokens: reading, asking, (the server:) rotating, issuing, then storing. *)
(* Sign-in: storing.  Sign-out: revoking, clearing.                               *)
JobSteps == {"idle", "reading", "asking", "rotating", "issuing", "storing", "revoking",
             "clearing"}
CallSteps == {"idle", "sent", "waiting"}

(* carried: the token a request brings; got: the pair it earns; todo: keys to write. *)
NoJob == [step |-> "idle", carried |-> None, got |-> None, todo |-> {}]
NoCall == [step |-> "idle", sent |-> None, retried |-> FALSE]

Init == /\ token = [k \in Pairs |-> "none"]
        /\ parent = [k \in Pairs |-> None]
        /\ fresh = {}
        /\ store = [key \in Keys |-> None]
        /\ job = [w \in Jobs |-> NoJob]
        /\ call = [x \in Fetches |-> NoCall]
        /\ signIns = 0 /\ signOuts = 0 /\ faults = 0
        /\ replays = 0
        /\ lost = FALSE
        /\ givenUp = {}

-----------------------------------------------------------------------------
(* issueTokens: a new RefreshToken row and a signed access token. *)

Unused == {k \in Pairs : token[k] = "none"}
Issue(k, from) == /\ k \in Unused /\ \A j \in Unused : k <= j
                  /\ token' = [token EXCEPT ![k] = "live"]
                  /\ parent' = [parent EXCEPT ![k] = from]
                  /\ fresh' = fresh \cup {k}

AccessExpires(k) == /\ k \in fresh
                    /\ fresh' = fresh \ {k}
                    /\ UNCHANGED <<token, parent, store, job, call, boundVars, replays, lost, givenUp>>

-----------------------------------------------------------------------------
(* apiFetch *)

RefreshOf(t) == <<t, "refresh">>
SessionOf(t) == <<t, "session">>

Send(retried) == [step |-> "sent", sent |-> store["access"], retried |-> retried]

(* Bound: a call needs at most one pair, and as many are kept back. *)
Reserved == Cardinality({x \in Fetches : call[x].step # "idle"})
              + Cardinality({w \in Jobs : job[w].step \in {"reading", "asking", "rotating", "issuing"}})
              + (MaxSignIns - signIns)

Fetch(x) == /\ call[x].step = "idle"
            /\ Reserved < Cardinality(Unused)
            /\ call' = [call EXCEPT ![x] = Send(FALSE)]
            /\ UNCHANGED <<token, parent, fresh, store, job, boundVars, replays, lost, givenUp>>

(* JwtAuthGuard accepts the access token, or answers 401. *)
Accepted(x) == call[x].sent \in fresh

Answer(x) == /\ call[x].step = "sent"
             /\ Accepted(x) \/ call[x].retried
             /\ call' = [call EXCEPT ![x] = NoCall]
             /\ UNCHANGED <<token, parent, fresh, store, job, boundVars, replays, lost, givenUp>>

(* Joining the refresh that is in flight, or starting one. *)
Unauthorized(x) ==
  LET w == RefreshOf(x[1]) IN
  /\ call[x].step = "sent" /\ ~Accepted(x) /\ ~call[x].retried
  /\ call' = [call EXCEPT ![x].step = "waiting"]
  /\ job' = IF job[w].step = "idle" THEN [job EXCEPT ![w].step = "reading"] ELSE job
  /\ UNCHANGED <<token, parent, fresh, store, boundVars, replays, lost, givenUp>>

(* Mutant: a refresh that fails forgets the calls that wait for it. *)
WokenIfOk(t, ok) ==
  [x \in Fetches |-> IF x[1] = t /\ call[x].step = "waiting" /\ ok THEN Send(TRUE) ELSE call[x]]

(* refreshInFlight settles, and `finally` resets it: the calls that wait are  *)
(* sent once more, or fail with their 401.                                    *)
Woken(t, ok) ==
  [x \in Fetches |-> IF x[1] = t /\ call[x].step = "waiting"
                       THEN IF ok THEN Send(TRUE) ELSE NoCall
                       ELSE call[x]]

Settle(w, ok) == /\ job' = [job EXCEPT ![w] = NoJob]
                 /\ call' = IF w[2] = "refresh" THEN Woken(w[1], ok) ELSE call

-----------------------------------------------------------------------------
(* refreshTokens, and AuthService.refresh behind it. *)

Refreshing(w, step) == w[2] # "session" /\ job[w].step = step

ReadRefreshToken(w) ==
  /\ Refreshing(w, "reading")
  /\ IF store["refresh"] = None
       THEN Settle(w, FALSE)
       ELSE /\ job' = [job EXCEPT ![w].step = "asking", ![w].carried = store["refresh"]]
            /\ UNCHANGED call
  /\ UNCHANGED <<token, parent, fresh, store, boundVars, replays, lost, givenUp>>

(* Mutant: revokedAt is not looked at. *)
Known(k) == token[k] # "none"

(* The look-up of AuthService.refresh. *)
Valid(k) == token[k] = "live"

FindToken(w) ==
  /\ Refreshing(w, "asking")
  /\ IF Valid(job[w].carried)
       THEN job' = [job EXCEPT ![w].step = "rotating"] /\ UNCHANGED call
       ELSE Settle(w, FALSE)
  /\ UNCHANGED <<token, parent, fresh, store, boundVars, replays, lost, givenUp>>

(* Mutant: the old token stays. *)
NotRotated(k) == token

(* The update that follows names the row only: it does not ask again. *)
Rotated(k) == [token EXCEPT ![k] = "revoked"]

RevokeOld(w) ==
  LET k == job[w].carried IN
  /\ Refreshing(w, "rotating")
  /\ token' = Rotated(k)
  /\ replays' = IF token[k] = "revoked" THEN replays + 1 ELSE replays
  /\ job' = [job EXCEPT ![w].step = "issuing"]
  /\ UNCHANGED <<parent, fresh, store, call, boundVars, lost, givenUp>>

(* Mutant: setTokens keeps the access token only. *)
AnsweredAccess(w, k) == IF w[2] \in Abandoned THEN NoJob
                        ELSE [job[w] EXCEPT !.step = "storing", !.got = k, !.todo = {"access"}]

(* Nobody is there to get the pair of a refresh that was given up. *)
Answered(w, k) == IF w[2] \in Abandoned THEN NoJob
                  ELSE [job[w] EXCEPT !.step = "storing", !.got = k, !.todo = Keys]

IssueNew(w) ==
  /\ Refreshing(w, "issuing")
  /\ \E k \in Pairs : /\ Issue(k, job[w].carried)
                      /\ job' = [job EXCEPT ![w] = Answered(w, k)]
  /\ UNCHANGED <<store, call, boundVars, replays, lost, givenUp>>

(* tokenStore.setTokens: two writes, in whatever order they settle. *)
StoreToken(w, key) ==
  /\ job[w].step = "storing" /\ key \in job[w].todo
  /\ store' = [store EXCEPT ![key] = job[w].got]
  /\ job' = [job EXCEPT ![w].todo = @ \ {key}]
  /\ UNCHANGED <<token, parent, fresh, call, boundVars, replays, lost, givenUp>>

TokensStored(w) == /\ job[w].step = "storing" /\ job[w].todo = {}
                   /\ Settle(w, TRUE)
                   /\ UNCHANGED <<token, parent, fresh, store, boundVars, replays, lost, givenUp>>

-----------------------------------------------------------------------------
(* Sign-in (register, login, MFA, invite: all end in issueTokens) and sign-out. *)

SignIn(t) ==
  /\ job[SessionOf(t)].step = "idle"
  /\ signIns < MaxSignIns /\ signIns' = signIns + 1
  /\ \E k \in Pairs :
       /\ Issue(k, None)
       /\ job' = [job EXCEPT ![SessionOf(t)] = [step |-> "storing", carried |-> None,
                                                got |-> k, todo |-> Keys]]
  /\ UNCHANGED <<store, call, signOuts, faults, replays, lost, givenUp>>

SignOut(t) ==
  /\ job[SessionOf(t)].step = "idle"
  /\ signOuts < MaxSignOuts /\ signOuts' = signOuts + 1
  /\ job' = [job EXCEPT ![SessionOf(t)] =
               [step |-> IF store["refresh"] = None THEN "clearing" ELSE "revoking",
                carried |-> store["refresh"], got |-> None, todo |-> Keys]]
  /\ UNCHANGED <<token, parent, fresh, store, call, signIns, faults, replays, lost, givenUp>>

(* AuthService.logout *)
Revoke(w) == /\ job[w].step = "revoking"
             /\ token' = Rotated(job[w].carried)
             /\ job' = [job EXCEPT ![w].step = "clearing"]
             /\ UNCHANGED <<parent, fresh, store, call, boundVars, replays, lost, givenUp>>

(* tokenStore.clear *)
ClearToken(w, key) ==
  /\ job[w].step = "clearing" /\ key \in job[w].todo
  /\ store' = [store EXCEPT ![key] = None]
  /\ job' = [job EXCEPT ![w] = IF job[w].todo = {key} THEN NoJob
                                      ELSE [job[w] EXCEPT !.todo = @ \ {key}]]
  /\ UNCHANGED <<token, parent, fresh, call, boundVars, replays, lost, givenUp>>

-----------------------------------------------------------------------------
Fault == faults < MaxFaults /\ faults' = faults + 1 /\ UNCHANGED <<signIns, signOuts>>

(* A request that never arrives: the refresh fails, the sign-out goes on regardless. *)
RequestLost(w) ==
  /\ Fault
  /\ \/ Refreshing(w, "asking") /\ Settle(w, FALSE)
     \/ job[w].step = "revoking" /\ job' = [job EXCEPT ![w].step = "clearing"] /\ UNCHANGED call
  /\ UNCHANGED <<token, parent, fresh, store, replays, lost, givenUp>>

(* The answer is lost, or the tab closes, before the store is up to date. *)
AnswerLost(w) == /\ Fault
                 /\ job[w].step \in {"storing", "clearing"} /\ job[w].todo # {}
                 /\ Settle(w, FALSE)
                 /\ lost' = TRUE
                 /\ UNCHANGED <<token, parent, fresh, store, replays, givenUp>>

(* issueTokens throws after the old token is gone. *)
IssueFails(w) == /\ Fault
                 /\ Refreshing(w, "issuing")
                 /\ Settle(w, FALSE)
                 /\ lost' = TRUE
                 /\ UNCHANGED <<token, parent, fresh, store, replays, givenUp>>

(* The tab reloads or its connection drops while the server is at the refresh: the  *)
(* calls that wait fail, and the handler goes on where it is.                       *)
GiveUp(t, a) ==
  LET w == RefreshOf(t) IN
  /\ Fault
  /\ job[w].step \in {"asking", "rotating", "issuing"} /\ job[<<t, a>>].step = "idle"
  /\ job' = [job EXCEPT ![w] = NoJob, ![<<t, a>>] = job[w]]
  /\ call' = Woken(t, FALSE)
  /\ lost' = TRUE
  /\ givenUp' = givenUp \cup {job[w].carried}
  /\ UNCHANGED <<token, parent, fresh, store, replays>>

JobStep(w) == \/ ReadRefreshToken(w) \/ FindToken(w) \/ RevokeOld(w) \/ IssueNew(w)
              \/ TokensStored(w) \/ Revoke(w)
              \/ \E key \in Keys : StoreToken(w, key) \/ ClearToken(w, key)

CallStep(x) == Answer(x) \/ Unauthorized(x)

Next == \/ \E k \in Pairs : AccessExpires(k)
        \/ \E x \in Fetches : Fetch(x) \/ CallStep(x)
        \/ \E w \in Jobs : JobStep(w) \/ RequestLost(w) \/ AnswerLost(w) \/ IssueFails(w)
        \/ \E t \in Tabs : SignIn(t) \/ SignOut(t) \/ \E a \in Abandoned : GiveUp(t, a)

Spec == Init /\ [][Next]_vars

(* Requests are answered and promises settle; users and faults owe nothing. *)
Fairness == /\ \A w \in Jobs : WF_vars(JobStep(w))
            /\ \A x \in Fetches : WF_vars(CallStep(x))

FairSpec == Spec /\ Fairness
-----------------------------------------------------------------------------
Job == [step : JobSteps, carried : Slots, got : Slots, todo : SUBSET Keys]

TypeOK == /\ token \in [Pairs -> {"none", "live", "revoked"}]
          /\ parent \in [Pairs -> Slots]
          /\ fresh \subseteq Pairs \ Unused
          /\ store \in [Keys -> Slots]
          /\ job \in [Jobs -> Job]
          /\ call \in [Fetches -> [step : CallSteps, sent : Slots, retried : BOOLEAN]]
          /\ \A t \in Tabs : \/ job[RefreshOf(t)].step # "idle"
                             \/ \A c \in Calls : call[<<t, c>>].step # "waiting"
          /\ signIns \in 0..MaxSignIns /\ signOuts \in 0..MaxSignOuts
          /\ faults \in 0..MaxFaults
          /\ replays \in Nat
          /\ lost \in BOOLEAN
          /\ givenUp \subseteq Pairs

(* The device is never left with a refresh token the server has revoked, which *)
(* would sign the user out at the next 401: whoever revoked it is about to     *)
(* replace or clear it, unless an answer was lost on the way.  Two tabs that   *)
(* rotate at once, or overwrite each other's tokens, do not strand it.         *)
Replacing(k) == {w \in Jobs : job[w].carried = k /\ job[w].step \in {"issuing", "storing", "clearing"}}
NeverStranded == LET k == store["refresh"] IN
   k # None /\ token[k] = "revoked" => lost \/ Replacing(k) # {}

(* Rotation makes no sessions: live refresh tokens, and those about to be      *)
(* issued, are at most one for each sign-in, and one more for each rotation of *)
(* a token that another request had revoked since it was looked up.            *)
LiveTokens == {k \in Pairs : token[k] = "live"}
Issuing == {w \in Jobs : job[w].step = "issuing"}
RotationConserves == Cardinality(LiveTokens) + Cardinality(Issuing) <= signIns + replays

(* "The old refresh token is single-use" (AuthService.refresh): no two tokens  *)
(* are rotated from the same one.                                              *)
SingleUse == \A j, k \in Pairs : parent[j] = parent[k] /\ parent[j] # None => j = k

(* What is left of it in one tab, which shares a refresh among its calls: a    *)
(* token is rotated twice only if the tab gave up a refresh with that token    *)
(* before the answer, and the server's handler was still at it when the tab    *)
(* sent the token again.                                                       *)
SingleUseUnlessGivenUp ==
  \A j, k \in Pairs : parent[j] = parent[k] /\ parent[j] # None /\ j # k => parent[j] \in givenUp

(* Every apiFetch settles: a refresh that fails, or that others share, does    *)
(* not leave the calls that wait for it hanging, and a retried call does not   *)
(* refresh again.                                                              *)
CallsSettle == \A x \in Fetches : call[x].step # "idle" ~> call[x].step = "idle"
=============================================================================
