--------------------------------- MODULE Team ---------------------------------
(***************************************************************************)
(* The members and invites of one account: team.service.ts of the API.     *)
(*                                                                         *)
(* Every handler is a sequence of separate database statements, and the    *)
(* API serves requests concurrently: a request is a record of what its     *)
(* handler has read so far, and each statement is a step of its own.  Only *)
(* acceptInvite uses a transaction.  A handler's first statement is merged *)
(* with the arrival of the request.                                        *)
(***************************************************************************)
EXTENDS Naturals, FiniteSets

CONSTANTS People,      \* e-mail addresses (User.email is unique)
          Founder,     \* the person who registered the account
          Requests,    \* requests the API serves at a time
          MaxMembers,  \* TIER_LIMITS[tier].maxTeamMembers
          MaxInvites,  \* bound: Invite rows ever created
          MaxCalls     \* bound: requests ever made

ASSUME FounderAssumption == Founder \in People
ASSUME LimitsAssumption == MaxMembers \in Nat \ {0} /\ MaxInvites \in Nat /\ MaxCalls \in Nat

Roles == {"OWNER", "ADMIN", "MEMBER"}
InviteIds == 1..MaxInvites

VARIABLES role,       \* User.role of the account's members, "none" for anybody else
          elsewhere,  \* people who have registered an account of their own
          invites,    \* Invite rows: [email, role, state]
          req,        \* what each request is about to do, and what it has read
          raced,      \* history: kinds of check-then-write handlers that overlapped
          calls       \* number of requests made so far

vars == <<role, elsewhere, invites, req, raced, calls>>

(* A row is live, expired or accepted; revoked means deleted, none not yet there. *)
States == {"none", "live", "expired", "accepted", "revoked"}
Invite == [email : People, role : Roles, state : States]

OwnerSteps  == {"removeCount", "removeWrite", "roleRead", "roleCount", "roleWrite"}
SeatSteps   == {"inviteUser", "inviteCounts", "inviteMembers", "invitePending", "inviteWrite",
                "acceptUser", "acceptWrite"}
Steps       == OwnerSteps \cup SeatSteps \cup {"idle", "revokeWrite"}

(* who: the target or the invitee; role: the role asked for; inv: an invite, or 0. *)
Request == [step : Steps, who : People, role : Roles, inv : 0..MaxInvites,
            members : Nat, pending : Nat]
NoRequest == [step |-> "idle", who |-> Founder, role |-> "MEMBER", inv |-> 0,
              members |-> 0, pending |-> 0]

Members == {p \in People : role[p] # "none"}
Owners == {p \in People : role[p] = "OWNER"}
Live == {i \in InviteIds : invites[i].state = "live"}
(* Mutant: the transaction forgets that the row may be deleted. *)
EverExisted(i) == TRUE

(* The row is there. *)
Exists(i) == invites[i].state \notin {"none", "revoked"}

(* Mutant: only this account's members count. *)
TakenHere(p) == p \in Members

(* User.email is taken, in this account or another. *)
Taken(p) == p \in Members \cup elsewhere

Init == /\ role = [p \in People |-> IF p = Founder THEN "OWNER" ELSE "none"]
        /\ elsewhere = {}
        /\ invites = [i \in InviteIds |-> [email |-> Founder, role |-> "MEMBER", state |-> "none"]]
        /\ req = [q \in Requests |-> NoRequest]
        /\ raced = {}
        /\ calls = 0

-----------------------------------------------------------------------------
(* A request is admitted: its handler goes on at `step`. *)

Active(steps) == {q \in Requests : req[q].step \in steps}

Admit(q, step, who, r, inv) ==
  /\ req[q].step = "idle"
  /\ req' = [req EXCEPT ![q] = [NoRequest EXCEPT !.step = step, !.who = who, !.role = r,
                                                 !.inv = inv]]
  /\ raced' = raced \cup (IF step \in OwnerSteps /\ Active(OwnerSteps) # {} THEN {"owners"} ELSE {})
                    \cup (IF step \in SeatSteps /\ Active(SeatSteps) # {} THEN {"seats"} ELSE {})
  /\ calls < MaxCalls /\ calls' = calls + 1
  /\ UNCHANGED <<role, elsewhere, invites>>

(* The handler goes on at another step, or ends. *)
Continue(q, step) == req' = [req EXCEPT ![q].step = step]
Finish(q) == req' = [req EXCEPT ![q] = NoRequest]
Read(q, step) == Continue(q, step) /\ UNCHANGED <<role, elsewhere, invites, raced, calls>>

(* An error, or a restart of the API, ends a handler between two statements. *)
Drop(q) == /\ req[q].step # "idle"
           /\ Finish(q)
           /\ UNCHANGED <<role, elsewhere, invites, raced, calls>>

(* assertCanManageTeam *)
MayManage(p) == role[p] \in {"OWNER", "ADMIN"}

-----------------------------------------------------------------------------
(* inviteTeammate *)

InviteTeammate(q, caller, email, r) == MayManage(caller) /\ Admit(q, "inviteUser", email, r, 0)

InviteLookUp(q) == /\ req[q].step = "inviteUser"
                   /\ Read(q, IF Taken(req[q].who) THEN "idle" ELSE "inviteCounts")

(* The queries of Promise.all are separate statements: the members are counted *)
(* before or after the pending invites.                                        *)
CountMembers(q) ==
  /\ req[q].step \in {"inviteCounts", "inviteMembers"}
  /\ req' = [req EXCEPT ![q].members = Cardinality(Members),
                        ![q].step = IF @ = "inviteCounts" THEN "invitePending" ELSE "inviteWrite"]
  /\ UNCHANGED <<role, elsewhere, invites, raced, calls>>

(* Mutant: inviting again piles up another row. *)
AlwaysNewInvite(email) == {}

(* The live invite of the invitee, if there is one. *)
ExistingInvite(email) == {i \in Live : invites[i].email = email}

CountPending(q) ==
  /\ req[q].step \in {"inviteCounts", "invitePending"}
  /\ \E i \in IF ExistingInvite(req[q].who) = {} THEN {0} ELSE ExistingInvite(req[q].who) :
       req' = [req EXCEPT ![q].pending = Cardinality(Live),
                          ![q].inv = i,
                          ![q].step = IF @ = "inviteCounts" THEN "inviteMembers"
                                                            ELSE "inviteWrite"]
  /\ UNCHANGED <<role, elsewhere, invites, raced, calls>>

(* Mutant: <= for <. *)
WithinLimitInclusive(count) == count <= MaxMembers

(* isWithinTeamMemberLimit on members and live invites together. *)
WithinLimit(count) == count < MaxMembers

(* A live invite is refreshed in place; accepting or revoking it meanwhile wins. *)
ResendInvite(q) ==
  LET i == req[q].inv IN
  /\ req[q].step = "inviteWrite" /\ i # 0
  /\ invites' = IF Exists(i)
                  THEN [invites EXCEPT ![i].role = req[q].role,
                                       ![i].state = IF @ = "accepted" THEN @ ELSE "live"]
                  ELSE invites
  /\ Finish(q)
  /\ UNCHANGED <<role, elsewhere, raced, calls>>

CreateInvite(q) ==
  /\ req[q].step = "inviteWrite" /\ req[q].inv = 0
  /\ IF WithinLimit(req[q].members + req[q].pending)
       THEN \E i \in InviteIds :
              /\ invites[i].state = "none"
              /\ \A j \in 1..(i - 1) : invites[j].state # "none"
              /\ invites' = [invites EXCEPT ![i] = [email |-> req[q].who, role |-> req[q].role,
                                                   state |-> "live"]]
       ELSE UNCHANGED invites
  /\ Finish(q)
  /\ UNCHANGED <<role, elsewhere, raced, calls>>

(* expiresAt passes. *)
Expire(i) == /\ invites[i].state = "live"
             /\ invites' = [invites EXCEPT ![i].state = "expired"]
             /\ UNCHANGED <<role, elsewhere, req, raced, calls>>

-----------------------------------------------------------------------------
(* revokeInvite: any row of the account can be deleted, an accepted one too. *)

RevokeInvite(q, caller, i) == MayManage(caller) /\ Admit(q, "revokeWrite", Founder, "MEMBER", i)

DeleteInvite(q) ==
  /\ req[q].step = "revokeWrite"
  /\ invites' = IF Exists(req[q].inv) THEN [invites EXCEPT ![req[q].inv].state = "revoked"]
                                      ELSE invites
  /\ Finish(q)
  /\ UNCHANGED <<role, elsewhere, raced, calls>>

-----------------------------------------------------------------------------
(* acceptInvite: the role is the one read here, before the password is hashed. *)

AcceptInvite(q, i) == /\ invites[i].state = "live"
                      /\ Admit(q, "acceptUser", invites[i].email, invites[i].role, i)

AcceptLookUp(q) == /\ req[q].step = "acceptUser"
                   /\ Read(q, IF Taken(req[q].who) THEN "idle" ELSE "acceptWrite")

(* The transaction: user.create needs a free e-mail, invite.update needs the row. *)
JoinTeam(q) ==
  LET r == req[q] IN
  /\ r.step = "acceptWrite"
  /\ IF ~Taken(r.who) /\ Exists(r.inv)
       THEN /\ role' = [role EXCEPT ![r.who] = r.role]
            /\ invites' = [invites EXCEPT ![r.inv].state = "accepted"]
       ELSE UNCHANGED <<role, invites>>
  /\ Finish(q)
  /\ UNCHANGED <<elsewhere, raced, calls>>

(* AuthService.register by somebody the account has perhaps invited. *)
Register(p) == /\ ~Taken(p)
               /\ elsewhere' = elsewhere \cup {p}
               /\ calls < MaxCalls /\ calls' = calls + 1
               /\ UNCHANGED <<role, invites, req, raced>>

-----------------------------------------------------------------------------
(* removeMember and updateMemberRole *)

RemoveMember(q, caller, target) ==
  /\ caller # target
  /\ target \in Members /\ MayManage(caller)
  /\ role[target] # "MEMBER" => role[caller] = "OWNER"
  /\ Admit(q, IF role[target] = "OWNER" THEN "removeCount" ELSE "removeWrite", target, "MEMBER", 0)

UpdateMemberRole(q, caller, target, r) == /\ role[caller] = "OWNER"
                                          /\ Admit(q, "roleRead", target, r, 0)

RoleLookUp(q) ==
  LET t == req[q].who IN
  /\ req[q].step = "roleRead"
  /\ Read(q, IF t \notin Members THEN "idle"
             ELSE IF role[t] = "OWNER" /\ req[q].role # "OWNER" THEN "roleCount" ELSE "roleWrite")

(* Mutant: the owner about to go is counted too. *)
AllOwners(p) == Owners

(* assertNotLastOwner *)
OtherOwners(p) == Owners \ {p}

CountOwners(q) ==
  /\ req[q].step \in {"removeCount", "roleCount"}
  /\ Read(q, IF OtherOwners(req[q].who) = {} THEN "idle"
             ELSE IF req[q].step = "removeCount" THEN "removeWrite" ELSE "roleWrite")

(* Requests that name the row of p by its id.  Once it is deleted they can only *)
(* fail, even if p joins again: the new row has another id.                     *)
Naming(p) == {q \in Requests : req[q].step \in OwnerSteps /\ req[q].who = p}

DeleteUser(q) ==
  /\ req[q].step = "removeWrite"
  /\ role' = [role EXCEPT ![req[q].who] = "none"]
  /\ req' = [r \in Requests |-> IF r \in Naming(req[q].who) THEN NoRequest ELSE req[r]]
  /\ UNCHANGED <<elsewhere, invites, raced, calls>>

WriteRole(q) == /\ req[q].step = "roleWrite"
                /\ role' = [role EXCEPT ![req[q].who] = req[q].role]
                /\ Finish(q)
                /\ UNCHANGED <<elsewhere, invites, raced, calls>>

-----------------------------------------------------------------------------
Arrive(q) == \/ \E c, p \in People, r \in Roles : InviteTeammate(q, c, p, r)
             \/ \E c \in People, i \in InviteIds : RevokeInvite(q, c, i)
             \/ \E i \in InviteIds : AcceptInvite(q, i)
             \/ \E c, p \in People : RemoveMember(q, c, p)
             \/ \E c, p \in People, r \in Roles : UpdateMemberRole(q, c, p, r)

Handle(q) == \/ InviteLookUp(q) \/ CountMembers(q) \/ CountPending(q)
             \/ ResendInvite(q) \/ CreateInvite(q)
             \/ DeleteInvite(q)
             \/ AcceptLookUp(q) \/ JoinTeam(q)
             \/ RoleLookUp(q) \/ CountOwners(q) \/ DeleteUser(q) \/ WriteRole(q)
             \/ Drop(q)

Next == \/ \E q \in Requests : Arrive(q) \/ Handle(q)
        \/ \E i \in InviteIds : Expire(i)
        \/ \E p \in People : Register(p)

Spec == Init /\ [][Next]_vars

-----------------------------------------------------------------------------
TypeOK == /\ role \in [People -> Roles \cup {"none"}]
          /\ elsewhere \subseteq People \ Members
          /\ invites \in [InviteIds -> Invite]
          /\ req \in [Requests -> Request]
          /\ raced \subseteq {"owners", "seats"}
          /\ calls \in 0..MaxCalls

(* "An account can never be left with zero OWNERs" (docs/ARCHITECTURE.md), as   *)
(* the documentation has it: under whatever requests.                           *)
AlwaysAnOwner == Owners # {}

(* What the code guarantees: the last owner is neither removed nor demoted      *)
(* unless two removals or role changes were in progress together at some time.  *)
OwnerUnlessRaced == "owners" \notin raced => Owners # {}

(* Members and live invites together never exceed the plan's limit, unless two  *)
(* invitations or acceptances were in progress together at some time: resends,  *)
(* revivals of expired invites and joins take no seat that was not counted.     *)
SeatsUnlessRaced ==
   "seats" \notin raced => Cardinality(Members) + Cardinality(Live) <= MaxMembers

(* One live invite per address (the comment in inviteTeammate), and none for a  *)
(* member, with the same exception.                                             *)
OneInviteUnlessRaced == "seats" \notin raced =>
   \A i \in Live : /\ invites[i].email \notin Members
                   /\ \A j \in Live : invites[i].email = invites[j].email => i = j

(* A person joins only by an invite for her address that is there at that very  *)
(* moment: a revoked invite admits nobody, even when its acceptance was already *)
(* in progress, and a used one ("already used", getLiveInviteOrThrow) only when *)
(* two acceptances were in progress together at some time.                      *)
JoinUsesUpAnInvite ==
   [][\A p \in Members' \ Members : \E i \in InviteIds :
        /\ invites[i].email = p
        /\ invites[i].state \in {"live", "expired"} \cup
              (IF "seats" \in raced THEN {"accepted"} ELSE {})
        /\ invites'[i].state = "accepted"]_vars
=============================================================================
