------------------------------ MODULE TeamProofs ------------------------------
(***************************************************************************)
(* Theorems about Team, for any people, requests, limits and bounds.       *)
(***************************************************************************)
EXTENDS Team, FiniteSetTheorems, TLAPS

OnMember == {"removeCount", "removeWrite", "roleCount", "roleWrite"}
Accepting == {"acceptUser", "acceptWrite"}

(* A handler that has found its target, or its invite, still has it: rows of    *)
(* invites are never reused, and a deleted user ends the requests that name her. *)
Found ==
  \A q \in Requests :
    /\ req[q].step \in OnMember => req[q].who \in Members
    /\ req[q].step \in Accepting \cup {"revokeWrite"} => req[q].inv # 0
    /\ req[q].step \in Accepting => /\ invites[req[q].inv].email = req[q].who
                                    /\ invites[req[q].inv].state # "none"

TypeInv == TypeOK /\ IsFiniteSet(Members) /\ Found

LEMMA TypeInit == Init => TypeInv
<1> SUFFICES ASSUME Init PROVE TypeInv
  OBVIOUS
<1>1. Members = {Founder}
  BY FounderAssumption DEF Init, Members
<1>2. IsFiniteSet(Members)
  BY <1>1, FS_Singleton
<1>3. TypeOK
  BY <1>1, FounderAssumption, LimitsAssumption
  DEF Init, TypeOK, Roles, Invite, States, Request, NoRequest, Steps, OwnerSteps, SeatSteps
<1>4. Found
  BY DEF Init, Found, NoRequest, OnMember, Accepting
<1> QED BY <1>2, <1>3, <1>4 DEF TypeInv

(* Counting what is there gives a number. *)
LEMMA Counts ==
  ASSUME TypeInv
  PROVE  /\ Cardinality(Members) \in Nat
         /\ IsFiniteSet(Live) /\ Cardinality(Live) \in Nat
<1>1. IsFiniteSet(InviteIds)
  BY LimitsAssumption, FS_Interval DEF InviteIds
<1>2. IsFiniteSet(Live)
  BY <1>1, FS_Subset DEF Live
<1> QED BY <1>2, FS_CardinalityType DEF TypeInv

(* A request that is taken in. *)
LEMMA TypeArrive ==
  ASSUME TypeInv, NEW q \in Requests, Arrive(q)
  PROVE  TypeInv'
<1> USE LimitsAssumption, FounderAssumption DEF TypeInv
<1>1. ASSUME NEW step \in Steps \ {"idle"}, NEW who \in People, NEW r \in Roles, NEW inv \in 0..MaxInvites,
             Admit(q, step, who, r, inv),
             step \in OnMember => who \in Members,
             step \in Accepting \cup {"revokeWrite"} => inv # 0,
             step \in Accepting => invites[inv].email = who /\ invites[inv].state # "none"
      PROVE  TypeInv'
  <2> DEFINE new == [NoRequest EXCEPT !.step = step, !.who = who, !.role = r, !.inv = inv]
  <2>1. /\ new \in Request /\ new.step = step /\ new.who = who /\ new.inv = inv
    BY DEF Request, NoRequest, Steps, Roles
  <2>2. req' = [req EXCEPT ![q] = new] /\ UNCHANGED <<role, elsewhere, invites>>
    BY <1>1 DEF Admit
  <2>3. raced' \subseteq {"owners", "seats"} /\ calls' \in 0..MaxCalls
    BY <1>1 DEF Admit, TypeOK
  <2>4. Members' = Members
    BY <2>2 DEF Members
  <2> HIDE DEF new
  <2>5. TypeOK'
    BY <2>1, <2>2, <2>3, <2>4 DEF TypeOK
  <2>6. Found'
    BY <1>1, <2>1, <2>2, <2>4 DEF Found, TypeOK
  <2> QED BY <2>4, <2>5, <2>6
<1> USE DEF Steps, OwnerSteps, SeatSteps, OnMember, Accepting, Roles, InviteIds
<1>2. CASE \E c, p \in People, r \in Roles : InviteTeammate(q, c, p, r)
  <2>1. PICK p \in People, r \in Roles : Admit(q, "inviteUser", p, r, 0)
    BY <1>2 DEF InviteTeammate
  <2>2. /\ "inviteUser" \in Steps \ {"idle"} /\ 0 \in 0..MaxInvites
        /\ "inviteUser" \notin OnMember /\ "inviteUser" \notin Accepting \cup {"revokeWrite"}
    OBVIOUS
  <2> HIDE DEF Steps, OnMember, Accepting
  <2> QED BY <1>1, <2>1, <2>2
<1>3. CASE \E c \in People, i \in InviteIds : RevokeInvite(q, c, i)
  BY <1>1, <1>3 DEF RevokeInvite
<1>4. CASE \E i \in InviteIds : AcceptInvite(q, i)
  <2>1. PICK i \in InviteIds : AcceptInvite(q, i)
    BY <1>4
  <2>2. invites[i].email \in People /\ invites[i].role \in Roles
    BY DEF TypeOK, Invite
  <2>3. i \in 0..MaxInvites /\ i # 0 /\ invites[i].state # "none"
    BY <2>1 DEF AcceptInvite
  <2>4. Admit(q, "acceptUser", invites[i].email, invites[i].role, i)
    BY <2>1 DEF AcceptInvite
  <2> QED BY <1>1, <2>2, <2>3, <2>4
<1>5. CASE \E c, p \in People : RemoveMember(q, c, p)
  BY <1>1, <1>5 DEF RemoveMember
<1>6. CASE \E c, p \in People, r \in Roles : UpdateMemberRole(q, c, p, r)
  BY <1>1, <1>6 DEF UpdateMemberRole
<1> QED BY <1>2, <1>3, <1>4, <1>5, <1>6 DEF Arrive

(* The next statement of a handler, or its end. *)
LEMMA TypeHandle ==
  ASSUME TypeInv, NEW q \in Requests, Handle(q)
  PROVE  TypeInv'
<1> USE LimitsAssumption, FounderAssumption DEF TypeInv
<1> USE DEF Steps, OwnerSteps, SeatSteps, OnMember, Accepting, Roles, InviteIds
<1>1. NoRequest \in Request /\ NoRequest.step = "idle"
  BY DEF Request, NoRequest
<1>2. req \in [Requests -> Request] /\ req[q] \in Request
  BY DEF TypeOK
<1>3. ASSUME NEW new \in Request, req' = [req EXCEPT ![q] = new],
             new.who = req[q].who,
             new.step \in OnMember => new.who \in Members,
             new.step \in Accepting => req[q].step \in Accepting /\ new.inv = req[q].inv,
             new.step # "revokeWrite",
             UNCHANGED <<role, elsewhere, invites, raced, calls>>
      PROVE  TypeInv'
  <2>1. Members' = Members
    BY <1>3 DEF Members
  <2>2. TypeOK'
    BY <1>2, <1>3, <2>1 DEF TypeOK
  <2>3. Found'
    BY <1>2, <1>3, <2>1 DEF Found
  <2> QED BY <2>1, <2>2, <2>3
<1>4. ASSUME Finish(q), UNCHANGED <<elsewhere, raced, calls, role>>,
             invites' \in [InviteIds -> Invite],
             \A i \in InviteIds : invites[i].state # "none" =>
                invites'[i].email = invites[i].email /\ invites'[i].state # "none"
      PROVE  TypeInv'
  <2>1. Members' = Members
    BY <1>4 DEF Members
  <2>2. TypeOK'
    BY <1>1, <1>2, <1>4, <2>1 DEF TypeOK, Finish
  <2>3. \A p \in Requests : req'[p] = req[p] \/ req'[p].step = "idle"
    BY <1>1, <1>2, <1>4 DEF Finish
  <2>4. \A p \in Requests : req[p].inv \in 0..MaxInvites
    BY <1>2 DEF Request
  <2>5. Found'
    BY <1>4, <2>1, <2>3, <2>4 DEF Found
  <2> QED BY <2>1, <2>2, <2>5
<1>5. CASE InviteLookUp(q)
  <2> DEFINE new == [req[q] EXCEPT !.step = IF Taken(req[q].who) THEN "idle" ELSE "inviteCounts"]
  <2>1. new \in Request /\ new.who = req[q].who /\ new.step \in {"idle", "inviteCounts"}
    BY <1>2 DEF Request
  <2>2. req' = [req EXCEPT ![q] = new]
    BY <1>2, <1>5 DEF InviteLookUp, Read, Continue
  <2> QED BY <1>3, <1>5, <2>1, <2>2 DEF InviteLookUp, Read
<1>6. CASE CountMembers(q)
  <2> DEFINE new == [req[q] EXCEPT !.members = Cardinality(Members),
                       !.step = IF @ = "inviteCounts" THEN "invitePending" ELSE "inviteWrite"]
  <2>1. new \in Request /\ new.who = req[q].who /\ new.step \in {"invitePending", "inviteWrite"}
    BY <1>2, Counts DEF Request
  <2>2. req' = [req EXCEPT ![q] = new]
    BY <1>2, <1>6 DEF CountMembers, Request
  <2> QED BY <1>3, <1>6, <2>1, <2>2 DEF CountMembers
<1>7. CASE CountPending(q)
  <2>1. PICK i \in IF ExistingInvite(req[q].who) = {} THEN {0} ELSE ExistingInvite(req[q].who) :
           req' = [req EXCEPT ![q].pending = Cardinality(Live), ![q].inv = i,
                              ![q].step = IF @ = "inviteCounts" THEN "inviteMembers" ELSE "inviteWrite"]
    BY <1>7 DEF CountPending
  <2>4. i \in 0..MaxInvites
    BY DEF ExistingInvite, Live
  <2> DEFINE new == [req[q] EXCEPT !.pending = Cardinality(Live), !.inv = i,
                       !.step = IF @ = "inviteCounts" THEN "inviteMembers" ELSE "inviteWrite"]
  <2>2. new \in Request /\ new.who = req[q].who /\ new.step \in {"inviteMembers", "inviteWrite"}
    BY <1>2, <2>4, Counts DEF Request
  <2>3. req' = [req EXCEPT ![q] = new]
    BY <1>2, <2>1 DEF Request
  <2> QED BY <1>3, <1>7, <2>2, <2>3 DEF CountPending
<1>8. CASE ResendInvite(q)
  <2>1. req[q].inv \in InviteIds /\ req[q].role \in Roles
    BY <1>2, <1>8 DEF ResendInvite, Request
  <2>2. \/ UNCHANGED invites
        \/ /\ Exists(req[q].inv)
           /\ invites' = [invites EXCEPT ![req[q].inv].role = req[q].role,
                             ![req[q].inv].state = IF @ = "accepted" THEN @ ELSE "live"]
    BY <1>8 DEF ResendInvite
  <2>3. invites \in [InviteIds -> Invite]
    BY DEF TypeOK
  <2>4. /\ invites' \in [InviteIds -> Invite]
        /\ \A i \in InviteIds : invites[i].state # "none" =>
                invites'[i].email = invites[i].email /\ invites'[i].state # "none"
    <3> DEFINE i == req[q].inv
               state == IF invites[i].state = "accepted" THEN "accepted" ELSE "live"
               new == [invites[i] EXCEPT !.role = req[q].role, !.state = state]
    <3>1. state \in States \ {"none"} /\ invites[i] \in Invite
      BY <2>1, <2>3 DEF States
    <3>2. new \in Invite /\ new.email = invites[i].email /\ new.state # "none"
      BY <2>1, <3>1 DEF Invite
    <3>3. UNCHANGED invites \/ invites' = [invites EXCEPT ![i] = new]
      BY <2>1, <2>2, <2>3 DEF Invite
    <3> HIDE DEF new
    <3> QED BY <2>1, <2>3, <3>2, <3>3
  <2> QED BY <1>4, <1>8, <2>4 DEF ResendInvite
<1>9. CASE CreateInvite(q)
  <2>1. \/ UNCHANGED invites
        \/ \E i \in InviteIds : /\ invites[i].state = "none"
                                /\ invites' = [invites EXCEPT ![i] = [email |-> req[q].who,
                                                       role |-> req[q].role, state |-> "live"]]
    BY <1>9 DEF CreateInvite
  <2>2. req[q].who \in People /\ req[q].role \in Roles
    BY <1>2 DEF Request
  <2>3. /\ invites' \in [InviteIds -> Invite]
        /\ \A i \in InviteIds : invites[i].state # "none" => invites'[i] = invites[i]
    <3>1. CASE UNCHANGED invites
      BY <3>1 DEF TypeOK
    <3>2. ASSUME NEW i \in InviteIds, invites[i].state = "none",
                 invites' = [invites EXCEPT ![i] = [email |-> req[q].who,
                                                    role |-> req[q].role, state |-> "live"]]
          PROVE  <2>3!1 /\ <2>3!2
      <4>1. [email |-> req[q].who, role |-> req[q].role, state |-> "live"] \in Invite
        BY <2>2 DEF Invite, States
      <4> QED BY <3>2, <4>1 DEF TypeOK
    <3> QED BY <2>1, <3>1, <3>2
  <2> QED BY <1>4, <1>9, <2>3 DEF CreateInvite
<1>10. CASE DeleteInvite(q)
  <2>1. req[q].inv \in InviteIds
    BY <1>2, <1>10 DEF DeleteInvite, Request, Found
  <2> QED BY <1>4, <1>10, <2>1 DEF DeleteInvite, Exists, TypeOK, Invite, States
<1>11. CASE AcceptLookUp(q)
  <2> DEFINE new == [req[q] EXCEPT !.step = IF Taken(req[q].who) THEN "idle" ELSE "acceptWrite"]
  <2>1. new \in Request /\ new.who = req[q].who /\ new.step \in {"idle", "acceptWrite"} /\ new.inv = req[q].inv
    BY <1>2 DEF Request
  <2>2. req' = [req EXCEPT ![q] = new] /\ req[q].step = "acceptUser"
    BY <1>2, <1>11 DEF AcceptLookUp, Read, Continue
  <2> QED BY <1>3, <1>11, <2>1, <2>2 DEF AcceptLookUp, Read
<1>12. CASE JoinTeam(q)
  <2>1. CASE UNCHANGED <<role, invites>>
    BY <1>4, <1>12, <2>1 DEF JoinTeam, TypeOK
  <2>2. CASE ~Taken(req[q].who) /\ Exists(req[q].inv) /\ ~UNCHANGED <<role, invites>>
    <3>1. req[q].inv \in InviteIds /\ req[q].role \in Roles /\ req[q].who \in People
      BY <1>2, <1>12 DEF JoinTeam, Request, Found
    <3>2. /\ role' = [role EXCEPT ![req[q].who] = req[q].role]
          /\ invites' = [invites EXCEPT ![req[q].inv].state = "accepted"]
          /\ Finish(q) /\ UNCHANGED <<elsewhere, raced, calls>>
      BY <1>12, <2>2 DEF JoinTeam
    <3>3. Members' = Members \cup {req[q].who}
      BY <3>1, <3>2 DEF Members, TypeOK
    <3>4. IsFiniteSet(Members')
      BY <3>3, FS_AddElement
    <3>5. TypeOK'
      <4>1. elsewhere' \subseteq People \ Members'
        BY <2>2, <3>2, <3>3 DEF TypeOK, Taken
      <4> QED BY <1>1, <1>2, <3>1, <3>2, <4>1 DEF TypeOK, Finish, Invite, States
    <3>6. \A p \in Requests : req'[p] = req[p] \/ req'[p].step = "idle"
      BY <1>1, <1>2, <3>2 DEF Finish
    <3>7. \A i \in InviteIds : invites[i].state # "none" =>
                invites'[i].email = invites[i].email /\ invites'[i].state # "none"
      BY <3>1, <3>2 DEF TypeOK, Invite
    <3>8. \A p \in Requests : req[p].inv \in 0..MaxInvites
      BY <1>2 DEF Request
    <3>9. Found'
      BY <3>3, <3>6, <3>7, <3>8 DEF Found
    <3> QED BY <3>4, <3>5, <3>9
  <2> QED BY <1>12, <2>1, <2>2 DEF JoinTeam
<1>13. CASE RoleLookUp(q)
  <2> DEFINE next == IF req[q].who \notin Members THEN "idle"
                     ELSE IF role[req[q].who] = "OWNER" /\ req[q].role # "OWNER" THEN "roleCount"
                          ELSE "roleWrite"
             new == [req[q] EXCEPT !.step = next]
  <2>1. /\ new \in Request /\ new.who = req[q].who /\ new.step \in {"idle", "roleCount", "roleWrite"}
        /\ new.step \in OnMember => new.who \in Members
    BY <1>2 DEF Request
  <2>2. req' = [req EXCEPT ![q] = new]
    BY <1>2, <1>13 DEF RoleLookUp, Read, Continue
  <2> QED BY <1>3, <1>13, <2>1, <2>2 DEF RoleLookUp, Read
<1>14. CASE CountOwners(q)
  <2> DEFINE next == IF OtherOwners(req[q].who) = {} THEN "idle"
                     ELSE IF req[q].step = "removeCount" THEN "removeWrite" ELSE "roleWrite"
             new == [req[q] EXCEPT !.step = next]
  <2>1. new \in Request /\ new.who = req[q].who /\ new.step \in {"idle", "removeWrite", "roleWrite"}
    BY <1>2 DEF Request
  <2>2. req' = [req EXCEPT ![q] = new] /\ req[q].who \in Members
    BY <1>2, <1>14 DEF CountOwners, Read, Continue, Found
  <2> QED BY <1>3, <1>14, <2>1, <2>2 DEF CountOwners, Read
<1>15. CASE DeleteUser(q)
  <2>1. req[q].who \in People
    BY <1>2 DEF Request
  <2>2. Members' = Members \ {req[q].who}
    BY <1>15, <2>1 DEF DeleteUser, Members, TypeOK
  <2>3. IsFiniteSet(Members')
    BY <2>2, FS_RemoveElement
  <2>4. TypeOK'
    BY <1>1, <1>2, <1>15, <2>1, <2>2 DEF TypeOK, DeleteUser
  <2>5. \A p \in Requests : \/ req'[p].step = "idle"
                            \/ req'[p] = req[p] /\ ~(req[p].step \in OwnerSteps /\ req[p].who = req[q].who)
    BY <1>1, <1>15 DEF DeleteUser, Naming
  <2>6. Found'
    BY <1>15, <2>2, <2>5 DEF Found, DeleteUser
  <2> QED BY <2>3, <2>4, <2>6
<1>16. CASE WriteRole(q)
  <2>1. req[q].who \in Members /\ req[q].role \in Roles
    BY <1>2, <1>16 DEF WriteRole, Request, Found
  <2>2. Members' = Members
    BY <1>16, <2>1 DEF WriteRole, Members, TypeOK
  <2>3. TypeOK'
    BY <1>1, <1>2, <1>16, <2>1, <2>2 DEF TypeOK, WriteRole, Finish, Members
  <2>4. \A p \in Requests : req'[p] = req[p] \/ req'[p].step = "idle"
    BY <1>1, <1>2, <1>16 DEF WriteRole, Finish
  <2>5. Found'
    BY <1>16, <2>2, <2>4 DEF Found, WriteRole
  <2> QED BY <2>2, <2>3, <2>5
<1>17. CASE Drop(q)
  BY <1>4, <1>17 DEF Drop, TypeOK
<1> QED
  BY <1>5, <1>6, <1>7, <1>8, <1>9, <1>10, <1>11, <1>12, <1>13, <1>14, <1>15, <1>16, <1>17 DEF Handle

LEMMA TypeOther ==
  ASSUME TypeInv, (\E i \in InviteIds : Expire(i)) \/ (\E p \in People : Register(p)) \/ UNCHANGED vars
  PROVE  TypeInv'
<1> USE LimitsAssumption DEF TypeInv
<1>1. UNCHANGED <<role, req>>
  BY DEF Expire, Register, vars
<1>2. Members' = Members
  BY <1>1 DEF Members
<1>3. CASE \E i \in InviteIds : Expire(i)
  <2>1. PICK i \in InviteIds : Expire(i)
    BY <1>3
  <2>2. TypeOK'
    BY <1>2, <2>1 DEF Expire, TypeOK, Invite, States
  <2>3. \A j \in InviteIds : invites[j].state # "none" =>
                invites'[j].email = invites[j].email /\ invites'[j].state # "none"
    BY <2>1 DEF Expire, TypeOK, Invite
  <2>4. \A p \in Requests : req[p].inv \in 0..MaxInvites
    BY DEF TypeOK, Request
  <2>5. Found'
    BY <1>1, <1>2, <2>3, <2>4 DEF Found, InviteIds, Accepting
  <2> QED BY <1>2, <2>2, <2>5
<1>4. CASE \E p \in People : Register(p)
  BY <1>1, <1>2, <1>4 DEF Register, Taken, TypeOK, Found
<1>5. CASE UNCHANGED vars
  BY <1>2, <1>5 DEF vars, TypeOK, Found
<1> QED BY <1>3, <1>4, <1>5

LEMMA TypeNext == TypeInv /\ [Next]_vars => TypeInv'
BY TypeArrive, TypeHandle, TypeOther DEF Next

LEMMA TypeAlways == Spec => []TypeInv
BY TypeInit, TypeNext, PTL DEF Spec

(* The rows of the account and the requests of TeamService have their types;    *)
(* in particular nobody is a member here and has an account elsewhere.           *)
THEOREM TeamTypeCorrect == Spec => []TypeOK
<1>1. TypeInv => TypeOK
  BY DEF TypeInv
<1> QED BY <1>1, TypeAlways, PTL

-----------------------------------------------------------------------------
(* The last owner *)

(* What is about to be written leaves an owner. *)
LeavesOwner(q) == /\ req[q].step = "removeWrite" => OtherOwners(req[q].who) # {}
                  /\ req[q].step = "roleWrite" => req[q].role = "OWNER" \/ OtherOwners(req[q].who) # {}

(* As long as no two removals or role changes overlapped, there is one at most. *)
OwnerInv == "owners" \notin raced =>
   /\ Owners # {}
   /\ \A p, q \in Requests : req[p].step \in OwnerSteps /\ req[q].step \in OwnerSteps => p = q
   /\ \A q \in Requests : LeavesOwner(q)

LEMMA OwnerInit == Init => OwnerInv
BY FounderAssumption DEF Init, OwnerInv, Owners, LeavesOwner, NoRequest, OwnerSteps

LEMMA OwnerArrive ==
  ASSUME TypeInv, OwnerInv, NEW q \in Requests, Arrive(q)
  PROVE  OwnerInv'
<1> USE DEF TypeInv
<1>1. ASSUME NEW step, NEW who \in People, NEW r \in Roles, NEW inv,
             Admit(q, step, who, r, inv),
             step # "roleWrite",
             step = "removeWrite" => role[who] # "OWNER"
      PROVE  OwnerInv'
  <2> SUFFICES ASSUME "owners" \notin raced' PROVE OwnerInv'
    BY DEF OwnerInv
  <2>1. /\ "owners" \notin raced /\ Owners' = Owners
        /\ \A p \in People : OtherOwners(p)' = OtherOwners(p)
    BY <1>1 DEF Admit, Owners, OtherOwners
  <2>2. step \in OwnerSteps => \A p \in Requests : req[p].step \notin OwnerSteps
    BY <1>1 DEF Admit, Active
  <2>3. /\ req'[q].step = step /\ req'[q].who = who
        /\ \A p \in Requests \ {q} : req'[p] = req[p]
    BY <1>1 DEF Admit, NoRequest, TypeOK
  <2>4. \A p \in Requests : req[p].who \in People
    BY DEF TypeOK, Request
  <2>5. step = "removeWrite" => OtherOwners(who) # {}
    BY <1>1, <2>1 DEF OwnerInv, Owners, OtherOwners
  <2>6. \A p \in Requests : LeavesOwner(p)'
    BY <1>1, <2>1, <2>3, <2>4, <2>5 DEF OwnerInv, LeavesOwner
  <2> QED BY <2>1, <2>2, <2>3, <2>6 DEF OwnerInv
<1>2. CASE \E c, p \in People, r \in Roles : InviteTeammate(q, c, p, r)
  BY <1>1, <1>2 DEF InviteTeammate
<1>3. CASE \E c \in People, i \in InviteIds : RevokeInvite(q, c, i)
  BY <1>1, <1>3, FounderAssumption DEF RevokeInvite, Roles
<1>4. CASE \E i \in InviteIds : AcceptInvite(q, i)
  BY <1>1, <1>4 DEF AcceptInvite, TypeOK, Invite
<1>5. CASE \E c, p \in People : RemoveMember(q, c, p)
  BY <1>1, <1>5 DEF RemoveMember, Roles
<1>6. CASE \E c, p \in People, r \in Roles : UpdateMemberRole(q, c, p, r)
  BY <1>1, <1>6 DEF UpdateMemberRole
<1> QED BY <1>2, <1>3, <1>4, <1>5, <1>6 DEF Arrive

LEMMA OwnerHandle ==
  ASSUME TypeInv, OwnerInv, NEW q \in Requests, Handle(q)
  PROVE  OwnerInv'
<1> USE DEF TypeInv
<1>1. SUFFICES ASSUME "owners" \notin raced PROVE OwnerInv'
  <2>1. raced' = raced
    BY DEF Handle, InviteLookUp, CountMembers, CountPending, ResendInvite, CreateInvite, DeleteInvite,
           AcceptLookUp, JoinTeam, RoleLookUp, CountOwners, DeleteUser, WriteRole, Drop, Read
  <2> QED BY <2>1 DEF OwnerInv
<1>2. /\ Owners # {}
      /\ \A p, r \in Requests : req[p].step \in OwnerSteps /\ req[r].step \in OwnerSteps => p = r
      /\ \A p \in Requests : LeavesOwner(p)
  BY <1>1 DEF OwnerInv
<1>3. /\ req \in [Requests -> Request]
      /\ \A p \in Requests : req[p].who \in People /\ req[p].role \in Roles
  BY DEF TypeOK, Request
<1>4. NoRequest.step = "idle"
  BY DEF NoRequest
(* Statements that write no role. *)
<1>5. ASSUME UNCHANGED role,
             \A p \in Requests \ {q} : req'[p] = req[p],
             req'[q].step \in OwnerSteps => req[q].step \in OwnerSteps,
             req'[q].step = "removeWrite" => OtherOwners(req'[q].who) # {},
             req'[q].step = "roleWrite" => req'[q].role = "OWNER" \/ OtherOwners(req'[q].who) # {}
      PROVE  OwnerInv'
  <2>1. Owners' = Owners
    BY <1>5 DEF Owners
  <2>2. \A p \in Requests : LeavesOwner(p)'
    BY <1>2, <1>5, <2>1 DEF LeavesOwner, OtherOwners
  <2> QED BY <1>2, <1>5, <2>1, <2>2 DEF OwnerInv
<1>6. CASE InviteLookUp(q) \/ CountMembers(q) \/ CountPending(q) \/ AcceptLookUp(q)
  <2>1. /\ UNCHANGED role
        /\ \A p \in Requests \ {q} : req'[p] = req[p]
    BY <1>3, <1>6 DEF InviteLookUp, CountMembers, CountPending, AcceptLookUp, Read, Continue
  <2>2. req'[q].step \notin OwnerSteps
    <3>1. req'[q].step \in {"idle", "inviteCounts", "inviteMembers", "invitePending", "inviteWrite",
                           "acceptWrite"}
      <4>1. CASE InviteLookUp(q) \/ AcceptLookUp(q)
        BY <1>3, <4>1 DEF InviteLookUp, AcceptLookUp, Read, Continue, Request
      <4>2. CASE CountMembers(q)
        BY <1>3, <4>2 DEF CountMembers, Request
      <4>3. CASE CountPending(q)
        BY <1>3, <4>3 DEF CountPending, Request
      <4> QED BY <1>6, <4>1, <4>2, <4>3
    <3> QED BY <3>1 DEF OwnerSteps
  <2> QED BY <1>5, <2>1, <2>2 DEF OwnerSteps
<1>7. CASE ResendInvite(q) \/ CreateInvite(q) \/ DeleteInvite(q) \/ Drop(q)
  BY <1>3, <1>4, <1>5, <1>7 DEF ResendInvite, CreateInvite, DeleteInvite, Drop, Finish, OwnerSteps
<1>8. CASE JoinTeam(q)
  <2>1. /\ req'[q].step = "idle"
        /\ \A p \in Requests \ {q} : req'[p] = req[p]
    BY <1>3, <1>4, <1>8 DEF JoinTeam, Finish
  <2>2. Owners \subseteq Owners'
    BY <1>8 DEF JoinTeam, Owners, Taken, Members, TypeOK
  <2>3. \A p \in Requests : LeavesOwner(p)'
    BY <1>2, <2>1, <2>2 DEF LeavesOwner, OtherOwners
  <2> QED BY <1>2, <2>1, <2>2, <2>3 DEF OwnerInv, OwnerSteps
<1>9. CASE RoleLookUp(q)
  <2>1. /\ UNCHANGED role
        /\ \A p \in Requests \ {q} : req'[p] = req[p]
        /\ req'[q].who = req[q].who /\ req'[q].role = req[q].role
        /\ req[q].step = "roleRead"
    BY <1>3, <1>9 DEF RoleLookUp, Read, Continue, Request
  <2>2. /\ req'[q].step \in {"idle", "roleCount", "roleWrite"}
        /\ req'[q].step = "roleWrite" => role[req[q].who] # "OWNER" \/ req[q].role = "OWNER"
    BY <1>3, <1>9 DEF RoleLookUp, Read, Continue, Request
  <2>3. role[req[q].who] # "OWNER" => OtherOwners(req[q].who) # {}
    BY <1>2 DEF Owners, OtherOwners
  <2> QED BY <1>5, <2>1, <2>2, <2>3 DEF OwnerSteps
<1>10. CASE CountOwners(q)
  <2>1. /\ UNCHANGED role
        /\ \A p \in Requests \ {q} : req'[p] = req[p]
        /\ req'[q].who = req[q].who
        /\ req[q].step \in OwnerSteps
    BY <1>3, <1>10 DEF CountOwners, Read, Continue, Request, OwnerSteps
  <2>2. req'[q].step = "idle" \/ OtherOwners(req[q].who) # {}
    BY <1>3, <1>10 DEF CountOwners, Read, Continue, Request
  <2> QED BY <1>5, <2>1, <2>2 DEF OwnerSteps
<1>11. CASE DeleteUser(q) \/ WriteRole(q)
  <2>1. Owners' # {}
    <3>1. CASE DeleteUser(q)
      BY <1>2, <1>3, <3>1 DEF DeleteUser, LeavesOwner, OtherOwners, Owners, TypeOK
    <3>2. CASE WriteRole(q)
      BY <1>2, <1>3, <3>2 DEF WriteRole, LeavesOwner, OtherOwners, Owners, TypeOK
    <3> QED BY <1>11, <3>1, <3>2
  <2>2. req'[q].step = "idle"
    BY <1>3, <1>4, <1>11 DEF DeleteUser, WriteRole, Finish, Naming, OwnerSteps
  <2>3. \A p \in Requests : req'[p].step = "idle" \/ req'[p] = req[p]
    BY <1>3, <1>4, <1>11 DEF DeleteUser, WriteRole, Finish
  <2>4. \A p \in Requests \ {q} : req'[p].step \notin OwnerSteps
    BY <1>2, <1>11, <2>3 DEF DeleteUser, WriteRole, OwnerSteps
  <2>5. \A p \in Requests : req'[p].step \notin OwnerSteps
    BY <2>2, <2>4 DEF OwnerSteps
  <2> QED BY <2>1, <2>5 DEF OwnerInv, LeavesOwner, OwnerSteps
<1> QED BY <1>6, <1>7, <1>8, <1>9, <1>10, <1>11 DEF Handle

LEMMA OwnerOther ==
  ASSUME TypeInv, OwnerInv,
         (\E i \in InviteIds : Expire(i)) \/ (\E p \in People : Register(p)) \/ UNCHANGED vars
  PROVE  OwnerInv'
<1>1. UNCHANGED <<role, req, raced>>
  BY DEF Expire, Register, vars
<1>2. Owners' = Owners
  BY <1>1 DEF Owners
<1> QED BY <1>1, <1>2 DEF OwnerInv, LeavesOwner, OtherOwners

(* "An account can never be left with zero OWNERs", as far as the code          *)
(* guarantees it: unless two removals or role changes were in progress together *)
(* at some time, assertNotLastOwner keeps an owner.                              *)
THEOREM AnOwnerRemains == Spec => []OwnerUnlessRaced
<1>1. TypeInv /\ OwnerInv /\ [Next]_vars => OwnerInv'
  BY OwnerArrive, OwnerHandle, OwnerOther DEF Next
<1>2. OwnerInv => OwnerUnlessRaced
  BY DEF OwnerInv, OwnerUnlessRaced
<1> QED BY <1>1, <1>2, OwnerInit, TypeAlways, PTL DEF Spec

-----------------------------------------------------------------------------
(* Seats and invites *)

(* A seat is kept for the invite in a request's hands, and what it has counted   *)
(* is no less than what there is.                                                *)
SeatKept(q) ==
  /\ req[q].step \in SeatSteps /\ req[q].inv # 0 =>
       Cardinality(Members) + Cardinality(Live \ {req[q].inv}) < MaxMembers
  /\ req[q].step \in {"invitePending", "inviteWrite"} => Cardinality(Members) <= req[q].members
  /\ req[q].step \in {"inviteMembers", "inviteWrite"} => Cardinality(Live) <= req[q].pending

(* Nobody else invites or admits the person a request is about. *)
OwnInvite(q) ==
  /\ req[q].step \in {"inviteCounts", "inviteMembers", "invitePending", "inviteWrite"} =>
       req[q].who \notin Members
  /\ req[q].step \in SeatSteps /\ req[q].inv # 0 =>
       /\ invites[req[q].inv].email = req[q].who
       /\ \A i \in Live : invites[i].email = req[q].who => i = req[q].inv
  /\ req[q].step \in {"inviteMembers", "inviteWrite"} /\ req[q].inv = 0 =>
       \A i \in Live : invites[i].email # req[q].who
  /\ req[q].step \in Accepting => invites[req[q].inv].state # "accepted"

OneAtATime == \A p, q \in Requests : req[p].step \in SeatSteps /\ req[q].step \in SeatSteps => p = q

SeatInv ==
  /\ SeatsUnlessRaced /\ OneInviteUnlessRaced
  /\ "seats" \notin raced => OneAtATime /\ \A q \in Requests : SeatKept(q) /\ OwnInvite(q)

LEMMA SeatInit == Init => SeatInv
<1> SUFFICES ASSUME Init PROVE SeatInv
  OBVIOUS
<1>1. Members = {Founder} /\ Live = {}
  BY FounderAssumption DEF Init, Members, Live
<1>2. Cardinality(Members) = 1 /\ Cardinality(Live) = 0
  BY <1>1, FS_Singleton, FS_EmptySet
<1>3. SeatsUnlessRaced
  BY <1>2, LimitsAssumption DEF SeatsUnlessRaced
<1>4. OneInviteUnlessRaced
  BY <1>1 DEF OneInviteUnlessRaced
<1>5. \A q \in Requests : req[q].step = "idle"
  BY DEF Init, NoRequest
<1> QED BY <1>3, <1>4, <1>5 DEF SeatInv, OneAtATime, SeatKept, OwnInvite, SeatSteps, Accepting

(* A request is taken in: nothing is counted, and an invite to accept is live. *)
LEMMA SeatArrive ==
  ASSUME TypeInv, SeatInv, NEW q \in Requests, Arrive(q)
  PROVE  SeatInv'
<1> USE DEF TypeInv
<1>1. ASSUME NEW step, NEW who, NEW r, NEW inv,
             Admit(q, step, who, r, inv),
             step \notin {"inviteCounts", "inviteMembers", "invitePending", "inviteWrite"},
             step \in SeatSteps => inv = 0 \/ (inv \in Live /\ invites[inv].email = who),
             step \in Accepting => inv # 0
      PROVE  SeatInv'
  <2>1. /\ UNCHANGED <<role, invites>>
        /\ Members' = Members /\ Live' = Live
    BY <1>1 DEF Admit, Members, Live
  <2>2. SUFFICES ASSUME "seats" \notin raced'
                 PROVE  OneAtATime' /\ \A p \in Requests : SeatKept(p)' /\ OwnInvite(p)'
    BY <1>1, <2>1 DEF SeatInv, Admit, SeatsUnlessRaced, OneInviteUnlessRaced
  <2>3. "seats" \notin raced /\ (step \in SeatSteps => \A p \in Requests : req[p].step \notin SeatSteps)
    BY <1>1, <2>2 DEF Admit, Active
  <2>4. /\ req'[q].step = step /\ req'[q].who = who /\ req'[q].inv = inv
        /\ \A p \in Requests \ {q} : req'[p] = req[p]
    BY <1>1 DEF Admit, NoRequest, TypeOK
  <2>5. OneAtATime'
    BY <2>3, <2>4 DEF SeatInv, OneAtATime
  <2>6. \A p \in Requests \ {q} : SeatKept(p)' /\ OwnInvite(p)'
    BY <2>1, <2>3, <2>4 DEF SeatInv, SeatKept, OwnInvite
  <2>7. SeatKept(q)'
    <3>1. inv \in Live => Cardinality(Live \ {inv}) = Cardinality(Live) - 1
      BY Counts, FS_RemoveElement
    <3>2. inv \in Live => Cardinality(Members) + Cardinality(Live \ {inv}) < MaxMembers
      BY <2>3, <3>1, Counts, LimitsAssumption DEF SeatInv, SeatsUnlessRaced
    <3> QED BY <1>1, <2>1, <2>4, <3>2 DEF SeatKept
  <2>8. OwnInvite(q)'
    BY <1>1, <2>1, <2>3, <2>4 DEF OwnInvite, SeatInv, OneInviteUnlessRaced, Live, Accepting, SeatSteps
  <2> QED BY <2>5, <2>6, <2>7, <2>8
<1> USE DEF SeatSteps, Accepting
<1>2. CASE \E c, p \in People, r \in Roles : InviteTeammate(q, c, p, r)
  BY <1>1, <1>2 DEF InviteTeammate
<1>3. CASE \E c \in People, i \in InviteIds : RevokeInvite(q, c, i)
  BY <1>1, <1>3 DEF RevokeInvite
<1>4. CASE \E i \in InviteIds : AcceptInvite(q, i)
  <2>1. PICK i \in Live : Admit(q, "acceptUser", invites[i].email, invites[i].role, i)
    BY <1>4 DEF AcceptInvite, Live
  <2>2. i # 0
    BY DEF Live, InviteIds
  <2> QED BY <1>1, <2>1, <2>2
<1>5. CASE \E c, p \in People : RemoveMember(q, c, p)
  BY <1>1, <1>5 DEF RemoveMember
<1>6. CASE \E c, p \in People, r \in Roles : UpdateMemberRole(q, c, p, r)
  BY <1>1, <1>6 DEF UpdateMemberRole
<1> QED BY <1>2, <1>3, <1>4, <1>5, <1>6 DEF Arrive

(* A request goes on without counting, or ends. *)
Keeps(p) ==
  \/ req'[p].step \notin SeatSteps
  \/ /\ req[p].step \in SeatSteps
     /\ req'[p].who = req[p].who /\ req'[p].inv = req[p].inv
     /\ req'[p].members = req[p].members /\ req'[p].pending = req[p].pending
     /\ \/ req'[p].step = req[p].step
        \/ req'[p].step = "inviteCounts" /\ req[p].who \notin Members
        \/ req'[p].step = "acceptWrite" /\ req[p].step = "acceptUser"

(* Statements after which there are no more members and no more live invites. *)
LEMMA SeatQuiet ==
  ASSUME TypeInv, SeatInv, UNCHANGED raced,
         Members' \subseteq Members, Live' \subseteq Live,
         \A i \in InviteIds : /\ invites'[i].email = invites[i].email
                              /\ invites'[i].state = "accepted" => invites[i].state = "accepted",
         \A p \in Requests : Keeps(p)
  PROVE  SeatInv'
<1> SUFFICES ASSUME "seats" \notin raced PROVE SeatInv'
  BY DEF SeatInv, SeatsUnlessRaced, OneInviteUnlessRaced
<1>1. /\ Cardinality(Members') \in Nat /\ Cardinality(Members') <= Cardinality(Members)
      /\ Cardinality(Live') \in Nat /\ Cardinality(Live') <= Cardinality(Live)
      /\ Cardinality(Members) \in Nat /\ Cardinality(Live) \in Nat
  BY Counts, FS_Subset, FS_CardinalityType DEF TypeInv
<1>2. \A i : /\ Cardinality(Live' \ {i}) \in Nat /\ Cardinality(Live \ {i}) \in Nat
             /\ Cardinality(Live' \ {i}) <= Cardinality(Live \ {i})
  <2> TAKE i
  <2>1. IsFiniteSet(Live \ {i}) /\ (Live' \ {i}) \in SUBSET (Live \ {i})
    BY Counts, FS_RemoveElement
  <2> QED BY <2>1, FS_Subset, FS_CardinalityType
<1>3. SeatsUnlessRaced'
  BY <1>1, LimitsAssumption DEF SeatInv, SeatsUnlessRaced
<1>4. OneInviteUnlessRaced'
  BY DEF SeatInv, OneInviteUnlessRaced, Live
<1>5. OneAtATime'
  BY DEF SeatInv, OneAtATime, Keeps
<1>6. ASSUME NEW p \in Requests
      PROVE  SeatKept(p)' /\ OwnInvite(p)'
  <2>1. req[p].inv \in 0..MaxInvites /\ req[p].members \in Nat /\ req[p].pending \in Nat
    BY DEF TypeInv, TypeOK, Request
  <2>2. SeatKept(p) /\ OwnInvite(p) /\ Keeps(p)
    BY DEF SeatInv
  <2>3. CASE req'[p].step \notin SeatSteps
    BY <2>3 DEF SeatKept, OwnInvite, SeatSteps, Accepting
  <2>4. CASE req'[p].step \in SeatSteps
    <3>1. SeatKept(p)'
      <4>1. /\ req'[p].step \in {"invitePending", "inviteWrite"} => req[p].step = req'[p].step
            /\ req'[p].step \in {"inviteMembers", "inviteWrite"} => req[p].step = req'[p].step
            /\ req[p].step \in SeatSteps
            /\ req'[p].inv = req[p].inv
            /\ req'[p].members = req[p].members /\ req'[p].pending = req[p].pending
        BY <2>2, <2>4 DEF Keeps
      <4>2. req[p].inv # 0 =>
              Cardinality(Members') + Cardinality(Live' \ {req[p].inv}) < MaxMembers
        <5> DEFINE L == Cardinality(Live \ {req[p].inv})
                   M == Cardinality(Live' \ {req[p].inv})
        <5>1. L \in Nat /\ M \in Nat /\ M <= L
          BY <1>2
        <5>2. req[p].inv # 0 => Cardinality(Members) + L < MaxMembers
          BY <2>2, <4>1 DEF SeatKept
        <5> HIDE DEF L, M
        <5>3. req[p].inv # 0 => Cardinality(Members') + M < MaxMembers
          BY <1>1, <5>1, <5>2, LimitsAssumption
        <5> QED BY <5>3 DEF M
      <4>3. req'[p].step \in {"invitePending", "inviteWrite"} => Cardinality(Members') <= req[p].members
        BY <1>1, <2>1, <2>2, <4>1 DEF SeatKept
      <4>4. req'[p].step \in {"inviteMembers", "inviteWrite"} => Cardinality(Live') <= req[p].pending
        BY <1>1, <2>1, <2>2, <4>1 DEF SeatKept
      <4> QED BY <4>1, <4>2, <4>3, <4>4 DEF SeatKept
    <3>2. OwnInvite(p)'
      BY <2>1, <2>2, <2>4 DEF OwnInvite, Keeps, Live, InviteIds, Accepting, TypeInv, Found
    <3> QED BY <3>1, <3>2
  <2> QED BY <2>3, <2>4
<1> QED BY <1>3, <1>4, <1>5, <1>6 DEF SeatInv

(* The two counts of inviteTeammate. *)
LEMMA SeatCount ==
  ASSUME TypeInv, SeatInv, NEW q \in Requests, CountMembers(q) \/ CountPending(q)
  PROVE  SeatInv'
<1> USE DEF TypeInv
<1>1. UNCHANGED <<role, invites, raced>> /\ Members' = Members /\ Live' = Live
  BY DEF CountMembers, CountPending, Members, Live
<1>2. SUFFICES ASSUME "seats" \notin raced
               PROVE  OneAtATime' /\ \A p \in Requests : SeatKept(p)' /\ OwnInvite(p)'
  BY <1>1 DEF SeatInv, SeatsUnlessRaced, OneInviteUnlessRaced
<1>3. /\ req \in [Requests -> Request]
      /\ \A p \in Requests : SeatKept(p) /\ OwnInvite(p)
      /\ Cardinality(Members) \in Nat /\ Cardinality(Live) \in Nat
  BY <1>2, Counts DEF SeatInv, TypeOK
<1>4. req[q].step \in SeatSteps /\ \A p \in Requests \ {q} : req'[p] = req[p]
  BY <1>3 DEF CountMembers, CountPending, SeatSteps
<1>5. OneAtATime'
  BY <1>2, <1>4 DEF SeatInv, OneAtATime
<1>6. ASSUME NEW p \in Requests \ {q}
      PROVE  SeatKept(p)' /\ OwnInvite(p)'
  <2>1. req'[p] = req[p] /\ SeatKept(p) /\ OwnInvite(p)
    BY <1>3, <1>4
  <2>2. SeatKept(p)'
    BY <1>1, <2>1 DEF SeatKept
  <2>3. OwnInvite(p)'
    BY <1>1, <2>1 DEF OwnInvite
  <2> QED BY <2>2, <2>3
<1>7. CASE CountMembers(q)
  <2>1. /\ req'[q].who = req[q].who /\ req'[q].inv = req[q].inv
        /\ req'[q].members = Cardinality(Members) /\ req'[q].pending = req[q].pending
        /\ \/ req[q].step = "inviteCounts" /\ req'[q].step = "invitePending"
           \/ req[q].step = "inviteMembers" /\ req'[q].step = "inviteWrite"
    BY <1>3, <1>7 DEF CountMembers, Request
  <2>2. SeatKept(q)'
    BY <1>1, <1>3, <2>1 DEF SeatKept, SeatSteps
  <2>3. OwnInvite(q)'
    BY <1>1, <1>3, <2>1 DEF OwnInvite, SeatSteps, Accepting
  <2> QED BY <1>5, <1>6, <2>2, <2>3
<1>8. CASE CountPending(q)
  <2>1. PICK i \in IF ExistingInvite(req[q].who) = {} THEN {0} ELSE ExistingInvite(req[q].who) :
           req' = [req EXCEPT ![q].pending = Cardinality(Live), ![q].inv = i,
                              ![q].step = IF @ = "inviteCounts" THEN "inviteMembers" ELSE "inviteWrite"]
    BY <1>8 DEF CountPending
  <2>2. /\ req'[q].who = req[q].who /\ req'[q].inv = i
        /\ req'[q].members = req[q].members /\ req'[q].pending = Cardinality(Live)
        /\ \/ req[q].step = "inviteCounts" /\ req'[q].step = "inviteMembers"
           \/ req[q].step = "invitePending" /\ req'[q].step = "inviteWrite"
    <3>1. req[q] \in Request /\ req[q].step \in {"inviteCounts", "invitePending"}
      BY <1>3, <1>8 DEF CountPending
    <3>2. req'[q] = [req[q] EXCEPT !.pending = Cardinality(Live), !.inv = i,
                         !.step = IF @ = "inviteCounts" THEN "inviteMembers" ELSE "inviteWrite"]
      BY <1>3, <2>1
    <3> HIDE DEF TypeInv
    <3> QED BY <3>1, <3>2 DEF Request
  <2>3. \/ i = 0 /\ \A j \in Live : invites[j].email # req[q].who
        \/ i \in Live /\ i # 0 /\ invites[i].email = req[q].who
    BY DEF ExistingInvite, Live, InviteIds
  <2>4. i \in Live => Cardinality(Members) + Cardinality(Live \ {i}) < MaxMembers
    <3>1. i \in Live => Cardinality(Live \ {i}) = Cardinality(Live) - 1
      BY Counts, FS_RemoveElement
    <3> QED BY <1>2, <1>3, <3>1, LimitsAssumption DEF SeatInv, SeatsUnlessRaced
  <2>5. SeatKept(q)'
    <3>1. i # 0 => Cardinality(Members) + Cardinality(Live \ {i}) < MaxMembers
      BY <2>3, <2>4
    <3>2. req'[q].inv # 0 =>
            Cardinality(Members') + Cardinality(Live' \ {req'[q].inv}) < MaxMembers
      BY <1>1, <2>2, <3>1
    <3>3. /\ req'[q].step = "inviteWrite" => Cardinality(Members') <= req'[q].members
          /\ req'[q].step # "invitePending"
      BY <1>1, <1>3, <2>2 DEF SeatKept
    <3>4. Cardinality(Live') <= req'[q].pending
      BY <1>1, <1>3, <2>2
    <3> QED BY <3>2, <3>3, <3>4 DEF SeatKept
  <2>6. OwnInvite(q)'
    BY <1>1, <1>2, <1>3, <2>2, <2>3
    DEF OwnInvite, SeatInv, OneInviteUnlessRaced, SeatSteps, Accepting
  <2> QED BY <1>5, <1>6, <2>5, <2>6
<1> QED BY <1>7, <1>8

(* The statements that fill a seat: the request ends, and it was the only one. *)
LEMMA SeatWrite ==
  ASSUME TypeInv, SeatInv, NEW q \in Requests, ResendInvite(q) \/ CreateInvite(q) \/ JoinTeam(q)
  PROVE  SeatInv'
<1> USE DEF TypeInv
<1>1. SUFFICES ASSUME "seats" \notin raced PROVE SeatInv'
  <2>1. raced' = raced
    BY DEF ResendInvite, CreateInvite, JoinTeam
  <2> QED BY <2>1 DEF SeatInv, SeatsUnlessRaced, OneInviteUnlessRaced
<1>2. /\ OneAtATime /\ SeatKept(q) /\ OwnInvite(q)
      /\ Cardinality(Members) + Cardinality(Live) <= MaxMembers
      /\ \A i \in Live : /\ invites[i].email \notin Members
                         /\ \A j \in Live : invites[i].email = invites[j].email => i = j
  BY <1>1 DEF SeatInv, SeatsUnlessRaced, OneInviteUnlessRaced
<1>3. /\ Cardinality(Members) \in Nat /\ Cardinality(Live) \in Nat /\ IsFiniteSet(Live)
      /\ MaxMembers \in Nat
  BY Counts, LimitsAssumption
<1>4. /\ req \in [Requests -> Request] /\ req[q] \in Request
      /\ invites \in [InviteIds -> Invite] /\ role \in [People -> Roles \cup {"none"}]
  BY DEF TypeOK
<1>5. /\ req[q].inv \in 0..MaxInvites /\ req[q].who \in People /\ req[q].role \in Roles
      /\ req[q].members \in Nat /\ req[q].pending \in Nat
  BY <1>4 DEF Request
<1>6. \A p \in Requests : req'[p].step \notin SeatSteps
  <2>1. req' = [req EXCEPT ![q] = NoRequest] /\ req[q].step \in SeatSteps
    BY DEF ResendInvite, CreateInvite, JoinTeam, Finish, SeatSteps
  <2>2. NoRequest.step \notin SeatSteps
    BY DEF NoRequest, SeatSteps
  <2> QED BY <1>2, <1>4, <2>1, <2>2 DEF OneAtATime
<1>7. SUFFICES /\ Cardinality(Members') + Cardinality(Live') <= MaxMembers
               /\ \A i \in Live' : /\ invites'[i].email \notin Members'
                                   /\ \A j \in Live' : invites'[i].email = invites'[j].email => i = j
  BY <1>6 DEF SeatInv, SeatsUnlessRaced, OneInviteUnlessRaced, OneAtATime, SeatKept, OwnInvite,
              SeatSteps, Accepting
<1>8. CASE UNCHANGED <<role, invites>>
  BY <1>2, <1>8 DEF Members, Live
<1>9. ASSUME NEW i \in InviteIds
      PROVE  /\ IsFiniteSet(Live \ {i}) /\ Cardinality(Live \ {i}) \in Nat
             /\ Cardinality((Live \ {i}) \cup {i}) = Cardinality(Live \ {i}) + 1
  <2>1. IsFiniteSet(Live \ {i}) /\ i \notin Live \ {i}
    BY <1>3, FS_RemoveElement
  <2> QED BY <2>1, FS_AddElement, FS_CardinalityType
<1>10. CASE ResendInvite(q) /\ ~UNCHANGED <<role, invites>>
  <2> DEFINE i == req[q].inv
  <2>1. /\ i \in InviteIds /\ req[q].step = "inviteWrite" /\ UNCHANGED role
        /\ invites' = [invites EXCEPT ![i].role = req[q].role,
                                      ![i].state = IF @ = "accepted" THEN @ ELSE "live"]
    BY <1>5, <1>10 DEF ResendInvite, InviteIds
  <2>2. /\ invites'[i].email = req[q].who
        /\ \A j \in InviteIds \ {i} : invites'[j] = invites[j]
    BY <1>2, <1>4, <2>1 DEF OwnInvite, SeatSteps, Invite, InviteIds
  <2>3. Members' = Members /\ Live' \subseteq (Live \ {i}) \cup {i}
    BY <2>1, <2>2 DEF Members, Live
  <2>4. Cardinality(Members) + Cardinality(Live \ {i}) < MaxMembers
    BY <1>2, <2>1 DEF SeatKept, SeatSteps, InviteIds
  <2>5. Cardinality(Live') \in Nat /\ Cardinality(Live') <= Cardinality(Live \ {i}) + 1
    <3>1. IsFiniteSet((Live \ {i}) \cup {i})
      BY <1>9, <2>1, FS_AddElement
    <3> QED BY <1>9, <2>1, <2>3, <3>1, FS_Subset, FS_CardinalityType
  <2>6. Cardinality(Members') + Cardinality(Live') <= MaxMembers
    <3> DEFINE M == Cardinality(Members)
               L == Cardinality(Live \ {i})
               L2 == Cardinality(Live')
    <3>1. M \in Nat /\ L \in Nat /\ L2 \in Nat /\ M + L < MaxMembers /\ L2 <= L + 1
      BY <1>3, <1>9, <2>1, <2>4, <2>5
    <3>2. Cardinality(Members') = M
      BY <2>3
    <3> HIDE DEF M, L, L2
    <3>3. M + L2 <= MaxMembers
      BY <1>3, <3>1
    <3> QED BY <3>2, <3>3 DEF L2
  <2>7. req[q].who \notin Members /\ \A j \in Live : invites[j].email = req[q].who => j = i
    BY <1>2, <2>1 DEF OwnInvite, SeatSteps, InviteIds
  <2> HIDE DEF i
  <2> QED BY <1>2, <2>2, <2>3, <2>6, <2>7 DEF Live
<1>11. CASE CreateInvite(q) /\ ~UNCHANGED <<role, invites>>
  <2>1. PICK i \in InviteIds :
           /\ invites[i].state = "none"
           /\ invites' = [invites EXCEPT ![i] = [email |-> req[q].who, role |-> req[q].role,
                                                 state |-> "live"]]
    BY <1>11 DEF CreateInvite
  <2>2. /\ req[q].step = "inviteWrite" /\ req[q].inv = 0 /\ UNCHANGED role
        /\ req[q].members + req[q].pending < MaxMembers
    BY <1>11 DEF CreateInvite, WithinLimit
  <2>3. /\ invites'[i].email = req[q].who
        /\ \A j \in InviteIds \ {i} : invites'[j] = invites[j]
    BY <1>4, <2>1
  <2>4. Members' = Members /\ Live' = Live \cup {i} /\ i \notin Live
    BY <1>4, <2>1, <2>2 DEF Members, Live
  <2>5. Cardinality(Live') = Cardinality(Live) + 1
    BY <1>3, <2>4, FS_AddElement
  <2>6. Cardinality(Members) <= req[q].members /\ Cardinality(Live) <= req[q].pending
    BY <1>2, <2>2 DEF SeatKept
  <2>7. Cardinality(Members') + Cardinality(Live') <= MaxMembers
    BY <1>3, <1>5, <2>2, <2>4, <2>5, <2>6
  <2>8. req[q].who \notin Members /\ \A j \in Live : invites[j].email # req[q].who
    BY <1>2, <2>2 DEF OwnInvite
  <2> QED BY <1>2, <2>3, <2>4, <2>7, <2>8 DEF Live
<1>12. CASE JoinTeam(q) /\ ~UNCHANGED <<role, invites>>
  <2> DEFINE i == req[q].inv
  <2>1. /\ req[q].step = "acceptWrite" /\ ~Taken(req[q].who)
        /\ role' = [role EXCEPT ![req[q].who] = req[q].role]
        /\ invites' = [invites EXCEPT ![i].state = "accepted"]
    BY <1>12 DEF JoinTeam
  <2>2. i \in InviteIds
    BY <1>5, <2>1 DEF Found, Accepting, InviteIds
  <2>3. \A j \in InviteIds : /\ invites'[j].email = invites[j].email
                             /\ invites'[j].state = IF j = i THEN "accepted" ELSE invites[j].state
    BY <1>4, <2>1, <2>2 DEF Invite
  <2>4. Members' = Members \cup {req[q].who} /\ Live' = Live \ {i}
    BY <1>4, <1>5, <2>1, <2>3 DEF Members, Live, Roles
  <2>5. IsFiniteSet(Members) /\ req[q].who \notin Members
    BY <2>1 DEF Taken
  <2>6. Cardinality(Members') = Cardinality(Members) + 1
    BY <2>4, <2>5, FS_AddElement
  <2>7. Cardinality(Members) + Cardinality(Live \ {i}) < MaxMembers
    BY <1>2, <2>1, <2>2 DEF SeatKept, SeatSteps, InviteIds
  <2>8. Cardinality(Members') + Cardinality(Live') <= MaxMembers
    <3> DEFINE M == Cardinality(Members)
               L == Cardinality(Live \ {i})
    <3>1. M \in Nat /\ L \in Nat /\ M + L < MaxMembers
      BY <1>3, <1>9, <2>2, <2>7
    <3>2. Cardinality(Members') = M + 1 /\ Cardinality(Live') = L
      BY <2>4, <2>6
    <3> HIDE DEF M, L
    <3> QED BY <1>3, <3>1, <3>2
  <2>9. \A j \in Live : invites[j].email = req[q].who => j = i
    BY <1>2, <2>1, <2>2 DEF OwnInvite, SeatSteps, InviteIds
  <2> HIDE DEF i
  <2> QED BY <1>2, <2>3, <2>4, <2>8, <2>9 DEF Live
<1> QED BY <1>8, <1>10, <1>11, <1>12

LEMMA SeatNext == TypeInv /\ SeatInv /\ [Next]_vars => SeatInv'
<1> SUFFICES ASSUME TypeInv, SeatInv, [Next]_vars PROVE SeatInv'
  OBVIOUS
<1> USE DEF TypeInv
<1>1. /\ req \in [Requests -> Request] /\ invites \in [InviteIds -> Invite]
      /\ role \in [People -> Roles \cup {"none"}]
      /\ NoRequest.step \notin SeatSteps
  BY DEF TypeOK, NoRequest, SeatSteps
(* Statements that change neither members nor invites. *)
<1>2. ASSUME UNCHANGED <<role, invites, raced>>, \A p \in Requests : Keeps(p)
      PROVE  SeatInv'
  <2>1. Members' = Members /\ Live' = Live
    BY <1>2 DEF Members, Live
  <2> QED BY <1>2, <2>1, SeatQuiet
<1>3. ASSUME NEW p \in Requests, req'[p] = req[p] \/ req'[p].step \notin SeatSteps PROVE Keeps(p)
  BY <1>3 DEF Keeps
<1>4. CASE \E q \in Requests : InviteLookUp(q) \/ AcceptLookUp(q) \/ RoleLookUp(q) \/ CountOwners(q) \/ Drop(q)
  <2>1. PICK q \in Requests : InviteLookUp(q) \/ AcceptLookUp(q) \/ RoleLookUp(q) \/ CountOwners(q) \/ Drop(q)
    BY <1>4
  <2>2. UNCHANGED <<role, invites, raced>> /\ \A p \in Requests \ {q} : req'[p] = req[p]
    BY <1>1, <2>1 DEF InviteLookUp, AcceptLookUp, RoleLookUp, CountOwners, Drop, Read, Continue, Finish
  <2>3. Keeps(q)
    <3>1. CASE InviteLookUp(q)
      BY <1>1, <3>1 DEF InviteLookUp, Read, Continue, Keeps, Taken, Request, SeatSteps
    <3>2. CASE AcceptLookUp(q)
      BY <1>1, <3>2 DEF AcceptLookUp, Read, Continue, Keeps, Request, SeatSteps
    <3>3. CASE RoleLookUp(q)
      BY <1>1, <3>3 DEF RoleLookUp, Read, Continue, Keeps, Request, SeatSteps
    <3>4. CASE CountOwners(q)
      BY <1>1, <3>4 DEF CountOwners, Read, Continue, Keeps, Request, SeatSteps
    <3>5. CASE Drop(q)
      BY <1>1, <3>5 DEF Drop, Finish, Keeps
    <3> QED BY <2>1, <3>1, <3>2, <3>3, <3>4, <3>5
  <2> QED BY <1>2, <1>3, <2>2, <2>3
<1>5. CASE \E q \in Requests : DeleteInvite(q) \/ DeleteUser(q) \/ WriteRole(q)
  <2>1. PICK q \in Requests : DeleteInvite(q) \/ DeleteUser(q) \/ WriteRole(q)
    BY <1>5
  <2>2. raced' = raced /\ \A p \in Requests : Keeps(p)
    <3>1. \A p \in Requests : req'[p] = req[p] \/ req'[p] = NoRequest
      BY <1>1, <2>1 DEF DeleteInvite, DeleteUser, WriteRole, Finish
    <3> QED BY <1>1, <1>3, <2>1, <3>1 DEF DeleteInvite, DeleteUser, WriteRole
  <2>3. Members' \subseteq Members
    <3>1. CASE DeleteInvite(q)
      BY <3>1 DEF DeleteInvite, Members
    <3>2. CASE DeleteUser(q)
      BY <1>1, <3>2 DEF DeleteUser, Members
    <3>3. CASE WriteRole(q)
      BY <1>1, <3>3 DEF WriteRole, Members, Found, OnMember
    <3> QED BY <2>1, <3>1, <3>2, <3>3
  <2>4. /\ Live' \subseteq Live
        /\ \A i \in InviteIds : /\ invites'[i].email = invites[i].email
                                /\ invites'[i].state = "accepted" => invites[i].state = "accepted"
    <3>1. CASE DeleteInvite(q)
      BY <1>1, <3>1 DEF DeleteInvite, Live, Invite
    <3>2. CASE DeleteUser(q) \/ WriteRole(q)
      BY <3>2 DEF DeleteUser, WriteRole, Live
    <3> QED BY <2>1, <3>1, <3>2
  <2> QED BY <2>2, <2>3, <2>4, SeatQuiet
<1>6. CASE \E i \in InviteIds : Expire(i)
  <2>1. UNCHANGED <<role, req, raced>>
    BY <1>6 DEF Expire
  <2>2. Members' = Members /\ \A p \in Requests : Keeps(p)
    BY <1>3, <2>1 DEF Members
  <2>3. /\ Live' \subseteq Live
        /\ \A i \in InviteIds : /\ invites'[i].email = invites[i].email
                                /\ invites'[i].state = "accepted" => invites[i].state = "accepted"
    BY <1>1, <1>6 DEF Expire, Live, Invite
  <2> QED BY <2>1, <2>2, <2>3, SeatQuiet
<1>7. CASE (\E p \in People : Register(p)) \/ UNCHANGED vars
  BY <1>2, <1>3, <1>7 DEF Register, vars
<1> QED
  BY <1>4, <1>5, <1>6, <1>7, SeatArrive, SeatCount, SeatWrite DEF Next, Handle

LEMMA SeatAlways == Spec => [](TypeInv /\ SeatInv)
BY TypeAlways, SeatInit, SeatNext, PTL DEF Spec

(* Members and live invites never exceed maxTeamMembers, unless two invitations *)
(* or acceptances were in progress together at some time: what inviteTeammate   *)
(* counted is no less than what there is when it writes, and an acceptance or a *)
(* resend finds the seat of its invite still free.                              *)
THEOREM SeatsWithinPlan == Spec => []SeatsUnlessRaced
BY SeatAlways, PTL DEF SeatInv

(* One live invite per address and none for a member, with the same exception. *)
THEOREM OneLiveInvite == Spec => []OneInviteUnlessRaced
BY SeatAlways, PTL DEF SeatInv

(* acceptInvite lets somebody in only by an invite for her address that is      *)
(* there at that moment, and not used unless two acceptances overlapped.        *)
THEOREM JoiningUsesAnInvite == Spec => JoinUsesUpAnInvite
<1> DEFINE Used(p) == \E i \in InviteIds :
                        /\ invites[i].email = p
                        /\ invites[i].state \in {"live", "expired"} \cup
                              (IF "seats" \in raced THEN {"accepted"} ELSE {})
                        /\ invites'[i].state = "accepted"
<1>1. TypeInv /\ SeatInv /\ [Next]_vars => [\A p \in Members' \ Members : Used(p)]_vars
  <2> SUFFICES ASSUME TypeInv, SeatInv, [Next]_vars, NEW p \in Members' \ Members
               PROVE  Used(p)
    OBVIOUS
  <2> USE DEF TypeInv
  <2>1. /\ req \in [Requests -> Request] /\ invites \in [InviteIds -> Invite]
        /\ role \in [People -> Roles \cup {"none"}]
    BY DEF TypeOK
  <2>2. ~UNCHANGED role
    BY DEF Members
  <2>3. PICK q \in Requests : JoinTeam(q) \/ DeleteUser(q) \/ WriteRole(q)
    BY <2>2 DEF Next, vars, Arrive, InviteTeammate, RevokeInvite, AcceptInvite, RemoveMember,
         UpdateMemberRole, Admit, Handle, InviteLookUp, CountMembers, CountPending, ResendInvite,
         CreateInvite, DeleteInvite, AcceptLookUp, RoleLookUp, CountOwners, Drop, Read, Expire, Register
  <2>4. CASE DeleteUser(q) \/ WriteRole(q)
    BY <2>1, <2>4 DEF DeleteUser, WriteRole, Members, Found, OnMember
  <2>5. CASE JoinTeam(q)
    <3> DEFINE i == req[q].inv
    <3>1. /\ req[q].step = "acceptWrite" /\ Exists(i)
          /\ role' = [role EXCEPT ![req[q].who] = req[q].role]
          /\ invites' = [invites EXCEPT ![i].state = "accepted"]
      BY <2>2, <2>5 DEF JoinTeam
    <3>2. i \in InviteIds /\ invites[i].email = req[q].who
      BY <2>1, <3>1 DEF Found, Accepting, InviteIds, Request
    <3>3. p = req[q].who
      BY <2>1, <3>1 DEF Members
    <3>4. invites'[i].state = "accepted"
      BY <2>1, <3>1, <3>2 DEF Invite
    <3>5. invites[i].state \in {"live", "expired", "accepted"}
      BY <2>1, <3>1, <3>2 DEF Exists, Invite, States
    <3>6. "seats" \notin raced => invites[i].state # "accepted"
      BY <3>1 DEF SeatInv, OwnInvite, Accepting
    <3> QED BY <3>2, <3>3, <3>4, <3>5, <3>6
  <2> QED BY <2>3, <2>4, <2>5
<1> QED BY <1>1, SeatAlways, PTL DEF Spec, JoinUsesUpAnInvite
=============================================================================
