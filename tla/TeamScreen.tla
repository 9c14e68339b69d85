------------------------------ MODULE TeamScreen ------------------------------
(***************************************************************************)
(* The team page (TeamPage.tsx) against TeamService: every change but a    *)
(* rename is followed by a reload of the overview, and nothing keeps two   *)
(* of them apart or their reloads in order.                                *)
(*                                                                         *)
(* The user is one of the team, with a role that stays; the others are     *)
(* invited, join by themselves, change roles and are removed.  Rows have   *)
(* ids, for a request names the row that was shown.  Covered: requests     *)
(* and answers that are lost, and acceptances that are slower than the     *)
(* changes around them, one at a time for a person.  Not covered: other    *)
(* managers and further acceptances (Team has them), further owners,       *)
(* invites that expire.                                                    *)
(***************************************************************************)
EXTENDS Naturals, Sequences, FiniteSets

CONSTANTS People,    \* the others
          TeamSeats, \* limits of the plans
          MaxActs    \* bound: requests of a visit, the first load included

Roles == {"MEMBER", "ADMIN"}
Nobody == [as |-> "nobody", role |-> "MEMBER", id |-> 0]
Person == [as : {"invited", "member"}, role : Roles, id : 1..MaxActs] \cup {Nobody}

VARIABLES teamPeople,  \* the User and Invite rows of the others
          teamAccepts, \* the invitation as acceptInvite has read it, of those who try to join
          teamInvites, \* ids of the Invite rows, accepted ones too
          teamName,    \* Account.name
          teamMe,      \* role of the user
          teamSeats,   \* maxTeamMembers
          teamShown,   \* the state `team`: an overview, << >> before the first
          teamActs,    \* requests of the page, in the order of the taps
          teamReads,   \* overviews read so far; the one that is shown
          teamUpset    \* history: an answer was lost, an older overview came last

teamVars == <<teamPeople, teamAccepts, teamInvites, teamName, teamMe, teamSeats, teamShown, teamActs, teamReads,
              teamUpset>>
serverVars == <<teamPeople, teamAccepts, teamInvites, teamName, teamMe, teamSeats>>

(* An overview: the two lists and the name; `torn` is history, who joined between *)
(* the reading of one list and the other.                                          *)
Lists == {"members", "invites"}
Reads == Lists \cup {"account"}
Blank == [members |-> [p \in People |-> Nobody], invites |-> [p \in People |-> Nobody],
          name |-> 0, torn |-> {}]

(* `copy` is what the queries of its overview have read, but for those `left`. *)
Act(op, p, person, step) == [op |-> op, who |-> p, as |-> person, step |-> step,
                             copy |-> Blank, left |-> Reads, read |-> 0, renamed |-> 0]

(* One of the others is on the team already. *)
First == CHOOSE p \in People : TRUE

Init == /\ teamPeople = [p \in People |-> IF p = First THEN [as |-> "member", role |-> "MEMBER", id |-> 1]
                                          ELSE Nobody]
        /\ teamAccepts = [p \in People |-> Nobody]
        /\ teamInvites = {1} /\ teamName = 0
        /\ teamMe \in {"OWNER", "ADMIN", "MEMBER"} /\ teamSeats \in TeamSeats
        /\ teamShown = << >> /\ teamUpset = FALSE
        /\ teamActs = <<Act("load", 0, Nobody, "asking")>>
        /\ teamReads = [last |-> 0, shown |-> 0]

UnderWay == {n \in DOMAIN teamActs : teamActs[n].step # "end"}
Count(people) == 1 + Cardinality({p \in DOMAIN people : people[p] # Nobody})

(* The conditions of the page's controls. *)
CanManage == teamMe \in {"OWNER", "ADMIN"}
IsOwner == teamMe = "OWNER"
AtLimit == Count(teamShown.members) + Count(teamShown.invites) - 1 >= teamSeats

-----------------------------------------------------------------------------
(* Taps.  Only an invite and a rename wait for the one before. *)

Tap(op, p, person) ==
  /\ teamShown # << >> /\ Len(teamActs) < MaxActs
  /\ op \in {"invite", "rename"} => \A n \in UnderWay : teamActs[n].op # op
  /\ teamActs' = Append(teamActs, Act(op, p, person, "sent"))
  /\ UNCHANGED <<serverVars, teamShown, teamReads, teamUpset>>

SendInvite(p, role) == /\ Tap("invite", p, [Nobody EXCEPT !.role = role])
                       /\ CanManage /\ ~AtLimit

RevokeInvite(p) == /\ Tap("revoke", p, teamShown.invites[p])
                   /\ CanManage /\ teamShown.invites[p].as = "invited"

RemoveMember(p) == LET member == teamShown.members[p] IN
                   /\ Tap("remove", p, member)
                   /\ member.as = "member" /\ CanManage
                   /\ IsOwner \/ member.role = "MEMBER"

ChangeRole(p, role) == LET member == teamShown.members[p] IN
                       /\ Tap("role", p, [member EXCEPT !.role = role])
                       /\ member.as = "member" /\ IsOwner /\ role # member.role

SaveAccountName == Tap("rename", 0, Nobody) /\ IsOwner

-----------------------------------------------------------------------------
(* The API: the handler of a change in one step. *)

SameUser(act) == teamPeople[act.who].as = "member" /\ teamPeople[act.who].id = act.as.id

(* A live invite is renewed, a new one needs a seat, a row that is named must be there. *)
Allowed(act) ==
  CASE act.op = "invite" -> LET now == teamPeople[act.who] IN
                              now.as = "invited" \/ (now = Nobody /\ Count(teamPeople) < teamSeats)
    [] act.op = "revoke" -> act.as.id \in teamInvites
    [] act.op = "remove" -> SameUser(act) /\ (IsOwner \/ teamPeople[act.who].role = "MEMBER")
    [] act.op = "role"   -> SameUser(act)
    [] act.op = "rename" -> TRUE

(* The person after it: the row of an invite bears the number of its request. *)
After(n) ==
  LET act == teamActs[n]
      now == teamPeople[act.who]
  IN CASE act.op = "invite" -> IF now.as = "invited" THEN [now EXCEPT !.role = act.as.role]
                               ELSE [as |-> "invited", role |-> act.as.role, id |-> n]
       [] act.op = "revoke" -> IF now.as = "invited" /\ now.id = act.as.id THEN Nobody ELSE now
       [] act.op = "remove" -> Nobody
       [] act.op = "role"   -> act.as

(* An overview that has the name from before a rename knows which one. *)
HasName(act) == act.step = "reading" /\ "account" \notin act.left

Runs(n) ==
  LET act == teamActs[n] IN
  /\ act.step = "sent" /\ Allowed(act)
  /\ IF act.op = "rename"
       THEN /\ teamName' = n
            /\ teamActs' = [m \in DOMAIN teamActs |->
                 [teamActs[m] EXCEPT !.step = IF m = n THEN "ran" ELSE @,
                                     !.renamed = IF HasName(teamActs[m]) THEN n ELSE @]]
            /\ UNCHANGED teamPeople
       ELSE /\ teamPeople' = [teamPeople EXCEPT ![act.who] = After(n)]
            /\ teamActs' = [teamActs EXCEPT ![n].step = "ran"]
            /\ UNCHANGED teamName
  /\ teamInvites' = CASE act.op = "revoke" -> teamInvites \ {act.as.id}
                      [] act.op = "invite" -> teamInvites \cup {After(n).id}
                      [] OTHER -> teamInvites
  /\ UNCHANGED <<teamAccepts, teamMe, teamSeats, teamShown, teamReads, teamUpset>>

(* Refused or lost: the page says so, and does not reload.  The change may have been made. *)
Fails(n) ==
  /\ \/ teamActs[n].step = "sent"
     \/ teamActs[n].step = "ran"
  /\ teamActs' = [teamActs EXCEPT ![n].step = "end"]
  /\ teamUpset' = (teamUpset \/ teamActs[n].step = "ran")
  /\ UNCHANGED <<serverVars, teamShown, teamReads>>

(* acceptInvite reads the invitation and hashes the password, before its transaction. *)
AcceptRead(p) ==
  /\ teamPeople[p].as = "invited"
  /\ teamAccepts' = [teamAccepts EXCEPT ![p] = teamPeople[p]]
  /\ UNCHANGED <<teamPeople, teamInvites, teamName, teamMe, teamSeats, teamShown, teamActs, teamReads,
                 teamUpset>>

HalfRead(act) == act.step = "reading" /\ \E list \in Lists : act.left \cap Lists = {list}

(* The user has the role that was read; the transaction fails when the row is gone. *)
Joins(p) ==
  LET read == teamAccepts[p] IN
  /\ teamPeople[p].as = "invited" /\ read.as = "invited" /\ read.id = teamPeople[p].id
  /\ teamPeople' = [teamPeople EXCEPT ![p] = [read EXCEPT !.as = "member"]]
  /\ teamAccepts' = [teamAccepts EXCEPT ![p] = Nobody]
  /\ teamActs' = [n \in DOMAIN teamActs |->
                    [teamActs[n] EXCEPT !.copy.torn = IF HalfRead(teamActs[n]) THEN @ \cup {p} ELSE @]]
  /\ UNCHANGED <<teamInvites, teamName, teamMe, teamSeats, teamShown, teamReads, teamUpset>>

-----------------------------------------------------------------------------
(* Answers *)

(* A rename is written into the overview; every other change is followed by refresh(). *)
AfterAnswer(op) == IF op = "rename" THEN "end" ELSE "asking"

Answered(n) ==
  /\ teamActs[n].step = "ran"
  /\ teamActs' = [teamActs EXCEPT ![n].step = AfterAnswer(teamActs[n].op)]
  /\ teamShown' = IF teamActs[n].op = "rename" THEN [teamShown EXCEPT !.name = n] ELSE teamShown
  /\ UNCHANGED <<serverVars, teamReads, teamUpset>>

Listed(person, as) == IF person.as = as THEN person ELSE Nobody
Found(query) ==
  CASE query = "members" -> [p \in People |-> Listed(teamPeople[p], "member")]
    [] query = "invites" -> [p \in People |-> Listed(teamPeople[p], "invited")]
    [] query = "account" -> teamName

Noted(copy, query) ==
  CASE query = "members" -> [copy EXCEPT !.members = Found(query)]
    [] query = "invites" -> [copy EXCEPT !.invites = Found(query)]
    [] query = "account" -> [copy EXCEPT !.name = Found(query)]

(* listMembers: three queries at once, in no transaction.  An overview is numbered *)
(* by the first of them.                                                           *)
OverviewRead(n, query) ==
  LET act == teamActs[n]
      first == act.step = "asking"
  IN /\ act.step \in {"asking", "reading"} /\ query \in act.left
     /\ teamActs' = [teamActs EXCEPT ![n] =
                       [act EXCEPT !.step = "reading", !.copy = Noted(act.copy, query),
                                   !.left = @ \ {query},
                                   !.read = IF first THEN teamReads.last + 1 ELSE @]]
     /\ teamReads' = IF first THEN [teamReads EXCEPT !.last = @ + 1] ELSE teamReads
     /\ UNCHANGED <<serverVars, teamShown, teamUpset>>

(* Whatever is shown by then; the answer to a rename may come later and put it right. *)
Refreshed(n) ==
  LET act == teamActs[n] IN
  /\ act.step = "reading" /\ act.left = {}
  /\ teamShown' = act.copy
  /\ teamReads' = [teamReads EXCEPT !.shown = act.read]
  /\ teamActs' = [teamActs EXCEPT ![n] = Act(act.op, act.who, act.as, "end")]
  /\ teamUpset' = (\/ teamUpset \/ act.read < teamReads.shown
                   \/ act.renamed \in DOMAIN teamActs \ UnderWay)
  /\ UNCHANGED serverVars

RefreshFails(n) ==
  /\ teamActs[n].step \in {"asking", "reading"}
  /\ teamActs' = [teamActs EXCEPT ![n] = Act(@.op, @.who, @.as, "end")]
  /\ teamUpset' = TRUE
  /\ UNCHANGED <<serverVars, teamShown, teamReads>>

-----------------------------------------------------------------------------
Next == \/ \E p \in People : \/ RevokeInvite(p) \/ RemoveMember(p) \/ AcceptRead(p) \/ Joins(p)
                            \/ \E role \in Roles : SendInvite(p, role) \/ ChangeRole(p, role)
        \/ SaveAccountName
        \/ \E n \in DOMAIN teamActs : \/ Runs(n) \/ Fails(n) \/ Answered(n)
                                       \/ \E query \in Reads : OverviewRead(n, query)
                                       \/ Refreshed(n) \/ RefreshFails(n)

TypeOK == /\ teamPeople \in [People -> Person] /\ teamAccepts \in [People -> Person]
          /\ teamInvites \subseteq 1..MaxActs
          /\ teamName \in 0..MaxActs /\ teamMe \in Roles \cup {"OWNER"} /\ teamSeats \in TeamSeats
          /\ \/ teamShown = << >>
             \/ teamShown \in [members : [People -> Person], invites : [People -> Person],
                               name : 0..MaxActs, torn : SUBSET People]
          /\ Len(teamActs) <= MaxActs
          /\ \A n \in DOMAIN teamActs :
               /\ teamActs[n].op \in {"load", "invite", "revoke", "remove", "role", "rename"}
               /\ teamActs[n].step \in {"sent", "ran", "asking", "reading", "end"}
               /\ teamActs[n].as \in Person \cup [as : {"nobody"}, role : Roles, id : {0}]
               /\ teamActs[n].left \subseteq Reads
          /\ teamReads \in [last : 0..MaxActs, shown : 0..MaxActs]
          /\ teamUpset \in BOOLEAN

(* The page has the person as the rows do; or as invited, who joined since (with   *)
(* the role that was read by acceptInvite, whatever a resend made of it); or read  *)
(* one list before the person joined and the other after, and has a member of the  *)
(* team in neither list or in both.                                                *)
AsItIs(shown, p) == /\ shown.members[p] = Listed(teamPeople[p], "member")
                    /\ shown.invites[p] = Listed(teamPeople[p], "invited")
Joined(before, now) == before.as = "invited" /\ now.as = "member" /\ now.id = before.id
JoinedSince(shown, p) == shown.members[p] = Nobody /\ Joined(shown.invites[p], teamPeople[p])
JoinedMeanwhile(shown, p) == p \in shown.torn /\ teamPeople[p].as = "member"

(* When nothing is under way the page shows the team as it is, but for those       *)
(* who joined since or while it was read: whichever changes were tapped at once,   *)
(* and whichever the API refused.  Unless an answer or a reload was lost, a reload *)
(* overtook a later one, or brought the name from before a rename after its answer.*)
TeamTrue ==
  UnderWay = {} =>
    \/ teamUpset
    \/ /\ teamShown.name = teamName
       /\ \A p \in People : \/ AsItIs(teamShown, p)
                            \/ JoinedSince(teamShown, p) \/ JoinedMeanwhile(teamShown, p)
=============================================================================
