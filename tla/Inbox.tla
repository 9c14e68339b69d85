--------------------------------- MODULE Inbox ---------------------------------
(***************************************************************************)
(* The inbox (InboxPage.tsx): items are filed from their row, without a    *)
(* flag that keeps a second tap out, while the list is loaded again at     *)
(* every change of the outbox.  A location's folder bears its name; spots  *)
(* are picked like folders and are left out.                               *)
(*                                                                         *)
(* Covered: captures that reach the server meanwhile, requests and answers *)
(* that are lost.  Not covered: edits from other devices.                  *)
(***************************************************************************)
EXTENDS Naturals, Sequences

CONSTANTS InboxItems,  \* items of the account
          InboxLocs,   \* locations it may have
          InboxEmpty,  \* "": no location, no folder
          MaxReads,    \* bound: loads of the list in a visit
          MaxFilings   \* bound: taps on File in a visit

Draft == [loc : InboxLocs, folder : InboxLocs \cup {InboxEmpty}]
NoDraft == [loc |-> InboxEmpty, folder |-> InboxEmpty]

(* A row: not there yet; in the inbox, and its entry still in the outbox; in the *)
(* inbox; or filed at a place.                                                   *)
Row(status, place) == [status |-> status, place |-> place]

VARIABLES inboxRows,      \* the server's items: a status, or the place it is filed at
          inboxShown,     \* the state `items`
          inboxDrafts,    \* drafts
          inboxLocations, \* locations: {} until they are answered
          inboxContents,  \* locations whose folders are known
          inboxFetches,   \* locations whose folders are asked for
          inboxLoads,     \* listInbox requests of the second effect
          inboxFilings,   \* itemsApi.file requests, one per tap
          inboxError,     \* filingError
          inboxUpset      \* history: a load failed or crossed a filing, an answer was lost

inboxVars == <<inboxRows, inboxShown, inboxDrafts, inboxLocations, inboxContents, inboxFetches,
               inboxLoads, inboxFilings, inboxError, inboxUpset>>
listVars == <<inboxRows, inboxShown, inboxLoads, inboxFilings, inboxError, inboxUpset>>
placeVars == <<inboxDrafts, inboxLocations, inboxContents, inboxFetches>>

Init == /\ inboxRows = [i \in InboxItems |-> Row("absent", NoDraft)]
        /\ inboxShown = {} /\ inboxDrafts = [i \in InboxItems |-> NoDraft]
        /\ inboxLocations = {} /\ inboxContents = {} /\ inboxFetches = {}
        /\ inboxLoads = <<[step |-> "sent", preselects |-> InboxEmpty, items |-> {}]>>
        /\ inboxFilings = << >> /\ inboxError = FALSE /\ inboxUpset = FALSE

Unfiled == {i \in InboxItems : inboxRows[i].status \in {"new", "inbox"}}
FilingsUnderWay == {n \in DOMAIN inboxFilings : inboxFilings[n].step \notin {"done", "refused"}}
LoadsUnderWay == {n \in DOMAIN inboxLoads : inboxLoads[n].step # "done"}

(* The effect sends a load, which remembers the only location when there is one. *)
Reload(locs) ==
  /\ Len(inboxLoads) < MaxReads
  /\ inboxLoads' = Append(inboxLoads,
       [step |-> "sent", items |-> {},
        preselects |-> IF \E l \in InboxLocs : locs = {l} THEN CHOOSE l \in locs : TRUE
                       ELSE InboxEmpty])
  /\ inboxUpset' = (inboxUpset \/ FilingsUnderWay # {})

-----------------------------------------------------------------------------
(* Loads *)

LocationsAnswered(locs) ==
  /\ inboxLocations = {} /\ inboxLocations' = locs
  /\ Reload(locs)
  /\ UNCHANGED <<inboxRows, inboxShown, inboxFilings, inboxError, inboxDrafts, inboxContents,
                 inboxFetches>>

(* POST /items of a capture in the outbox *)
Delivered(i) == /\ inboxRows[i].status = "absent"
                /\ inboxRows' = [inboxRows EXCEPT ![i].status = "new"]
                /\ UNCHANGED <<inboxShown, inboxLoads, inboxFilings, inboxError, inboxUpset, placeVars>>

(* An entry changes its status, or leaves the outbox. *)
OutboxChanges(I) ==
  /\ \A i \in I : inboxRows[i].status = "new"
  /\ inboxRows' = [i \in InboxItems |-> IF i \in I THEN Row("inbox", NoDraft) ELSE inboxRows[i]]
  /\ Reload(inboxLocations)
  /\ UNCHANGED <<inboxShown, inboxFilings, inboxError, placeVars>>

InboxRead(n) ==
  /\ inboxLoads[n].step = "sent"
  /\ inboxLoads' = [inboxLoads EXCEPT ![n].step = "read",
                       ![n].items = Unfiled]
  /\ UNCHANGED <<inboxRows, inboxShown, inboxFilings, inboxError, inboxUpset, placeVars>>

(* loadLocationContents: not when they are known; asking again is harmless. *)
Fetch(l) == inboxFetches' = inboxFetches \cup ({l} \ (inboxContents \cup {InboxEmpty}))

(* An older answer than the one shown counts too. *)
InboxLoaded(n) ==
  LET load == inboxLoads[n] IN
  /\ load.step = "read"
  /\ inboxLoads' = [inboxLoads EXCEPT ![n] = [@ EXCEPT !.step = "done", !.items = {}]]
  /\ inboxShown' = load.items
  /\ inboxDrafts' = [i \in InboxItems |->
       IF load.preselects # InboxEmpty /\ i \in load.items /\ inboxDrafts[i] = NoDraft
         THEN [loc |-> load.preselects, folder |-> InboxEmpty] ELSE inboxDrafts[i]]
  /\ Fetch(load.preselects)
  /\ inboxUpset' = (inboxUpset \/ \E m \in DOMAIN inboxLoads : m > n /\ inboxLoads[m].step = "done")
  /\ UNCHANGED <<inboxRows, inboxFilings, inboxError, inboxLocations, inboxContents>>

InboxLoadFails(n) ==
  /\ inboxLoads[n].step # "done"
  /\ inboxLoads' = [inboxLoads EXCEPT ![n] = [@ EXCEPT !.step = "done", !.items = {}]]
  /\ inboxUpset' = TRUE
  /\ UNCHANGED <<inboxRows, inboxShown, inboxFilings, inboxError, placeVars>>

ContentsAnswered(l, ok) ==
  /\ l \in inboxFetches /\ inboxFetches' = inboxFetches \ {l}
  /\ inboxContents' = IF ok THEN inboxContents \cup {l} ELSE inboxContents
  /\ UNCHANGED <<listVars, inboxDrafts, inboxLocations>>

-----------------------------------------------------------------------------
(* The pickers of a row *)

PickLocation(i, l) ==
  /\ i \in inboxShown /\ l \in inboxLocations /\ l # inboxDrafts[i].loc
  /\ inboxDrafts' = [inboxDrafts EXCEPT ![i] = [loc |-> l, folder |-> InboxEmpty]]
  /\ Fetch(l)
  /\ UNCHANGED <<listVars, inboxLocations, inboxContents>>

PickFolder(i, f) ==
  /\ i \in inboxShown /\ inboxDrafts[i].loc \in inboxContents
  /\ f \in {inboxDrafts[i].loc, InboxEmpty} \ {inboxDrafts[i].folder}
  /\ inboxDrafts' = [inboxDrafts EXCEPT ![i].folder = f]
  /\ UNCHANGED <<listVars, inboxLocations, inboxContents, inboxFetches>>

-----------------------------------------------------------------------------
(* fileItem *)

File(i) ==
  /\ i \in inboxShown /\ inboxDrafts[i].loc # InboxEmpty
  /\ Len(inboxFilings) < MaxFilings
  /\ inboxFilings' = Append(inboxFilings, [item |-> i, place |-> inboxDrafts[i], step |-> "sent"])
  /\ inboxError' = FALSE
  /\ inboxUpset' = (inboxUpset \/ LoadsUnderWay # {}
                               \/ \E n \in FilingsUnderWay : inboxFilings[n].item = i)
  /\ UNCHANGED <<inboxRows, inboxShown, inboxLoads, placeVars>>

(* PATCH /items/:id/file *)
FileRuns(n) ==
  /\ inboxFilings[n].step = "sent"
  /\ inboxRows' = [inboxRows EXCEPT ![inboxFilings[n].item] = Row("filed", inboxFilings[n].place)]
  /\ inboxFilings' = [inboxFilings EXCEPT ![n].step = "answered"]
  /\ UNCHANGED <<inboxShown, inboxLoads, inboxError, inboxUpset, placeVars>>

FileLost(n) ==
  /\ inboxFilings[n].step \in {"sent", "answered"}
  /\ inboxFilings' = [inboxFilings EXCEPT ![n].step = "failed"]
  /\ inboxUpset' = (inboxUpset \/ inboxFilings[n].step = "answered")
  /\ UNCHANGED <<inboxRows, inboxShown, inboxLoads, inboxError, placeVars>>

Filed(n) ==
  LET i == inboxFilings[n].item IN
  /\ inboxFilings[n].step = "answered"
  /\ inboxFilings' = [inboxFilings EXCEPT ![n].step = "done"]
  /\ inboxShown' = inboxShown \ {i}
  /\ inboxDrafts' = [inboxDrafts EXCEPT ![i] = NoDraft]
  /\ UNCHANGED <<inboxRows, inboxLoads, inboxError, inboxUpset, inboxLocations, inboxContents,
                 inboxFetches>>

(* Mutant: the item leaves the list whatever the answer says. *)
RemovedAnyway(n) == inboxShown \ {inboxFilings[n].item}

ShownAfterFailure(n) == inboxShown

FileFails(n) ==
  /\ inboxFilings[n].step = "failed"
  /\ inboxFilings' = [inboxFilings EXCEPT ![n].step = "refused"]
  /\ inboxShown' = ShownAfterFailure(n)
  /\ inboxError' = TRUE
  /\ UNCHANGED <<inboxRows, inboxLoads, inboxUpset, placeVars>>

-----------------------------------------------------------------------------
Next == \/ \E locs \in {InboxLocs} \cup {{l} : l \in InboxLocs} : LocationsAnswered(locs)
        \/ \E I \in SUBSET InboxItems : OutboxChanges(I)
        \/ \E n \in DOMAIN inboxLoads : InboxRead(n) \/ InboxLoaded(n) \/ InboxLoadFails(n)
        \/ \E l \in InboxLocs, ok \in BOOLEAN : ContentsAnswered(l, ok)
        \/ \E i \in InboxItems : \/ Delivered(i) \/ File(i)
                                 \/ \E l \in InboxLocs : PickLocation(i, l)
                                 \/ \E f \in InboxLocs \cup {InboxEmpty} : PickFolder(i, f)
        \/ \E n \in DOMAIN inboxFilings : FileRuns(n) \/ FileLost(n) \/ Filed(n) \/ FileFails(n)

TypeOK == /\ inboxRows \in [InboxItems -> [status : {"absent", "new", "inbox", "filed"},
                                          place : Draft \cup {NoDraft}]]
          /\ inboxShown \subseteq InboxItems
          /\ inboxDrafts \in [InboxItems -> Draft \cup {NoDraft}]
          /\ inboxLocations \subseteq InboxLocs /\ inboxContents \subseteq InboxLocs
          /\ inboxFetches \subseteq InboxLocs
          /\ \A n \in DOMAIN inboxLoads :
               inboxLoads[n] \in [step : {"sent", "read", "done"}, items : SUBSET InboxItems,
                                  preselects : InboxLocs \cup {InboxEmpty}]
          /\ \A n \in DOMAIN inboxFilings :
               inboxFilings[n] \in [item : InboxItems, place : Draft,
                                    step : {"sent", "answered", "failed", "done", "refused"}]
          /\ inboxError \in BOOLEAN /\ inboxUpset \in BOOLEAN

(* When every request is answered, the list shows exactly the items that wait  *)
(* to be filed, each with a draft when the account has one location, and an    *)
(* item that was filed is where the last tap on its button said, in a folder   *)
(* of that location.  Unless a load crossed a filing or an older load, an      *)
(* answer was lost, or the button was tapped again before the answer: nothing  *)
(* keeps two filings of an item in order.                                      *)
InboxTrue ==
  FilingsUnderWay = {} /\ LoadsUnderWay = {} /\ (\A i \in InboxItems : inboxRows[i].status # "new")
    => \/ inboxUpset
       \/ /\ inboxShown = Unfiled
          /\ \A l \in InboxLocs, i \in inboxShown :
               inboxLocations = {l} => inboxDrafts[i].loc = l
          /\ \A i \in InboxItems \ Unfiled, n \in DOMAIN inboxFilings :
               /\ inboxFilings[n].item = i /\ inboxFilings[n].step = "done"
               /\ \A m \in DOMAIN inboxFilings : m > n => inboxFilings[m].item # i
               => /\ inboxRows[i].place = inboxFilings[n].place
                  /\ inboxRows[i].place.folder \in {inboxRows[i].place.loc, InboxEmpty}
=============================================================================
