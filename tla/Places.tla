-------------------------------- MODULE Places --------------------------------
(***************************************************************************)
(* Locations, folders and spots: the API that counts before it creates     *)
(* (locations.service.ts), the plan that pages read once and cache for as  *)
(* long as the tab lives (tier.ts), and the pages that list one kind and   *)
(* hide the form at the limit (HomePage, LocationPage, FolderPage.tsx).    *)
(* The three kinds are treated alike: one is modelled.  Nothing of a kind  *)
(* is ever deleted, so the n-th row created is row n.                      *)
(*                                                                         *)
(* Covered: another device that adds, requests and answers that are lost,  *)
(* a plan that is changed, pages that are left and opened again.           *)
(***************************************************************************)
EXTENDS Naturals, Sequences

CONSTANTS Plans,    \* limits of the plans; 0: unlimited
          MaxRows   \* bound: rows

VARIABLES placesRows,   \* how many rows there are
          placesPlan,   \* the account's plan
          placesTier,   \* cached and inflight of tier.ts, which is all a mounted page knows
          placesShown,  \* the rows listed, in the order they were put there
          placesLoad,   \* the request for the list
          placesAdds,   \* a create request of the page, and one of another device
          placesOwn,    \* the rows this page was told it created
          placesRaced,  \* history: a request counted between another's count and create
          placesCrossed,\* history: the page's load overlapped one of its creates
          placesStale   \* history: the plan changed

placesVars == <<placesRows, placesPlan, placesTier, placesShown, placesLoad, placesAdds, placesOwn,
                placesRaced, placesCrossed, placesStale>>
apiVars == <<placesRows, placesPlan, placesStale, placesRaced>>

Who == {"page", "other"}
Idle == [step |-> "idle", row |-> 0]

Asked == [step |-> "sent", rows |-> 0]

Init == /\ placesRows = 0 /\ placesPlan \in Plans /\ placesTier = [step |-> "asked", plan |-> 0]
        /\ placesAdds = [w \in Who |-> Idle]
        /\ placesShown = << >> /\ placesLoad = Asked /\ placesOwn = {}
        /\ placesRaced = FALSE /\ placesCrossed = FALSE /\ placesStale = FALSE

(* From one of these pages to another that lists the same kind: its list starts *)
(* empty, and what was being created may still be.                             *)
Remount == /\ placesAdds["other"] = Idle
           /\ placesAdds' = [page |-> Idle, other |-> placesAdds["page"]]
           /\ placesShown' = << >> /\ placesLoad' = Asked /\ placesOwn' = {}
           /\ placesCrossed' = FALSE
           /\ UNCHANGED <<apiVars, placesTier>>

-----------------------------------------------------------------------------
(* The plan *)

(* Mutant: one more than the plan allows. *)
IsWithinLimitInclusive(plan, count) == plan = 0 \/ count <= plan

(* isWithinLocationLimit, isWithinFolderLimit, isWithinSpotLimit *)
IsWithinLimit(plan, count) == plan = 0 \/ count < plan

(* fetchTier.  A failure stays as well: inflight is then a rejected promise. *)
TierAnswered(step) == /\ placesTier.step = "asked"
                      /\ placesTier' = [step |-> step, plan |-> IF step = "known" THEN placesPlan ELSE 0]
                      /\ UNCHANGED <<apiVars, placesShown, placesLoad, placesAdds, placesOwn, placesCrossed>>

(* By an administrator, or by a sign-in to another account in the same tab. *)
PlanChanges(plan) == /\ plan # placesPlan /\ ~placesStale
                     /\ placesPlan' = plan /\ placesStale' = TRUE
                     /\ UNCHANGED <<placesRows, placesRaced, placesTier, placesShown, placesLoad,
                                    placesAdds, placesOwn, placesCrossed>>

(* atLocationLimit, atFolderLimit, atSpotLimit: there is no form then. *)
AtLimit == placesTier.step = "known" /\ ~IsWithinLimit(placesTier.plan, Len(placesShown))

-----------------------------------------------------------------------------
(* The list *)

ListRead == /\ placesLoad.step = "sent"
            /\ placesLoad' = [step |-> "read", rows |-> placesRows]
            /\ UNCHANGED <<apiVars, placesTier, placesShown, placesAdds, placesOwn, placesCrossed>>

Listed == /\ placesLoad.step = "read"
          /\ placesShown' = [n \in 1..placesLoad.rows |-> n]
          /\ placesLoad' = [placesLoad EXCEPT !.step = "done"]
          /\ UNCHANGED <<apiVars, placesTier, placesAdds, placesOwn, placesCrossed>>

ListFails == /\ placesLoad.step \in {"sent", "read"}
             /\ placesLoad' = [placesLoad EXCEPT !.step = "done"]
             /\ UNCHANGED <<apiVars, placesTier, placesShown, placesAdds, placesOwn, placesCrossed>>

-----------------------------------------------------------------------------
(* addLocation, addFolder, addSpot; the button is off meanwhile. *)

Add(w) == /\ placesAdds[w] = Idle
          /\ w = "page" => ~AtLimit
          /\ placesAdds' = [placesAdds EXCEPT ![w].step = "sent"]
          /\ placesCrossed' = (placesCrossed \/ (w = "page" /\ placesLoad.step # "done"))
          /\ UNCHANGED <<apiVars, placesTier, placesShown, placesLoad, placesOwn>>

(* create, createFolder, createSpot: the count, then the row. *)
CountRows(w) ==
  LET within == IsWithinLimit(placesPlan, placesRows) IN
  /\ placesAdds[w].step = "sent"
  /\ placesAdds' = [placesAdds EXCEPT ![w].step = IF within THEN "counted" ELSE "failed"]
  /\ placesRaced' = (placesRaced \/ \E v \in Who \ {w} : placesAdds[v].step = "counted")
  /\ UNCHANGED <<placesRows, placesPlan, placesStale, placesTier, placesShown, placesLoad, placesOwn,
                 placesCrossed>>

CreateRow(w) ==
  /\ placesAdds[w].step = "counted"
  /\ placesRows < MaxRows /\ placesRows' = placesRows + 1
  /\ placesAdds' = [placesAdds EXCEPT ![w] = [step |-> "created", row |-> placesRows + 1]]
  /\ UNCHANGED <<placesPlan, placesStale, placesRaced, placesTier, placesShown, placesLoad, placesOwn,
                 placesCrossed>>

AddLost(w) == /\ placesAdds[w].step \in {"sent", "created"}
              /\ placesAdds' = [placesAdds EXCEPT ![w].step = "failed"]
              /\ UNCHANGED <<apiVars, placesTier, placesShown, placesLoad, placesOwn, placesCrossed>>

(* Only the page that asked learns of the answer. *)
Answer(w, shown, own) ==
  /\ placesAdds' = [placesAdds EXCEPT ![w] = Idle]
  /\ placesShown' = IF w = "page" THEN shown ELSE placesShown
  /\ placesOwn' = IF w = "page" THEN own ELSE placesOwn
  /\ UNCHANGED <<apiVars, placesTier, placesLoad, placesCrossed>>

Added(w) == /\ placesAdds[w].step = "created"
            /\ Answer(w, Append(placesShown, placesAdds[w].row), placesOwn \cup {placesAdds[w].row})

AddFails(w) == placesAdds[w].step = "failed" /\ Answer(w, placesShown, placesOwn)

-----------------------------------------------------------------------------
Next == \/ Remount
        \/ \E step \in {"known", "failed"} : TierAnswered(step)
        \/ \E plan \in Plans : PlanChanges(plan)
        \/ ListRead \/ Listed \/ ListFails
        \/ \E w \in Who : \/ Add(w) \/ CountRows(w) \/ CreateRow(w)
                          \/ AddLost(w) \/ Added(w) \/ AddFails(w)

TypeOK == /\ placesRows \in 0..MaxRows /\ placesPlan \in Plans
          /\ placesTier \in [step : {"asked", "known", "failed"}, plan : Plans \cup {0}]
          /\ \A n \in DOMAIN placesShown : placesShown[n] \in 1..placesRows
          /\ placesLoad \in [step : {"sent", "read", "done"}, rows : 0..placesRows]
          /\ placesAdds \in [Who -> [step : {"idle", "sent", "counted", "created", "failed"},
                                     row : 0..placesRows]]
          /\ placesOwn \subseteq 1..placesRows
          /\ placesRaced \in BOOLEAN /\ placesCrossed \in BOOLEAN /\ placesStale \in BOOLEAN

(* The plan's limit is kept unless two requests overlapped: nothing but the    *)
(* count before it keeps a create within it.  And the page does not take the   *)
(* form away too early: every row it created is listed once, and where there   *)
(* is no form the API would refuse, unless a load overlapped a create, which   *)
(* then lists its row twice or not at all.  Both are said of a plan that stays *)
(* what it was: the cache is never asked again.                                *)
PlacesTrue ==
  /\ placesRaced \/ placesStale \/ placesPlan = 0 \/ placesRows <= placesPlan
  /\ \/ placesCrossed
     \/ /\ \A n, m \in DOMAIN placesShown : placesShown[n] = placesShown[m] => n = m
        /\ placesOwn \subseteq {placesShown[n] : n \in DOMAIN placesShown}
        /\ AtLimit => placesStale \/ ~IsWithinLimit(placesPlan, placesRows)
=============================================================================
