----------------------------- MODULE AppListsProofs -----------------------------
(***************************************************************************)
(* Theorems about the pages of App that list rows and add to them: the     *)
(* home, location and folder pages against LocationsService, and the inbox *)
(* that files its items.                                                   *)
(***************************************************************************)
EXTENDS App, TLAPS

-----------------------------------------------------------------------------
(* Locations, folders and spots *)

Who == {"page", "other"}
Adding == {"idle", "sent", "counted", "created", "failed"}

PlacesTyped ==
  /\ placesRows \in 0..MaxRows /\ placesPlan \in Plans
  /\ placesTier \in [step : {"asked", "known", "failed"}, plan : Plans \cup {0}]
  /\ placesShown \in Seq(Nat) /\ \A n \in DOMAIN placesShown : placesShown[n] \in 1..placesRows
  /\ placesLoad \in [step : {"sent", "read", "done"}, rows : 0..placesRows]
  /\ placesAdds \in [Who -> [step : Adding, row : 0..placesRows]]
  /\ placesOwn \subseteq 1..placesRows
  /\ placesRaced \in BOOLEAN /\ placesCrossed \in BOOLEAN /\ placesStale \in BOOLEAN

(* At most one request stands between its count and its row, and there was room *)
(* for that row when it counted and still is.                                   *)
LimitInv ==
  /\ ~placesRaced =>
       \A w \in Who, v \in Who : placesAdds[w].step = "counted" /\ placesAdds[v].step = "counted" => v = w
  /\ ~placesRaced /\ ~placesStale /\ placesPlan # 0 =>
       /\ placesRows <= placesPlan
       /\ \A w \in Who : placesAdds[w].step = "counted" => placesRows < placesPlan

(* The page adds nothing before its list is there, and from then on its rows *)
(* are the list's and those it was told of.                                  *)
ListInv ==
  /\ ~placesStale /\ placesTier.step = "known" => placesTier.plan = placesPlan
  /\ ~placesCrossed =>
       LET add == placesAdds["page"] IN
       /\ placesLoad.step # "done" => add.step = "idle" /\ placesOwn = {} /\ placesShown = << >>
       /\ Len(placesShown) <= placesRows
       /\ \A n, m \in DOMAIN placesShown : placesShown[n] = placesShown[m] => n = m
       /\ \A r \in placesOwn : \E n \in DOMAIN placesShown : placesShown[n] = r
       /\ add.step = "created" =>
            /\ Len(placesShown) < placesRows
            /\ \A n \in DOMAIN placesShown : placesShown[n] # add.row

(* What a create answers with is a row there is. *)
CreatedInv == \A w \in Who : placesAdds[w].step = "created" => placesAdds[w].row \in 1..placesRows

PlacesInv == PlacesTyped /\ LimitInv /\ ListInv /\ CreatedInv

LEMMA PlacesInit == PlacesPage!Init => PlacesInv
<1> SUFFICES ASSUME PlacesPage!Init PROVE PlacesInv
  OBVIOUS
<1>1. /\ placesRows = 0 /\ placesPlan \in Plans /\ placesTier = [step |-> "asked", plan |-> 0]
      /\ placesAdds = [w \in Who |-> [step |-> "idle", row |-> 0]]
      /\ placesShown = << >> /\ placesLoad = [step |-> "sent", rows |-> 0] /\ placesOwn = {}
      /\ placesRaced = FALSE /\ placesCrossed = FALSE /\ placesStale = FALSE
  BY DEF PlacesPage!Init, PlacesPage!Asked, PlacesPage!Idle, PlacesPage!Who, Who
<1>2. PlacesTyped
  <2>1. 0 \in 0..MaxRows /\ 0 \in 0..0 /\ << >> \in Seq(Nat) /\ DOMAIN << >> = {}
    BY AppAssumption
  <2> QED BY <1>1, <2>1 DEF PlacesTyped, Adding
<1>3. LimitInv
  BY <1>1, AppAssumption DEF LimitInv
<1>4. ListInv
  <2>1. placesAdds["page"] = [step |-> "idle", row |-> 0]
    BY <1>1 DEF Who
  <2>2. Len(<< >>) <= 0 /\ DOMAIN << >> = {}
    OBVIOUS
  <2> QED BY <1>1, <2>1, <2>2 DEF ListInv
<1> QED BY <1>1, <1>2, <1>3, <1>4 DEF PlacesInv, CreatedInv

(* What is left is the plan and what the tab knows of it. *)
LEMMA PlacesElsewhere ==
  ASSUME PlacesInv, UNCHANGED <<placesRows, placesShown, placesLoad, placesAdds, placesOwn>>,
         placesTier' \in [step : {"asked", "known", "failed"}, plan : Plans \cup {0}],
         placesPlan' \in Plans, placesRaced' = placesRaced, placesCrossed' = placesCrossed,
         placesStale' \in BOOLEAN,
         ~placesStale' => /\ ~placesStale /\ placesPlan' = placesPlan
                          /\ placesTier'.step = "known" => placesTier'.plan = placesPlan'
  PROVE  PlacesInv'
<1>1. PlacesTyped'
  BY DEF PlacesInv, PlacesTyped
<1>2. LimitInv'
  BY DEF PlacesInv, LimitInv
<1>3. ListInv' /\ CreatedInv'
  BY DEF PlacesInv, ListInv, CreatedInv
<1> QED BY <1>1, <1>2, <1>3 DEF PlacesInv

(* A request that adds moves on, and neither takes room nor has a row. *)
LEMMA AddSteps ==
  ASSUME PlacesInv, NEW w \in Who, NEW step \in Adding, NEW row \in 0..placesRows,
         placesAdds' = [placesAdds EXCEPT ![w] = [step |-> step, row |-> row]],
         step # "counted" /\ step # "created",
         UNCHANGED <<placesRows, placesPlan, placesTier, placesShown, placesLoad, placesOwn, placesStale>>,
         placesRaced' \in BOOLEAN, placesRaced => placesRaced',
         placesCrossed' \in BOOLEAN, placesCrossed => placesCrossed',
         w = "page" /\ step # "idle" => placesCrossed' \/ placesLoad.step = "done"
  PROVE  PlacesInv'
<1>1. /\ placesAdds' \in [Who -> [step : Adding, row : 0..placesRows]]
      /\ placesAdds'[w].step = step /\ \A v \in Who : v # w => placesAdds'[v] = placesAdds[v]
  BY DEF PlacesInv, PlacesTyped
<1>2. PlacesTyped'
  BY <1>1 DEF PlacesInv, PlacesTyped
<1>3. LimitInv'
  BY <1>1 DEF PlacesInv, LimitInv
<1>4. "page" \in Who
  BY DEF Who
<1>5. ListInv'
  <2>1. CASE w = "page"
    BY <1>1, <2>1 DEF PlacesInv, ListInv
  <2>2. CASE w # "page"
    BY <1>1, <1>4, <2>2 DEF PlacesInv, ListInv
  <2> QED BY <2>1, <2>2
<1>6. CreatedInv'
  BY <1>1 DEF PlacesInv, CreatedInv
<1> QED BY <1>2, <1>3, <1>5, <1>6 DEF PlacesInv

LEMMA RequestSent ==
  ASSUME PlacesInv, NEW w \in Who, PlacesPage!Add(w) \/ PlacesPage!AddLost(w)
  PROVE  PlacesInv'
<1>1. placesAdds \in [Who -> [step : Adding, row : 0..placesRows]]
  BY DEF PlacesInv, PlacesTyped
<1>2. placesAdds[w].row \in 0..placesRows
  BY <1>1
<1>3. CASE PlacesPage!Add(w)
  <2>1. placesAdds' = [placesAdds EXCEPT ![w] = [step |-> "sent", row |-> placesAdds[w].row]]
    <3>1. placesAdds[w] \in [step : Adding, row : 0..placesRows]
      BY <1>1
    <3>2. [placesAdds[w] EXCEPT !.step = "sent"] = [step |-> "sent", row |-> placesAdds[w].row]
      BY <3>1
    <3>3. placesAdds' = [placesAdds EXCEPT ![w] = [placesAdds[w] EXCEPT !.step = "sent"]]
      BY <1>3 DEF PlacesPage!Add
    <3> QED BY <3>2, <3>3
  <2>2. /\ placesCrossed' = (placesCrossed \/ (w = "page" /\ placesLoad.step # "done"))
        /\ UNCHANGED <<placesRows, placesPlan, placesTier, placesShown, placesLoad, placesOwn, placesStale,
                       placesRaced>>
    BY <1>3 DEF PlacesPage!Add, PlacesPage!apiVars
  <2> QED BY <1>2, <2>1, <2>2, AddSteps DEF Adding, PlacesInv, PlacesTyped
<1>4. CASE PlacesPage!AddLost(w)
  <2>1. placesAdds' = [placesAdds EXCEPT ![w] = [step |-> "failed", row |-> placesAdds[w].row]]
    <3>1. placesAdds[w] \in [step : Adding, row : 0..placesRows]
      BY <1>1
    <3>2. [placesAdds[w] EXCEPT !.step = "failed"] = [step |-> "failed", row |-> placesAdds[w].row]
      BY <3>1
    <3>3. placesAdds' = [placesAdds EXCEPT ![w] = [placesAdds[w] EXCEPT !.step = "failed"]]
      BY <1>4 DEF PlacesPage!AddLost
    <3> QED BY <3>2, <3>3
  <2>2. /\ placesAdds[w].step \in {"sent", "created"}
        /\ UNCHANGED <<placesRows, placesPlan, placesTier, placesShown, placesLoad, placesOwn, placesStale,
                       placesRaced, placesCrossed>>
    BY <1>4 DEF PlacesPage!AddLost, PlacesPage!apiVars
  <2>3. w = "page" => placesCrossed \/ placesLoad.step = "done"
    BY <2>2 DEF PlacesInv, ListInv, PlacesTyped
  <2> QED BY <1>2, <2>1, <2>2, <2>3, AddSteps DEF Adding, PlacesInv, PlacesTyped
<1> QED BY <1>3, <1>4

(* Who counts while nobody else has, and finds room, keeps that room until its row. *)
LEMMA RowsCounted ==
  ASSUME PlacesInv, NEW w \in Who, PlacesPage!CountRows(w)
  PROVE  PlacesInv'
<1> DEFINE within == PlacesPage!IsWithinLimit(placesPlan, placesRows)
           row == placesAdds[w].row
<1>1. /\ placesAdds \in [Who -> [step : Adding, row : 0..placesRows]] /\ row \in 0..placesRows
      /\ placesAdds[w] \in [step : Adding, row : 0..placesRows]
      /\ placesRows \in Nat /\ placesPlan \in Nat
  BY AppAssumption DEF PlacesInv, PlacesTyped
<1>2. /\ placesAdds[w].step = "sent"
      /\ placesRaced' = (placesRaced \/ \E v \in Who \ {w} : placesAdds[v].step = "counted")
      /\ placesAdds' = [placesAdds EXCEPT ![w] = [placesAdds[w] EXCEPT
                                                    !.step = IF within THEN "counted" ELSE "failed"]]
      /\ UNCHANGED <<placesRows, placesPlan, placesStale, placesTier, placesShown, placesLoad, placesOwn,
                     placesCrossed>>
  BY DEF PlacesPage!CountRows, PlacesPage!Who, Who
<1>3. w = "page" => placesCrossed \/ placesLoad.step = "done"
  BY <1>2 DEF PlacesInv, ListInv, PlacesTyped
<1>4. CASE ~within
  <2>1. placesAdds' = [placesAdds EXCEPT ![w] = [step |-> "failed", row |-> row]]
    <3>1. [placesAdds[w] EXCEPT !.step = "failed"] = [step |-> "failed", row |-> row]
      BY <1>1
    <3> QED BY <1>2, <1>4, <3>1
  <2> QED BY <1>1, <1>2, <1>3, <2>1, AddSteps DEF Adding, PlacesInv, PlacesTyped
<1>5. CASE within
  <2> DEFINE new == [placesAdds[w] EXCEPT !.step = "counted"]
  <2>1. new \in [step : Adding, row : 0..placesRows] /\ new.step = "counted"
    BY <1>1 DEF Adding
  <2>2. placesAdds' = [placesAdds EXCEPT ![w] = new]
    BY <1>2, <1>5
  <2> HIDE DEF new
  <2>3. /\ placesAdds' \in [Who -> [step : Adding, row : 0..placesRows]] /\ placesAdds'[w].step = "counted"
        /\ \A v \in Who : v # w => placesAdds'[v] = placesAdds[v]
    BY <1>1, <2>1, <2>2
  <2>4. PlacesTyped'
    BY <1>2, <2>3 DEF PlacesInv, PlacesTyped
  <2>5. placesPlan # 0 => placesRows < placesPlan
    BY <1>5 DEF PlacesPage!IsWithinLimit
  <2>6. LimitInv'
    BY <1>1, <1>2, <2>3, <2>5 DEF PlacesInv, LimitInv
  <2>7. "page" \in Who
    BY DEF Who
  <2>8. ListInv'
    <3>1. CASE w = "page"
      BY <1>2, <1>3, <2>3, <3>1 DEF PlacesInv, ListInv
    <3>2. CASE w # "page"
      BY <1>2, <2>3, <2>7, <3>2 DEF PlacesInv, ListInv
    <3> QED BY <3>1, <3>2
  <2>9. CreatedInv'
    BY <1>2, <2>3 DEF PlacesInv, CreatedInv
  <2> QED BY <2>4, <2>6, <2>8, <2>9 DEF PlacesInv
<1> QED BY <1>4, <1>5

LEMMA RowCreated ==
  ASSUME PlacesInv, NEW w \in Who, PlacesPage!CreateRow(w)
  PROVE  PlacesInv'
<1> DEFINE new == [step |-> "created", row |-> placesRows + 1]
<1>1. /\ placesAdds \in [Who -> [step : Adding, row : 0..placesRows]]
      /\ placesRows \in Nat /\ placesPlan \in Nat
  BY AppAssumption DEF PlacesInv, PlacesTyped
<1>2. /\ placesAdds[w].step = "counted" /\ placesRows < MaxRows /\ placesRows' = placesRows + 1
      /\ placesAdds' = [placesAdds EXCEPT ![w] = new]
      /\ UNCHANGED <<placesPlan, placesStale, placesRaced, placesTier, placesShown, placesLoad, placesOwn,
                     placesCrossed>>
  BY DEF PlacesPage!CreateRow
<1>3. new \in [step : Adding, row : 0..placesRows'] /\ new.step = "created" /\ new.row = placesRows + 1
  BY <1>1, <1>2 DEF Adding
<1> HIDE DEF new
<1>4. 0..placesRows \subseteq 0..placesRows' /\ 1..placesRows \subseteq 1..placesRows'
  BY <1>1, <1>2
<1>5. /\ placesAdds' \in [Who -> [step : Adding, row : 0..placesRows']] /\ placesAdds'[w] = new
      /\ \A v \in Who : v # w => placesAdds'[v] = placesAdds[v]
  <2>1. placesAdds \in [Who -> [step : Adding, row : 0..placesRows']]
    BY <1>1, <1>4
  <2> QED BY <1>2, <1>3, <2>1
<1>6. PlacesTyped'
  <2>1. placesRows' \in 0..MaxRows
    BY <1>1, <1>2, AppAssumption
  <2>2. placesLoad' \in [step : {"sent", "read", "done"}, rows : 0..placesRows']
    BY <1>2, <1>4 DEF PlacesInv, PlacesTyped
  <2>3. placesShown' \in Seq(Nat) /\ \A n \in DOMAIN placesShown' : placesShown'[n] \in 1..placesRows'
    BY <1>2, <1>4 DEF PlacesInv, PlacesTyped
  <2> QED BY <1>2, <1>4, <1>5, <2>1, <2>2, <2>3 DEF PlacesInv, PlacesTyped
<1>7. LimitInv'
  <2>1. ~placesRaced => \A v \in Who : placesAdds'[v].step # "counted"
    BY <1>2, <1>3, <1>5 DEF PlacesInv, LimitInv
  <2>2. ~placesRaced /\ ~placesStale /\ placesPlan # 0 => placesRows' <= placesPlan
    BY <1>1, <1>2 DEF PlacesInv, LimitInv
  <2> QED BY <1>2, <2>1, <2>2 DEF LimitInv
<1>8. "page" \in Who
  BY DEF Who
<1>9. Len(placesShown) \in Nat
  BY DEF PlacesInv, PlacesTyped
<1>10. ListInv'
  <2> SUFFICES ASSUME ~placesCrossed
               PROVE  /\ placesLoad.step # "done" =>
                           placesAdds'["page"].step = "idle" /\ placesOwn = {} /\ placesShown = << >>
                      /\ Len(placesShown) <= placesRows'
                      /\ placesAdds'["page"].step = "created" =>
                           /\ Len(placesShown) < placesRows'
                           /\ \A n \in DOMAIN placesShown : placesShown[n] # placesAdds'["page"].row
    BY <1>2 DEF PlacesInv, ListInv
  <2>1. Len(placesShown) <= placesRows /\ Len(placesShown) < placesRows'
    BY <1>1, <1>2, <1>9 DEF PlacesInv, ListInv
  <2>2. CASE w = "page"
    <3>1. placesLoad.step = "done"
      BY <1>2, <2>2 DEF PlacesInv, ListInv
    <3>2. \A n \in DOMAIN placesShown : placesShown[n] # new.row
      BY <1>1, <1>2, <1>3 DEF PlacesInv, PlacesTyped
    <3> QED BY <1>1, <1>2, <1>5, <1>9, <2>1, <2>2, <3>1, <3>2
  <2>3. CASE w # "page"
    <3>1. placesAdds'["page"] = placesAdds["page"]
      BY <1>5, <1>8, <2>3
    <3> QED BY <1>1, <1>2, <1>4, <1>9, <2>1, <3>1 DEF PlacesInv, ListInv
  <2> QED BY <2>2, <2>3
<1>11. CreatedInv'
  <2>1. new.row \in 1..placesRows'
    BY <1>1, <1>2, <1>3
  <2> QED BY <1>4, <1>5, <2>1 DEF PlacesInv, CreatedInv
<1> QED BY <1>6, <1>7, <1>10, <1>11 DEF PlacesInv

LEMMA AddAnswered ==
  ASSUME PlacesInv, NEW w \in Who, PlacesPage!Added(w) \/ PlacesPage!AddFails(w)
  PROVE  PlacesInv'
<1> DEFINE idle == [step |-> "idle", row |-> 0]
           row == placesAdds[w].row
<1>1. /\ placesAdds \in [Who -> [step : Adding, row : 0..placesRows]] /\ row \in 0..placesRows
      /\ placesRows \in Nat /\ "page" \in Who
  BY AppAssumption DEF PlacesInv, PlacesTyped, Who
<1>2. /\ placesAdds' = [placesAdds EXCEPT ![w] = idle]
      /\ UNCHANGED <<placesRows, placesPlan, placesStale, placesRaced, placesTier, placesLoad, placesCrossed>>
  BY DEF PlacesPage!Added, PlacesPage!AddFails, PlacesPage!Answer, PlacesPage!Idle, PlacesPage!apiVars
<1>3. CASE placesShown' = placesShown /\ placesOwn' = placesOwn
  <2>1. 0 \in 0..placesRows /\ "idle" \in Adding
    BY <1>1 DEF Adding
  <2> QED BY <1>2, <1>3, <2>1, AddSteps DEF PlacesInv, PlacesTyped
<1>4. CASE w = "page" /\ PlacesPage!Added(w)
  <2>1. /\ placesAdds[w].step = "created" /\ placesShown' = Append(placesShown, row)
        /\ placesOwn' = placesOwn \cup {row}
    BY <1>4 DEF PlacesPage!Added, PlacesPage!Answer
  <2>2. placesShown \in Seq(Nat) /\ Len(placesShown) \in Nat /\ row \in Nat
    BY <1>1 DEF PlacesInv, PlacesTyped
  <2>3. /\ placesShown' \in Seq(Nat) /\ Len(placesShown') = Len(placesShown) + 1
        /\ placesShown'[Len(placesShown) + 1] = row
        /\ \A n \in DOMAIN placesShown : n \in DOMAIN placesShown' /\ placesShown'[n] = placesShown[n]
        /\ \A n \in DOMAIN placesShown' : n \in DOMAIN placesShown \/ n = Len(placesShown) + 1
        /\ Len(placesShown) + 1 \in DOMAIN placesShown'
    BY <2>1, <2>2
  <2>4. /\ placesAdds' \in [Who -> [step : Adding, row : 0..placesRows]] /\ placesAdds'[w].step = "idle"
        /\ \A v \in Who : v # w => placesAdds'[v] = placesAdds[v]
    <3>1. idle \in [step : Adding, row : 0..placesRows]
      BY <1>1 DEF Adding
    <3> QED BY <1>1, <1>2, <3>1
  <2>5. row \in 1..placesRows
    BY <2>1 DEF PlacesInv, CreatedInv
  <2>6. PlacesTyped'
    <3>1. \A n \in DOMAIN placesShown' : placesShown'[n] \in 1..placesRows'
      BY <1>2, <2>3, <2>5 DEF PlacesInv, PlacesTyped
    <3>2. placesOwn' \subseteq 1..placesRows'
      BY <1>2, <2>1, <2>5 DEF PlacesInv, PlacesTyped
    <3> QED BY <1>2, <2>3, <2>4, <3>1, <3>2 DEF PlacesInv, PlacesTyped
  <2>7. LimitInv'
    BY <1>2, <2>4 DEF PlacesInv, LimitInv
  <2>8. ListInv'
    <3> SUFFICES ASSUME ~placesCrossed
                 PROVE  /\ placesLoad.step = "done"
                        /\ Len(placesShown') <= placesRows
                        /\ \A n, m \in DOMAIN placesShown' : placesShown'[n] = placesShown'[m] => n = m
                        /\ \A r \in placesOwn' : \E n \in DOMAIN placesShown' : placesShown'[n] = r
      BY <1>2, <1>4, <2>4 DEF PlacesInv, ListInv
    <3>1. placesLoad.step = "done"
      BY <1>4, <2>1 DEF PlacesInv, ListInv
    <3>2. Len(placesShown) < placesRows /\ \A n \in DOMAIN placesShown : placesShown[n] # row
      BY <1>4, <2>1 DEF PlacesInv, ListInv
    <3>3. Len(placesShown') <= placesRows
      BY <1>1, <2>2, <2>3, <3>2
    <3>4. \A n, m \in DOMAIN placesShown' : placesShown'[n] = placesShown'[m] => n = m
      BY <2>3, <3>2 DEF PlacesInv, ListInv
    <3>5. \A r \in placesOwn' : \E n \in DOMAIN placesShown' : placesShown'[n] = r
      BY <2>1, <2>3 DEF PlacesInv, ListInv
    <3> QED BY <3>1, <3>3, <3>4, <3>5
  <2>9. CreatedInv'
    BY <1>2, <2>4 DEF PlacesInv, CreatedInv
  <2> QED BY <2>6, <2>7, <2>8, <2>9 DEF PlacesInv
<1> QED BY <1>3, <1>4 DEF PlacesPage!Added, PlacesPage!AddFails, PlacesPage!Answer

(* What the page was adding is another device's request now. *)
LEMMA PageRemounted ==
  ASSUME PlacesInv, PlacesPage!Remount
  PROVE  PlacesInv'
<1> DEFINE idle == [step |-> "idle", row |-> 0]
<1>1. /\ placesAdds \in [Who -> [step : Adding, row : 0..placesRows]]
      /\ placesRows \in Nat /\ "page" \in Who /\ "other" \in Who
  BY AppAssumption DEF PlacesInv, PlacesTyped, Who
<1>2. /\ placesAdds["other"] = idle /\ placesAdds' = [page |-> idle, other |-> placesAdds["page"]]
      /\ placesShown' = << >> /\ placesLoad' = [step |-> "sent", rows |-> 0] /\ placesOwn' = {}
      /\ placesCrossed' = FALSE
      /\ UNCHANGED <<placesRows, placesPlan, placesStale, placesRaced, placesTier>>
  BY DEF PlacesPage!Remount, PlacesPage!Idle, PlacesPage!Asked, PlacesPage!apiVars
<1>3. /\ placesAdds' \in [Who -> [step : Adding, row : 0..placesRows]]
      /\ placesAdds'["page"] = idle /\ placesAdds'["other"] = placesAdds["page"]
  <2>1. idle \in [step : Adding, row : 0..placesRows]
    BY <1>1 DEF Adding
  <2>2. placesAdds["page"] \in [step : Adding, row : 0..placesRows]
    BY <1>1
  <2>3. placesAdds' = [w \in Who |-> IF w = "page" THEN idle ELSE placesAdds["page"]]
    BY <1>2 DEF Who
  <2> QED BY <2>1, <2>2, <2>3 DEF Who
<1>4. PlacesTyped'
  <2>1. placesLoad' \in [step : {"sent", "read", "done"}, rows : 0..placesRows']
    BY <1>1, <1>2
  <2>2. placesShown' \in Seq(Nat) /\ DOMAIN placesShown' = {}
    BY <1>2
  <2> QED BY <1>2, <1>3, <2>1, <2>2 DEF PlacesInv, PlacesTyped
<1>5. idle.step = "idle"
  OBVIOUS
<1> HIDE DEF idle
<1>6. LimitInv'
  BY <1>1, <1>2, <1>3, <1>5 DEF PlacesInv, LimitInv, Who
<1>7. ListInv'
  <2>1. Len(placesShown') = 0 /\ DOMAIN placesShown' = {}
    BY <1>2
  <2> QED BY <1>1, <1>2, <1>3, <1>5, <2>1 DEF PlacesInv, ListInv
<1>8. CreatedInv'
  BY <1>1, <1>2, <1>3, <1>5 DEF PlacesInv, CreatedInv, Who
<1> QED BY <1>4, <1>6, <1>7, <1>8 DEF PlacesInv

LEMMA RowsListed ==
  ASSUME PlacesInv, PlacesPage!ListRead \/ PlacesPage!Listed \/ PlacesPage!ListFails
  PROVE  PlacesInv'
<1> DEFINE rows == placesLoad.rows
<1>1. /\ placesLoad \in [step : {"sent", "read", "done"}, rows : 0..placesRows] /\ rows \in 0..placesRows
      /\ placesRows \in Nat
  BY AppAssumption DEF PlacesInv, PlacesTyped
<1>2. UNCHANGED <<placesRows, placesPlan, placesStale, placesRaced, placesTier, placesAdds, placesOwn, placesCrossed>>
  BY DEF PlacesPage!ListRead, PlacesPage!Listed, PlacesPage!ListFails, PlacesPage!apiVars
<1>3. placesLoad' \in [step : {"sent", "read", "done"}, rows : 0..placesRows] /\ placesLoad.step # "done"
  <2>1. CASE PlacesPage!ListRead
    BY <1>1, <2>1 DEF PlacesPage!ListRead
  <2>2. CASE PlacesPage!Listed \/ PlacesPage!ListFails
    BY <1>1, <2>2 DEF PlacesPage!Listed, PlacesPage!ListFails
  <2> QED BY <2>1, <2>2
<1>4. /\ placesShown' \in Seq(Nat) /\ \A n \in DOMAIN placesShown' : placesShown'[n] \in 1..placesRows
      /\ ~placesCrossed => /\ Len(placesShown') <= placesRows
                           /\ \A n, m \in DOMAIN placesShown' : placesShown'[n] = placesShown'[m] => n = m
      /\ ~placesCrossed /\ placesLoad'.step # "done" => placesShown' = << >>
  <2>1. CASE PlacesPage!Listed
    <3>1. placesShown' = [n \in 1..rows |-> n] /\ placesLoad'.step = "done"
      BY <1>1, <2>1 DEF PlacesPage!Listed
    <3>2. [n \in 1..rows |-> n] \in Seq(Nat) /\ Len([n \in 1..rows |-> n]) = rows
      BY <1>1
    <3>3. DOMAIN placesShown' = 1..rows /\ Len(placesShown') = rows
      BY <3>1, <3>2
    <3> HIDE DEF rows
    <3> QED BY <1>1, <3>1, <3>2, <3>3
  <2>2. CASE placesShown' = placesShown
    BY <1>3, <2>2 DEF PlacesInv, PlacesTyped, ListInv
  <2> QED BY <2>1, <2>2 DEF PlacesPage!ListRead, PlacesPage!ListFails
<1>5. PlacesTyped'
  BY <1>2, <1>3, <1>4 DEF PlacesInv, PlacesTyped
<1>6. LimitInv' /\ CreatedInv'
  BY <1>2 DEF PlacesInv, LimitInv, CreatedInv
<1>7. ListInv'
  BY <1>2, <1>3, <1>4 DEF PlacesInv, ListInv
<1> QED BY <1>5, <1>6, <1>7 DEF PlacesInv

LEMMA PlacesNext == PlacesInv /\ [PlacesPage!Next]_placesVars => PlacesInv'
<1> SUFFICES ASSUME PlacesInv, [PlacesPage!Next]_placesVars PROVE PlacesInv'
  OBVIOUS
<1>1. placesTier \in [step : {"asked", "known", "failed"}, plan : Plans \cup {0}] /\ placesPlan \in Plans
      /\ placesStale \in BOOLEAN
  BY DEF PlacesInv, PlacesTyped
<1>2. ~placesStale /\ placesTier.step = "known" => placesTier.plan = placesPlan
  BY DEF PlacesInv, ListInv
<1>3. ASSUME NEW step \in {"known", "failed"}, PlacesPage!TierAnswered(step) PROVE PlacesInv'
  <2> DEFINE tier == [step |-> step, plan |-> IF step = "known" THEN placesPlan ELSE 0]
  <2>1. /\ placesTier' = tier /\ tier.step = step /\ (step = "known" => tier.plan = placesPlan)
        /\ tier \in [step : {"asked", "known", "failed"}, plan : Plans \cup {0}]
    BY <1>1, <1>3 DEF PlacesPage!TierAnswered
  <2> HIDE DEF tier
  <2>2. UNCHANGED <<placesRows, placesPlan, placesStale, placesRaced, placesShown, placesLoad, placesAdds,
                    placesOwn, placesCrossed>>
    BY <1>3 DEF PlacesPage!TierAnswered, PlacesPage!apiVars
  <2> QED BY <1>1, <2>1, <2>2, PlacesElsewhere
<1>4. ASSUME NEW plan \in Plans, PlacesPage!PlanChanges(plan) PROVE PlacesInv'
  BY <1>1, <1>4, PlacesElsewhere DEF PlacesPage!PlanChanges
<1>5. CASE UNCHANGED placesVars
  BY <1>1, <1>2, <1>5, PlacesElsewhere DEF placesVars
<1> QED BY <1>3, <1>4, <1>5, PageRemounted, RowsListed, RequestSent, RowsCounted, RowCreated, AddAnswered
        DEF PlacesPage!Next, PlacesPage!Who, Who

LEMMA PlacesOnly == [Next]_vars => [PlacesPage!Next]_placesVars
BY DEF Next, vars, GateOpens, GateRedirects, ItemStep, NoteStep, SearchStep, InboxStep, PlacesStep, TeamStep

LEMMA PlacesAlways == Spec => []PlacesInv
<1>1. Init => PlacesInv
  BY PlacesInit DEF Init
<1>2. PlacesInv /\ [Next]_vars => PlacesInv'
  BY PlacesNext, PlacesOnly
<1> QED BY <1>1, <1>2, PTL DEF Spec

(* The plan's limit is kept unless two requests overlapped or the plan changed; *)
(* and unless a load overlapped a create, every row the page created is listed  *)
(* once, and where it shows no form the API would refuse.                       *)
THEOREM PlansAreKept == Spec => []PlacesTrue
<1>1. PlacesInv => PlacesTrue
  <2> SUFFICES ASSUME PlacesInv PROVE PlacesPage!PlacesTrue
    BY DEF PlacesTrue
  <2>1. placesRows \in Nat /\ placesPlan \in Nat /\ Len(placesShown) \in Nat
    BY AppAssumption DEF PlacesInv, PlacesTyped
  <2>2. placesRaced \/ placesStale \/ placesPlan = 0 \/ placesRows <= placesPlan
    BY DEF PlacesInv, LimitInv
  <2>3. ASSUME ~placesCrossed, ~placesStale, PlacesPage!AtLimit
        PROVE  ~PlacesPage!IsWithinLimit(placesPlan, placesRows)
    <3>1. placesTier.plan = placesPlan /\ placesPlan # 0 /\ ~(Len(placesShown) < placesPlan)
      BY <2>3 DEF PlacesPage!AtLimit, PlacesPage!IsWithinLimit, PlacesInv, ListInv
    <3>2. Len(placesShown) <= placesRows
      BY <2>3 DEF PlacesInv, ListInv
    <3> QED BY <2>1, <3>1, <3>2 DEF PlacesPage!IsWithinLimit
  <2>4. ~placesCrossed =>
          /\ \A n, m \in DOMAIN placesShown : placesShown[n] = placesShown[m] => n = m
          /\ placesOwn \subseteq {placesShown[n] : n \in DOMAIN placesShown}
    BY DEF PlacesInv, ListInv
  <2> QED BY <2>2, <2>3, <2>4 DEF PlacesPage!PlacesTrue
<1> QED BY <1>1, PlacesAlways, PTL

-----------------------------------------------------------------------------
(* The inbox *)

Draft == [loc : Locs, folder : Locs \cup {None}]
NoDraft == [loc |-> None, folder |-> None]
InboxLoad == [step : {"sent", "read", "done"}, items : SUBSET InboxItems, preselects : Locs \cup {None}]
InboxFiling == [item : InboxItems, place : Draft, step : {"sent", "answered", "failed", "done", "refused"}]

InboxTyped ==
  /\ inboxRows \in [InboxItems -> [status : {"absent", "new", "inbox", "filed"}, place : Draft \cup {NoDraft}]]
  /\ inboxShown \subseteq InboxItems /\ inboxDrafts \in [InboxItems -> Draft \cup {NoDraft}]
  /\ inboxLocations \subseteq Locs /\ inboxContents \subseteq Locs /\ inboxFetches \subseteq Locs
  /\ inboxLoads \in Seq(InboxLoad) /\ inboxLoads # << >> /\ inboxFilings \in Seq(InboxFiling)
  /\ inboxError \in BOOLEAN /\ inboxUpset \in BOOLEAN

(* A draft is of a location there is, in a folder of it or none; so is a filing, *)
(* and what ran is filed.                                                        *)
DraftsInv ==
  /\ \A i \in InboxItems :
       /\ inboxDrafts[i] # NoDraft => inboxDrafts[i].loc \in inboxLocations
       /\ inboxDrafts[i].folder \in {inboxDrafts[i].loc, None}
  /\ \A n \in DOMAIN inboxLoads :
       inboxLoads[n].preselects # None => inboxLocations = {inboxLoads[n].preselects}
  /\ \A l \in Locs : inboxLocations = {l} => inboxLoads[Len(inboxLoads)].preselects = l
  /\ \A n \in DOMAIN inboxFilings :
       /\ inboxFilings[n].place.folder \in {inboxFilings[n].place.loc, None}
       /\ inboxFilings[n].step \in {"answered", "done"} => inboxRows[inboxFilings[n].item].status = "filed"

Waiting == {i \in InboxItems : inboxRows[i].status = "inbox"}
Leaving == {i \in InboxItems : \E n \in DOMAIN inboxFilings :
              inboxFilings[n].item = i /\ inboxFilings[n].step = "answered"}

(* Unless something crossed, no load is under way beside a filing; the last load, *)
(* once read, holds what waits and nothing that is filed; once it is done the     *)
(* list does, but for the items whose filing was answered just now.               *)
RowsInv ==
  LET last == inboxLoads[Len(inboxLoads)] IN
  ~inboxUpset =>
    /\ InboxPage!FilingsUnderWay = {} \/ InboxPage!LoadsUnderWay = {}
    /\ last.step = "read" => Waiting \subseteq last.items /\ last.items \subseteq InboxPage!Unfiled
    /\ last.step = "done" =>
         /\ Waiting \subseteq inboxShown /\ inboxShown \subseteq InboxPage!Unfiled \cup Leaving
         /\ \A l \in Locs, i \in inboxShown : inboxLocations = {l} => inboxDrafts[i].loc = l

(* Unless something crossed, a filing was over before the next one of its item, *)
(* and the item is where the last one that ran put it.                          *)
OrderInv ==
  ~inboxUpset =>
    \A n \in DOMAIN inboxFilings :
      IF \E m \in DOMAIN inboxFilings : m > n /\ inboxFilings[m].item = inboxFilings[n].item
        THEN inboxFilings[n].step \in {"done", "refused"}
        ELSE inboxFilings[n].step \in {"answered", "done"} =>
               inboxRows[inboxFilings[n].item].place = inboxFilings[n].place

InboxInv == InboxTyped /\ DraftsInv /\ RowsInv /\ OrderInv

LEMMA InboxInit == InboxPage!Init => InboxInv
<1> SUFFICES ASSUME InboxPage!Init PROVE InboxInv
  OBVIOUS
<1> DEFINE load == [step |-> "sent", preselects |-> None, items |-> {}]
<1>1. /\ inboxRows = [i \in InboxItems |-> [status |-> "absent", place |-> NoDraft]]
      /\ inboxShown = {} /\ inboxDrafts = [i \in InboxItems |-> NoDraft]
      /\ inboxLocations = {} /\ inboxContents = {} /\ inboxFetches = {}
      /\ inboxLoads = <<load>> /\ inboxFilings = << >> /\ inboxError = FALSE /\ inboxUpset = FALSE
  BY DEF InboxPage!Init, InboxPage!Row, InboxPage!NoDraft, NoDraft
<1>2. load \in InboxLoad /\ load.step = "sent" /\ load.preselects = None
  BY DEF InboxLoad
<1> HIDE DEF load
<1>3. /\ inboxLoads \in Seq(InboxLoad) /\ inboxLoads # << >> /\ Len(inboxLoads) = 1 /\ DOMAIN inboxLoads = {1}
      /\ inboxLoads[1] = load /\ inboxFilings \in Seq(InboxFiling) /\ DOMAIN inboxFilings = {}
  BY <1>1, <1>2
<1>4. InboxTyped
  BY <1>1, <1>3 DEF InboxTyped
<1>5. DraftsInv
  BY <1>1, <1>2, <1>3 DEF DraftsInv, NoDraft
<1>6. RowsInv /\ OrderInv
  BY <1>2, <1>3 DEF RowsInv, OrderInv, InboxPage!FilingsUnderWay
<1> QED BY <1>4, <1>5, <1>6 DEF InboxInv

LEMMA LastLoad ==
  ASSUME InboxTyped
  PROVE  /\ Len(inboxLoads) \in Nat \ {0} /\ DOMAIN inboxLoads = 1..Len(inboxLoads)
         /\ Len(inboxLoads) \in DOMAIN inboxLoads /\ inboxLoads[Len(inboxLoads)] \in InboxLoad
<1>1. inboxLoads \in Seq(InboxLoad) /\ inboxLoads # << >>
  BY DEF InboxTyped
<1> QED BY <1>1

LEMMA LoadSent ==
  ASSUME InboxTyped, NEW locs \in SUBSET Locs, InboxPage!Reload(locs)
  PROVE  LET new == inboxLoads'[Len(inboxLoads')] IN
         /\ inboxLoads' \in Seq(InboxLoad) /\ inboxLoads' # << >> /\ Len(inboxLoads') = Len(inboxLoads) + 1
         /\ new.step = "sent" /\ (new.preselects # None => locs = {new.preselects})
         /\ \A l \in Locs : locs = {l} => new.preselects = l
         /\ \A n \in DOMAIN inboxLoads : n \in DOMAIN inboxLoads' /\ inboxLoads'[n] = inboxLoads[n]
         /\ \A n \in DOMAIN inboxLoads' : n \in DOMAIN inboxLoads \/ n = Len(inboxLoads')
         /\ inboxUpset' = (inboxUpset \/ InboxPage!FilingsUnderWay # {})
<1> DEFINE only == IF \E l \in Locs : locs = {l} THEN CHOOSE l \in locs : TRUE ELSE None
           load == [step |-> "sent", items |-> {}, preselects |-> only]
<1>1. inboxLoads' = Append(inboxLoads, load) /\ inboxUpset' = (inboxUpset \/ InboxPage!FilingsUnderWay # {})
  BY DEF InboxPage!Reload
<1>2. (\A l \in Locs : locs = {l} => only = l) /\ (only # None => locs = {only}) /\ only \in Locs \cup {None}
  OBVIOUS
<1>3. load \in InboxLoad /\ load.step = "sent" /\ load.preselects = only
  BY <1>2 DEF InboxLoad
<1> HIDE DEF load, only
<1>4. inboxLoads \in Seq(InboxLoad) /\ Len(inboxLoads) \in Nat
  BY DEF InboxTyped
<1>5. /\ inboxLoads' \in Seq(InboxLoad) /\ inboxLoads' # << >> /\ Len(inboxLoads') = Len(inboxLoads) + 1
      /\ inboxLoads'[Len(inboxLoads')] = load
      /\ \A n \in DOMAIN inboxLoads : n \in DOMAIN inboxLoads' /\ inboxLoads'[n] = inboxLoads[n]
      /\ \A n \in DOMAIN inboxLoads' : n \in DOMAIN inboxLoads \/ n = Len(inboxLoads')
  BY <1>1, <1>3, <1>4
<1> QED BY <1>1, <1>2, <1>3, <1>5

LEMMA LoadMoved ==
  ASSUME InboxTyped, NEW n \in DOMAIN inboxLoads, NEW load \in InboxLoad,
         inboxLoads' = [inboxLoads EXCEPT ![n] = load]
  PROVE  /\ inboxLoads' \in Seq(InboxLoad) /\ inboxLoads' # << >> /\ Len(inboxLoads') = Len(inboxLoads)
         /\ DOMAIN inboxLoads' = DOMAIN inboxLoads /\ inboxLoads'[n] = load
         /\ \A m \in DOMAIN inboxLoads : m # n => inboxLoads'[m] = inboxLoads[m]
<1>1. inboxLoads \in Seq(InboxLoad) /\ inboxLoads # << >>
  BY DEF InboxTyped
<1> QED BY <1>1

LEMMA FilingMoved ==
  ASSUME InboxTyped, NEW n \in DOMAIN inboxFilings,
         NEW step \in {"sent", "answered", "failed", "done", "refused"},
         inboxFilings' = [inboxFilings EXCEPT ![n].step = step]
  PROVE  /\ inboxFilings' \in Seq(InboxFiling) /\ DOMAIN inboxFilings' = DOMAIN inboxFilings
         /\ inboxFilings'[n].item = inboxFilings[n].item /\ inboxFilings'[n].place = inboxFilings[n].place
         /\ inboxFilings'[n].step = step /\ inboxFilings[n] \in InboxFiling
         /\ \A m \in DOMAIN inboxFilings : m # n => inboxFilings'[m] = inboxFilings[m]
<1>1. inboxFilings \in Seq(InboxFiling) /\ inboxFilings[n] \in InboxFiling
  BY DEF InboxTyped
<1> DEFINE filing == [inboxFilings[n] EXCEPT !.step = step]
<1>2. /\ filing \in InboxFiling /\ filing.item = inboxFilings[n].item /\ filing.step = step
      /\ filing.place = inboxFilings[n].place
  BY <1>1 DEF InboxFiling
<1>3. inboxFilings' = [inboxFilings EXCEPT ![n] = filing]
  OBVIOUS
<1> HIDE DEF filing
<1> QED BY <1>1, <1>2, <1>3

(* Only the drafts and what is known of the locations change. *)
LEMMA RowPicked ==
  ASSUME InboxInv,
         \/ \E i \in InboxItems, l \in Locs : InboxPage!PickLocation(i, l)
         \/ \E i \in InboxItems, f \in Locs \cup {None} : InboxPage!PickFolder(i, f)
         \/ \E l \in Locs, ok \in BOOLEAN : InboxPage!ContentsAnswered(l, ok)
  PROVE  InboxInv'
<1>1. UNCHANGED <<inboxRows, inboxShown, inboxLoads, inboxFilings, inboxError, inboxUpset, inboxLocations>>
  BY DEF InboxPage!PickLocation, InboxPage!PickFolder, InboxPage!ContentsAnswered, InboxPage!listVars
<1>2. inboxContents' \subseteq Locs /\ inboxFetches' \subseteq Locs
  BY DEF InboxInv, InboxTyped, InboxPage!PickLocation, InboxPage!PickFolder, InboxPage!ContentsAnswered,
         InboxPage!Fetch
<1>3. inboxDrafts \in [InboxItems -> Draft \cup {NoDraft}] /\ inboxLocations \subseteq Locs
  BY DEF InboxInv, InboxTyped
<1>4. ASSUME inboxDrafts' \in [InboxItems -> Draft \cup {NoDraft}],
             \A j \in InboxItems :
               /\ inboxDrafts'[j] # NoDraft => inboxDrafts'[j].loc \in inboxLocations
               /\ inboxDrafts'[j].folder \in {inboxDrafts'[j].loc, None},
             \A j \in InboxItems, l \in Locs :
               inboxLocations = {l} => inboxDrafts'[j].loc \in {inboxDrafts[j].loc, l}
      PROVE  InboxInv'
  <2>1. InboxTyped'
    BY <1>1, <1>2, <1>4 DEF InboxInv, InboxTyped
  <2>2. DraftsInv'
    BY <1>1, <1>4 DEF InboxInv, DraftsInv
  <2>3. RowsInv'
    <3>1. \A l \in Locs, j \in inboxShown :
            inboxLocations = {l} /\ inboxDrafts[j].loc = l => inboxDrafts'[j].loc = l
      BY <1>4 DEF InboxInv, InboxTyped
    <3> QED BY <1>1, <3>1 DEF InboxInv, RowsInv, Waiting, Leaving, InboxPage!Unfiled, InboxPage!FilingsUnderWay,
                InboxPage!LoadsUnderWay
  <2>4. OrderInv'
    BY <1>1 DEF InboxInv, OrderInv
  <2> QED BY <2>1, <2>2, <2>3, <2>4 DEF InboxInv
<1>5. ASSUME NEW i \in InboxItems, NEW draft \in Draft \cup {NoDraft}, inboxDrafts' = [inboxDrafts EXCEPT ![i] = draft],
             draft.loc \in inboxLocations, draft.folder \in {draft.loc, None}
      PROVE  InboxInv'
  <2>1. inboxDrafts'[i] = draft /\ \A j \in InboxItems : j # i => inboxDrafts'[j] = inboxDrafts[j]
    BY <1>3, <1>5
  <2>2. inboxDrafts' \in [InboxItems -> Draft \cup {NoDraft}]
    BY <1>3, <1>5
  <2>3. \A j \in InboxItems :
          /\ inboxDrafts'[j] # NoDraft => inboxDrafts'[j].loc \in inboxLocations
          /\ inboxDrafts'[j].folder \in {inboxDrafts'[j].loc, None}
    BY <1>5, <2>1 DEF InboxInv, DraftsInv
  <2>4. \A j \in InboxItems, l \in Locs :
          inboxLocations = {l} => inboxDrafts'[j].loc \in {inboxDrafts[j].loc, l}
    BY <1>5, <2>1
  <2> QED BY <1>4, <2>2, <2>3, <2>4
<1>6. ASSUME NEW i \in InboxItems, NEW l \in Locs, InboxPage!PickLocation(i, l) PROVE InboxInv'
  <2> DEFINE draft == [loc |-> l, folder |-> None]
  <2>1. inboxDrafts' = [inboxDrafts EXCEPT ![i] = draft] /\ l \in inboxLocations
    BY <1>6 DEF InboxPage!PickLocation
  <2>2. draft \in Draft \cup {NoDraft} /\ draft.loc = l /\ draft.folder = None
    BY DEF Draft
  <2> HIDE DEF draft
  <2> QED BY <1>5, <2>1, <2>2
<1>7. ASSUME NEW i \in InboxItems, NEW f \in Locs \cup {None}, InboxPage!PickFolder(i, f) PROVE InboxInv'
  <2> DEFINE draft == [inboxDrafts[i] EXCEPT !.folder = f]
  <2>1. /\ inboxDrafts' = [inboxDrafts EXCEPT ![i].folder = f] /\ inboxDrafts[i].loc \in inboxContents
        /\ f \in {inboxDrafts[i].loc, None}
    BY <1>7 DEF InboxPage!PickFolder
  <2>2. inboxDrafts' = [inboxDrafts EXCEPT ![i] = draft]
    BY <2>1
  <2>3. inboxDrafts[i] \in Draft /\ inboxDrafts[i].loc \in inboxLocations
    <3>1. inboxDrafts[i].loc \in Locs /\ inboxDrafts[i] \in Draft \cup {NoDraft}
      BY <1>3, <2>1 DEF InboxInv, InboxTyped
    <3>2. inboxDrafts[i] # NoDraft
      BY <3>1, AppAssumption DEF NoDraft
    <3> QED BY <3>1, <3>2 DEF InboxInv, DraftsInv
  <2>4. draft \in Draft \cup {NoDraft} /\ draft.loc = inboxDrafts[i].loc /\ draft.folder = f
    BY <2>3 DEF Draft
  <2> HIDE DEF draft
  <2> QED BY <1>5, <2>1, <2>2, <2>3, <2>4
<1>8. CASE inboxDrafts' = inboxDrafts
  BY <1>3, <1>4, <1>8 DEF InboxInv, DraftsInv
<1> QED BY <1>6, <1>7, <1>8 DEF InboxPage!ContentsAnswered

(* A load is sent for a change of the outbox or for the locations, and is the *)
(* last from then on; rows that were new may be in the inbox.                 *)
LEMMA LoadFollows ==
  ASSUME InboxInv, NEW locs \in SUBSET Locs, InboxPage!Reload(locs),
         inboxLocations' = locs, inboxLocations = {} \/ inboxLocations = locs,
         UNCHANGED <<inboxShown, inboxDrafts, inboxContents, inboxFetches, inboxFilings, inboxError>>,
         inboxRows' \in [InboxItems -> [status : {"absent", "new", "inbox", "filed"}, place : Draft \cup {NoDraft}]],
         \A i \in InboxItems : inboxRows'[i] = inboxRows[i] \/ inboxRows[i].status = "new"
  PROVE  InboxInv'
<1> DEFINE new == inboxLoads'[Len(inboxLoads')]
<1>1. /\ inboxLoads' \in Seq(InboxLoad) /\ inboxLoads' # << >> /\ Len(inboxLoads') = Len(inboxLoads) + 1
      /\ new.step = "sent" /\ (new.preselects # None => locs = {new.preselects})
      /\ \A l \in Locs : locs = {l} => new.preselects = l
      /\ \A n \in DOMAIN inboxLoads : n \in DOMAIN inboxLoads' /\ inboxLoads'[n] = inboxLoads[n]
      /\ \A n \in DOMAIN inboxLoads' : n \in DOMAIN inboxLoads \/ n = Len(inboxLoads')
      /\ inboxUpset' = (inboxUpset \/ InboxPage!FilingsUnderWay # {})
  BY LoadSent DEF InboxInv
<1>2. InboxTyped'
  BY <1>1 DEF InboxInv, InboxTyped
<1>3. \A n \in DOMAIN inboxFilings : inboxFilings[n].item \in InboxItems
  <2> SUFFICES ASSUME NEW n \in DOMAIN inboxFilings PROVE inboxFilings[n].item \in InboxItems
    OBVIOUS
  <2>1. inboxFilings[n] \in InboxFiling
    BY DEF InboxInv, InboxTyped
  <2> QED BY <2>1 DEF InboxFiling
<1>4. DraftsInv'
  <2>1. \A i \in InboxItems :
          /\ inboxDrafts[i] # NoDraft => inboxDrafts[i].loc \in locs
          /\ inboxDrafts[i].folder \in {inboxDrafts[i].loc, None}
    BY DEF InboxInv, DraftsInv
  <2>2. ASSUME NEW n \in DOMAIN inboxLoads', inboxLoads'[n].preselects # None
        PROVE  locs = {inboxLoads'[n].preselects}
    <3>1. CASE n \in DOMAIN inboxLoads
      <4>1. inboxLoads'[n] = inboxLoads[n]
        BY <1>1, <3>1
      <4>2. inboxLocations = {inboxLoads[n].preselects}
        BY <2>2, <3>1, <4>1 DEF InboxInv, DraftsInv
      <4> QED BY <4>1, <4>2
    <3> QED BY <1>1, <2>2, <3>1
  <2>3. \A n \in DOMAIN inboxFilings :
          /\ inboxFilings[n].place.folder \in {inboxFilings[n].place.loc, None}
          /\ inboxFilings[n].step \in {"answered", "done"} => inboxRows'[inboxFilings[n].item].status = "filed"
    BY <1>3 DEF InboxInv, DraftsInv
  <2> QED BY <1>1, <2>1, <2>2, <2>3 DEF DraftsInv
<1>5. RowsInv'
  BY <1>1 DEF RowsInv, InboxPage!FilingsUnderWay
<1>6. OrderInv'
  <2>1. \A n \in DOMAIN inboxFilings : inboxFilings[n].step \in {"answered", "done"} =>
          inboxRows'[inboxFilings[n].item] = inboxRows[inboxFilings[n].item]
    BY <1>3 DEF InboxInv, DraftsInv
  <2> QED BY <1>1, <2>1 DEF InboxInv, OrderInv
<1> QED BY <1>2, <1>4, <1>5, <1>6 DEF InboxInv

LEMMA ListFollows ==
  ASSUME InboxInv,
         \/ \E locs \in {Locs} \cup {{l} : l \in Locs} : InboxPage!LocationsAnswered(locs)
         \/ \E I \in SUBSET InboxItems : InboxPage!OutboxChanges(I)
  PROVE  InboxInv'
<1>1. inboxRows \in [InboxItems -> [status : {"absent", "new", "inbox", "filed"}, place : Draft \cup {NoDraft}]]
  BY DEF InboxInv, InboxTyped
<1>2. ASSUME NEW locs \in {Locs} \cup {{l} : l \in Locs}, InboxPage!LocationsAnswered(locs) PROVE InboxInv'
  BY <1>1, <1>2, LoadFollows DEF InboxPage!LocationsAnswered
<1>3. ASSUME NEW I \in SUBSET InboxItems, InboxPage!OutboxChanges(I) PROVE InboxInv'
  <2>1. /\ \A i \in I : inboxRows[i].status = "new"
        /\ inboxRows' = [i \in InboxItems |-> IF i \in I THEN [status |-> "inbox", place |-> NoDraft] ELSE inboxRows[i]]
        /\ InboxPage!Reload(inboxLocations)
        /\ UNCHANGED <<inboxShown, inboxFilings, inboxError, inboxDrafts, inboxLocations, inboxContents, inboxFetches>>
    BY <1>3 DEF InboxPage!OutboxChanges, InboxPage!Row, InboxPage!NoDraft, NoDraft, InboxPage!placeVars
  <2>2. inboxRows' \in [InboxItems -> [status : {"absent", "new", "inbox", "filed"}, place : Draft \cup {NoDraft}]]
    <3>1. [status |-> "inbox", place |-> NoDraft] \in
             [status : {"absent", "new", "inbox", "filed"}, place : Draft \cup {NoDraft}]
      OBVIOUS
    <3> QED BY <1>1, <2>1, <3>1
  <2>3. \A i \in InboxItems : inboxRows'[i] = inboxRows[i] \/ inboxRows[i].status = "new"
    BY <2>1
  <2>4. inboxLocations \in SUBSET Locs
    BY DEF InboxInv, InboxTyped
  <2> QED BY <2>1, <2>2, <2>3, <2>4, LoadFollows
<1> QED BY <1>2, <1>3

LEMMA CaptureArrives ==
  ASSUME InboxInv, NEW i \in InboxItems, InboxPage!Delivered(i)
  PROVE  InboxInv'
<1> DEFINE row == [inboxRows[i] EXCEPT !.status = "new"]
<1>1. inboxRows \in [InboxItems -> [status : {"absent", "new", "inbox", "filed"}, place : Draft \cup {NoDraft}]]
  BY DEF InboxInv, InboxTyped
<1>2. /\ inboxRows[i].status = "absent" /\ inboxRows' = [inboxRows EXCEPT ![i] = row]
      /\ UNCHANGED <<inboxShown, inboxLoads, inboxFilings, inboxError, inboxUpset, inboxDrafts, inboxLocations,
                     inboxContents, inboxFetches>>
  BY DEF InboxPage!Delivered, InboxPage!placeVars
<1>3. /\ row \in [status : {"absent", "new", "inbox", "filed"}, place : Draft \cup {NoDraft}]
      /\ row.status = "new"
  BY <1>1
<1> HIDE DEF row
<1>4. /\ inboxRows' \in [InboxItems -> [status : {"absent", "new", "inbox", "filed"}, place : Draft \cup {NoDraft}]]
      /\ inboxRows'[i].status = "new" /\ \A j \in InboxItems : j # i => inboxRows'[j] = inboxRows[j]
  BY <1>1, <1>2, <1>3
<1>5. InboxTyped'
  BY <1>2, <1>4 DEF InboxInv, InboxTyped
<1>6. \A n \in DOMAIN inboxFilings : inboxFilings[n].item \in InboxItems
  <2> SUFFICES ASSUME NEW n \in DOMAIN inboxFilings PROVE inboxFilings[n].item \in InboxItems
    OBVIOUS
  <2>1. inboxFilings[n] \in InboxFiling
    BY DEF InboxInv, InboxTyped
  <2> QED BY <2>1 DEF InboxFiling
<1>7. \A n \in DOMAIN inboxFilings : inboxFilings[n].step \in {"answered", "done"} =>
        inboxRows'[inboxFilings[n].item] = inboxRows[inboxFilings[n].item]
  BY <1>2, <1>4, <1>6 DEF InboxInv, DraftsInv
<1>8. DraftsInv'
  BY <1>2, <1>7 DEF InboxInv, DraftsInv
<1>9. Waiting' = Waiting /\ InboxPage!Unfiled \subseteq InboxPage!Unfiled' /\ Leaving' = Leaving
  BY <1>2, <1>4 DEF Waiting, Leaving, InboxPage!Unfiled
<1>10. RowsInv'
  BY <1>2, <1>9 DEF InboxInv, RowsInv, InboxPage!FilingsUnderWay, InboxPage!LoadsUnderWay
<1>11. OrderInv'
  BY <1>2, <1>7 DEF InboxInv, OrderInv
<1> QED BY <1>5, <1>8, <1>10, <1>11 DEF InboxInv

(* A load moves on; what it preselects stays. *)
LEMMA LoadKept ==
  ASSUME InboxInv, NEW n \in DOMAIN inboxLoads, NEW load \in InboxLoad,
         inboxLoads' = [inboxLoads EXCEPT ![n] = load], load.preselects = inboxLoads[n].preselects,
         UNCHANGED <<inboxRows, inboxFilings, inboxError, inboxLocations, inboxContents>>,
         inboxShown' \subseteq InboxItems, inboxFetches' \subseteq Locs,
         inboxDrafts' \in [InboxItems -> Draft \cup {NoDraft}],
         \A i \in InboxItems :
           /\ inboxDrafts'[i] # NoDraft => inboxDrafts'[i].loc \in inboxLocations
           /\ inboxDrafts'[i].folder \in {inboxDrafts'[i].loc, None},
         inboxUpset' \in BOOLEAN, inboxUpset => inboxUpset'
  PROVE  InboxTyped' /\ DraftsInv' /\ OrderInv'
<1>1. /\ inboxLoads' \in Seq(InboxLoad) /\ inboxLoads' # << >> /\ Len(inboxLoads') = Len(inboxLoads)
      /\ DOMAIN inboxLoads' = DOMAIN inboxLoads /\ inboxLoads'[n] = load
      /\ \A m \in DOMAIN inboxLoads : m # n => inboxLoads'[m] = inboxLoads[m]
  BY LoadMoved DEF InboxInv
<1>2. InboxTyped'
  BY <1>1 DEF InboxInv, InboxTyped
<1>3. \A m \in DOMAIN inboxLoads : inboxLoads'[m].preselects = inboxLoads[m].preselects
  BY <1>1
<1>4. Len(inboxLoads) \in DOMAIN inboxLoads
  BY LastLoad DEF InboxInv
<1>5. DraftsInv'
  BY <1>1, <1>3, <1>4 DEF InboxInv, DraftsInv
<1>6. OrderInv'
  BY DEF InboxInv, OrderInv
<1> QED BY <1>2, <1>5, <1>6

LEMMA ListRead ==
  ASSUME InboxInv, NEW n \in DOMAIN inboxLoads, InboxPage!InboxRead(n)
  PROVE  InboxInv'
<1> DEFINE load == [inboxLoads[n] EXCEPT !.step = "read", !.items = InboxPage!Unfiled]
<1>1. inboxLoads[n] \in InboxLoad
  BY DEF InboxInv, InboxTyped
<1>2. /\ load \in InboxLoad /\ load.preselects = inboxLoads[n].preselects /\ load.step = "read"
      /\ load.items = InboxPage!Unfiled
  BY <1>1 DEF InboxLoad, InboxPage!Unfiled
<1>3. /\ inboxLoads[n].step = "sent" /\ inboxLoads' = [inboxLoads EXCEPT ![n] = load]
      /\ UNCHANGED <<inboxRows, inboxShown, inboxFilings, inboxError, inboxUpset, inboxDrafts, inboxLocations,
                     inboxContents, inboxFetches>>
  BY DEF InboxPage!InboxRead, InboxPage!placeVars
<1> HIDE DEF load
<1>4. InboxTyped' /\ DraftsInv' /\ OrderInv'
  BY <1>2, <1>3, LoadKept DEF InboxInv, InboxTyped, DraftsInv
<1>5. /\ Len(inboxLoads') = Len(inboxLoads) /\ DOMAIN inboxLoads' = DOMAIN inboxLoads /\ inboxLoads'[n] = load
      /\ \A m \in DOMAIN inboxLoads : m # n => inboxLoads'[m] = inboxLoads[m]
  BY <1>2, <1>3, LoadMoved DEF InboxInv
<1>6. Len(inboxLoads) \in DOMAIN inboxLoads
  BY LastLoad DEF InboxInv
<1>7. /\ InboxPage!LoadsUnderWay' = InboxPage!LoadsUnderWay
      /\ InboxPage!FilingsUnderWay' = InboxPage!FilingsUnderWay
      /\ InboxPage!Unfiled' = InboxPage!Unfiled /\ Waiting' = Waiting /\ Leaving' = Leaving
      /\ Waiting \subseteq InboxPage!Unfiled
  BY <1>2, <1>3, <1>5 DEF InboxPage!LoadsUnderWay, InboxPage!FilingsUnderWay, InboxPage!Unfiled, Waiting, Leaving
<1>8. RowsInv'
  <2>1. CASE n = Len(inboxLoads)
    BY <1>2, <1>3, <1>5, <1>7, <2>1 DEF InboxInv, RowsInv
  <2>2. CASE n # Len(inboxLoads)
    BY <1>3, <1>5, <1>6, <1>7, <2>2 DEF InboxInv, RowsInv
  <2> QED BY <2>1, <2>2
<1> QED BY <1>4, <1>8 DEF InboxInv

LEMMA ListShown ==
  ASSUME InboxInv, NEW n \in DOMAIN inboxLoads, InboxPage!InboxLoaded(n)
  PROVE  InboxInv'
<1> DEFINE load == inboxLoads[n]
           done == [load EXCEPT !.step = "done", !.items = {}]
           draft(i) == IF load.preselects # None /\ i \in load.items /\ inboxDrafts[i] = NoDraft
                         THEN [loc |-> load.preselects, folder |-> None] ELSE inboxDrafts[i]
<1>1. load \in InboxLoad /\ load.items \subseteq InboxItems /\ load.preselects \in Locs \cup {None}
  <2>1. load \in InboxLoad
    BY DEF InboxInv, InboxTyped
  <2> QED BY <2>1 DEF InboxLoad
<1>2. done \in InboxLoad /\ done.preselects = load.preselects /\ done.step = "done"
  BY <1>1 DEF InboxLoad
<1>3. /\ load.step = "read" /\ inboxLoads' = [inboxLoads EXCEPT ![n] = done]
      /\ inboxShown' = load.items /\ inboxDrafts' = [i \in InboxItems |-> draft(i)]
      /\ InboxPage!Fetch(load.preselects)
      /\ inboxUpset' = (inboxUpset \/ \E m \in DOMAIN inboxLoads : m > n /\ inboxLoads[m].step = "done")
      /\ UNCHANGED <<inboxRows, inboxFilings, inboxError, inboxLocations, inboxContents>>
  BY DEF InboxPage!InboxLoaded, InboxPage!NoDraft, NoDraft
<1>4. ASSUME NEW i \in InboxItems
      PROVE  /\ draft(i) \in Draft \cup {NoDraft} /\ draft(i).folder \in {draft(i).loc, None}
             /\ draft(i) # NoDraft => draft(i).loc \in inboxLocations
             /\ load.preselects # None /\ i \in load.items => draft(i).loc \in inboxLocations
  <2>1. /\ inboxDrafts[i] \in Draft \cup {NoDraft} /\ inboxDrafts[i].folder \in {inboxDrafts[i].loc, None}
        /\ inboxDrafts[i] # NoDraft => inboxDrafts[i].loc \in inboxLocations
        /\ load.preselects # None => inboxLocations = {load.preselects} /\ load.preselects \in Locs
    BY <1>1 DEF InboxInv, InboxTyped, DraftsInv
  <2>2. CASE load.preselects # None /\ i \in load.items /\ inboxDrafts[i] = NoDraft
    <3> DEFINE fresh == [loc |-> load.preselects, folder |-> None]
    <3>1. draft(i) = fresh
      BY <2>2
    <3>2. fresh \in Draft /\ fresh.loc = load.preselects /\ fresh.folder = None
      BY <2>1, <2>2 DEF Draft
    <3> HIDE DEF fresh
    <3> QED BY <2>1, <2>2, <3>1, <3>2
  <2>3. CASE ~(load.preselects # None /\ i \in load.items /\ inboxDrafts[i] = NoDraft)
    <3>1. draft(i) = inboxDrafts[i]
      BY <2>3
    <3> QED BY <2>1, <2>3, <3>1
  <2> QED BY <2>2, <2>3
<1> HIDE DEF done, draft
<1>5. /\ inboxDrafts' \in [InboxItems -> Draft \cup {NoDraft}]
      /\ \A i \in InboxItems : inboxDrafts'[i] = draft(i)
  BY <1>3, <1>4
<1>6. inboxFetches' \subseteq Locs /\ inboxUpset' \in BOOLEAN /\ (inboxUpset => inboxUpset')
  BY <1>1, <1>3 DEF InboxPage!Fetch, InboxInv, InboxTyped
<1>7. InboxTyped' /\ DraftsInv' /\ OrderInv'
  BY <1>1, <1>2, <1>3, <1>4, <1>5, <1>6, LoadKept
<1>8. /\ Len(inboxLoads') = Len(inboxLoads) /\ DOMAIN inboxLoads' = DOMAIN inboxLoads /\ inboxLoads'[n] = done
      /\ \A m \in DOMAIN inboxLoads : m # n => inboxLoads'[m] = inboxLoads[m]
  BY <1>2, <1>3, LoadMoved DEF InboxInv
<1>9. /\ Len(inboxLoads) \in DOMAIN inboxLoads /\ DOMAIN inboxLoads = 1..Len(inboxLoads)
      /\ Len(inboxLoads) \in Nat
  BY LastLoad DEF InboxInv
<1>10. /\ InboxPage!FilingsUnderWay' = InboxPage!FilingsUnderWay
       /\ InboxPage!Unfiled' = InboxPage!Unfiled /\ Waiting' = Waiting
  BY <1>3 DEF InboxPage!FilingsUnderWay, InboxPage!Unfiled, Waiting
<1>11. InboxPage!LoadsUnderWay' \subseteq InboxPage!LoadsUnderWay
  BY <1>2, <1>8 DEF InboxPage!LoadsUnderWay
<1>12. RowsInv'
  <2> SUFFICES ASSUME ~inboxUpset'
               PROVE  LET last == inboxLoads'[Len(inboxLoads)] IN
                      /\ InboxPage!FilingsUnderWay = {} \/ InboxPage!LoadsUnderWay' = {}
                      /\ last.step = "read" => Waiting \subseteq last.items /\ last.items \subseteq InboxPage!Unfiled
                      /\ last.step = "done" =>
                           /\ Waiting \subseteq inboxShown' /\ inboxShown' \subseteq InboxPage!Unfiled
                           /\ \A l \in Locs, i \in inboxShown' : inboxLocations = {l} => inboxDrafts'[i].loc = l
    BY <1>3, <1>8, <1>10 DEF RowsInv
  <2>1. ~inboxUpset /\ \A m \in DOMAIN inboxLoads : m > n => inboxLoads[m].step # "done"
    BY <1>3
  <2>2. InboxPage!FilingsUnderWay = {} \/ InboxPage!LoadsUnderWay' = {}
    BY <1>11, <2>1 DEF InboxInv, RowsInv
  <2>3. CASE n # Len(inboxLoads)
    <3>1. Len(inboxLoads) > n
      BY <1>9, <2>3
    <3>2. inboxLoads'[Len(inboxLoads)] = inboxLoads[Len(inboxLoads)] /\ inboxLoads[Len(inboxLoads)].step # "done"
      BY <1>8, <1>9, <2>1, <2>3, <3>1
    <3> QED BY <2>1, <2>2, <3>2 DEF InboxInv, RowsInv
  <2>4. CASE n = Len(inboxLoads)
    <3>1. Waiting \subseteq load.items /\ load.items \subseteq InboxPage!Unfiled
      BY <1>3, <2>1, <2>4 DEF InboxInv, RowsInv
    <3>2. ASSUME NEW l \in Locs, NEW i \in load.items, inboxLocations = {l} PROVE inboxDrafts'[i].loc = l
      <4>1. load.preselects = l /\ i \in InboxItems
        BY <1>1, <2>4, <3>2 DEF InboxInv, DraftsInv
      <4>2. draft(i).loc \in inboxLocations
        BY <1>4, <3>2, <4>1, AppAssumption
      <4> QED BY <1>5, <3>2, <4>1, <4>2
    <3> QED BY <1>2, <1>3, <1>8, <2>2, <2>4, <3>1, <3>2
  <2> QED BY <2>3, <2>4
<1> QED BY <1>7, <1>12 DEF InboxInv

LEMMA ListLost ==
  ASSUME InboxInv, NEW n \in DOMAIN inboxLoads, InboxPage!InboxLoadFails(n)
  PROVE  InboxInv'
<1> DEFINE load == [inboxLoads[n] EXCEPT !.step = "done", !.items = {}]
<1>1. inboxLoads[n] \in InboxLoad
  BY DEF InboxInv, InboxTyped
<1>2. load \in InboxLoad /\ load.preselects = inboxLoads[n].preselects
  BY <1>1 DEF InboxLoad
<1>3. /\ inboxLoads' = [inboxLoads EXCEPT ![n] = load] /\ inboxUpset' = TRUE
      /\ UNCHANGED <<inboxRows, inboxShown, inboxFilings, inboxError, inboxDrafts, inboxLocations,
                     inboxContents, inboxFetches>>
  BY DEF InboxPage!InboxLoadFails, InboxPage!placeVars
<1> HIDE DEF load
<1>4. InboxTyped' /\ DraftsInv' /\ OrderInv'
  BY <1>2, <1>3, LoadKept DEF InboxInv, InboxTyped, DraftsInv
<1> QED BY <1>3, <1>4 DEF InboxInv, RowsInv

LEMMA FileTapped ==
  ASSUME InboxInv, NEW i \in InboxItems, InboxPage!File(i)
  PROVE  InboxInv'
<1> DEFINE filing == [item |-> i, place |-> inboxDrafts[i], step |-> "sent"]
           k == Len(inboxFilings) + 1
<1>1. /\ i \in inboxShown /\ inboxDrafts[i].loc # None /\ inboxFilings' = Append(inboxFilings, filing)
      /\ inboxError' = FALSE
      /\ inboxUpset' = (inboxUpset \/ InboxPage!LoadsUnderWay # {}
                          \/ \E n \in InboxPage!FilingsUnderWay : inboxFilings[n].item = i)
      /\ UNCHANGED <<inboxRows, inboxShown, inboxLoads, inboxDrafts, inboxLocations, inboxContents, inboxFetches>>
  BY DEF InboxPage!File, InboxPage!placeVars
<1>2. inboxDrafts[i] \in Draft /\ inboxDrafts[i].folder \in {inboxDrafts[i].loc, None}
  BY <1>1 DEF InboxInv, InboxTyped, DraftsInv, NoDraft
<1>3. /\ filing \in InboxFiling /\ filing.item = i /\ filing.place = inboxDrafts[i] /\ filing.step = "sent"
  BY <1>2 DEF InboxFiling
<1>4. inboxFilings \in Seq(InboxFiling) /\ Len(inboxFilings) \in Nat /\ inboxUpset \in BOOLEAN
  BY DEF InboxInv, InboxTyped
<1> HIDE DEF filing
<1>5. /\ inboxFilings' \in Seq(InboxFiling) /\ k \in DOMAIN inboxFilings' /\ inboxFilings'[k] = filing
      /\ \A n \in DOMAIN inboxFilings : n \in DOMAIN inboxFilings' /\ inboxFilings'[n] = inboxFilings[n] /\ n < k
      /\ \A n \in DOMAIN inboxFilings' : n \in DOMAIN inboxFilings \/ n = k
  BY <1>1, <1>3, <1>4
<1>6. k \in Nat
  BY <1>4
<1> HIDE DEF k
<1>7. InboxTyped'
  BY <1>1, <1>4, <1>5 DEF InboxInv, InboxTyped
<1>8. DraftsInv'
  <2>1. \A n \in DOMAIN inboxFilings' :
          /\ inboxFilings'[n].place.folder \in {inboxFilings'[n].place.loc, None}
          /\ inboxFilings'[n].step \in {"answered", "done"} => inboxRows[inboxFilings'[n].item].status = "filed"
    BY <1>2, <1>3, <1>5 DEF InboxInv, DraftsInv
  <2> QED BY <1>1, <2>1 DEF InboxInv, DraftsInv
<1>9. RowsInv'
  <2>1. InboxPage!LoadsUnderWay' = InboxPage!LoadsUnderWay /\ InboxPage!Unfiled' = InboxPage!Unfiled
        /\ Waiting' = Waiting
    BY <1>1 DEF InboxPage!LoadsUnderWay, InboxPage!Unfiled, Waiting
  <2>2. Leaving \subseteq Leaving'
    BY <1>5 DEF Leaving
  <2>3. ~inboxUpset' => ~inboxUpset /\ InboxPage!LoadsUnderWay = {}
    BY <1>1
  <2>4. Len(inboxLoads) \in DOMAIN inboxLoads
    BY LastLoad DEF InboxInv
  <2>5. ~inboxUpset' => inboxLoads[Len(inboxLoads)].step = "done"
    BY <2>3, <2>4 DEF InboxPage!LoadsUnderWay
  <2> QED BY <1>1, <2>1, <2>2, <2>3, <2>5 DEF InboxInv, RowsInv
<1>10. OrderInv'
  <2> SUFFICES ASSUME ~inboxUpset', NEW n \in DOMAIN inboxFilings'
               PROVE  IF \E m \in DOMAIN inboxFilings' : m > n /\ inboxFilings'[m].item = inboxFilings'[n].item
                        THEN inboxFilings'[n].step \in {"done", "refused"}
                        ELSE inboxFilings'[n].step \in {"answered", "done"} =>
                               inboxRows[inboxFilings'[n].item].place = inboxFilings'[n].place
    BY <1>1 DEF OrderInv
  <2>1. ~inboxUpset /\ \A m \in InboxPage!FilingsUnderWay : inboxFilings[m].item # i
    BY <1>1
  <2>2. CASE n = k
    <3>1. \A m \in DOMAIN inboxFilings' : ~(m > n)
      BY <1>4, <1>5, <1>6, <2>2
    <3> QED BY <1>3, <1>5, <2>2, <3>1
  <2>3. CASE n # k
    <3>1. n \in DOMAIN inboxFilings /\ inboxFilings'[n] = inboxFilings[n] /\ n < k
      BY <1>5, <2>3
    <3>2. CASE inboxFilings[n].item = i
      <4>1. inboxFilings[n].step \in {"done", "refused"}
        BY <2>1, <3>1, <3>2 DEF InboxPage!FilingsUnderWay
      <4>2. k > n
        BY <1>4, <1>6, <3>1
      <4> QED BY <1>3, <1>5, <3>1, <3>2, <4>1, <4>2
    <3>3. CASE inboxFilings[n].item # i
      <4>1. (\E m \in DOMAIN inboxFilings' : m > n /\ inboxFilings'[m].item = inboxFilings'[n].item)
              <=> \E m \in DOMAIN inboxFilings : m > n /\ inboxFilings[m].item = inboxFilings[n].item
        BY <1>3, <1>5, <3>1, <3>3
      <4> QED BY <2>1, <3>1, <4>1 DEF InboxInv, OrderInv
    <3> QED BY <3>2, <3>3
  <2> QED BY <2>2, <2>3
<1> QED BY <1>7, <1>8, <1>9, <1>10 DEF InboxInv

(* The one filing of its item that is under way runs. *)
LEMMA FileRan ==
  ASSUME InboxInv, NEW n \in DOMAIN inboxFilings, InboxPage!FileRuns(n)
  PROVE  InboxInv'
<1> DEFINE i == inboxFilings[n].item
           row == [status |-> "filed", place |-> inboxFilings[n].place]
<1>1. /\ inboxFilings[n].step = "sent" /\ inboxRows' = [inboxRows EXCEPT ![i] = row]
      /\ inboxFilings' = [inboxFilings EXCEPT ![n].step = "answered"]
      /\ UNCHANGED <<inboxShown, inboxLoads, inboxError, inboxUpset, inboxDrafts, inboxLocations,
                     inboxContents, inboxFetches>>
  BY DEF InboxPage!FileRuns, InboxPage!Row, InboxPage!placeVars
<1>2. /\ inboxFilings' \in Seq(InboxFiling) /\ DOMAIN inboxFilings' = DOMAIN inboxFilings
      /\ inboxFilings'[n].item = i /\ inboxFilings'[n].place = inboxFilings[n].place
      /\ inboxFilings'[n].step = "answered" /\ inboxFilings[n] \in InboxFiling
      /\ \A m \in DOMAIN inboxFilings : m # n => inboxFilings'[m] = inboxFilings[m]
  BY <1>1, FilingMoved DEF InboxInv
<1>3. i \in InboxItems /\ inboxFilings[n].place \in Draft
  BY <1>2 DEF InboxFiling
<1>4. /\ row \in [status : {"absent", "new", "inbox", "filed"}, place : Draft \cup {NoDraft}]
      /\ row.status = "filed" /\ row.place = inboxFilings[n].place
  BY <1>3
<1> HIDE DEF row
<1>5. /\ inboxRows' \in [InboxItems -> [status : {"absent", "new", "inbox", "filed"}, place : Draft \cup {NoDraft}]]
      /\ inboxRows'[i] = row /\ \A j \in InboxItems : j # i => inboxRows'[j] = inboxRows[j]
  <2>1. inboxRows \in [InboxItems -> [status : {"absent", "new", "inbox", "filed"}, place : Draft \cup {NoDraft}]]
    BY DEF InboxInv, InboxTyped
  <2> HIDE DEF i
  <2> QED BY <1>1, <1>3, <1>4, <2>1
<1>6. InboxTyped'
  BY <1>1, <1>2, <1>5 DEF InboxInv, InboxTyped
<1>7. \A m \in DOMAIN inboxFilings :
        inboxFilings[m].item \in InboxItems /\ inboxFilings'[m].item = inboxFilings[m].item
        /\ inboxFilings'[m].place = inboxFilings[m].place
  <2> SUFFICES ASSUME NEW m \in DOMAIN inboxFilings PROVE inboxFilings[m].item \in InboxItems
    BY <1>2
  <2>1. inboxFilings[m] \in InboxFiling
    BY DEF InboxInv, InboxTyped
  <2> QED BY <2>1 DEF InboxFiling
<1> HIDE DEF i
<1>8. DraftsInv'
  <2>1. ASSUME NEW m \in DOMAIN inboxFilings
        PROVE  /\ inboxFilings'[m].place.folder \in {inboxFilings'[m].place.loc, None}
               /\ inboxFilings'[m].step \in {"answered", "done"} => inboxRows'[inboxFilings'[m].item].status = "filed"
    <3>1. inboxFilings[m].place.folder \in {inboxFilings[m].place.loc, None}
      BY DEF InboxInv, DraftsInv
    <3>2. m # n /\ inboxFilings[m].step \in {"answered", "done"} => inboxRows[inboxFilings[m].item].status = "filed"
      BY DEF InboxInv, DraftsInv
    <3> QED BY <1>2, <1>4, <1>5, <1>7, <3>1, <3>2
  <2> QED BY <1>1, <1>2, <2>1 DEF InboxInv, DraftsInv
<1>9. RowsInv'
  <2>1. n \in InboxPage!FilingsUnderWay /\ n \in InboxPage!FilingsUnderWay'
    BY <1>1, <1>2 DEF InboxPage!FilingsUnderWay
  <2>2. Waiting' \subseteq Waiting /\ InboxPage!Unfiled \subseteq InboxPage!Unfiled' \cup {i} /\ i \in Leaving'
        /\ Leaving \subseteq Leaving'
    <3>1. Waiting' \subseteq Waiting
      BY <1>3, <1>4, <1>5 DEF Waiting
    <3>2. InboxPage!Unfiled \subseteq InboxPage!Unfiled' \cup {i}
      BY <1>3, <1>5 DEF InboxPage!Unfiled
    <3>3. i \in Leaving'
      BY <1>2, <1>3 DEF Leaving
    <3>4. Leaving \subseteq Leaving'
      BY <1>1, <1>2, <1>7 DEF Leaving
    <3> QED BY <3>1, <3>2, <3>3, <3>4
  <2>3. InboxPage!LoadsUnderWay' = InboxPage!LoadsUnderWay
    BY <1>1 DEF InboxPage!LoadsUnderWay
  <2>4. Len(inboxLoads) \in DOMAIN inboxLoads
    BY LastLoad DEF InboxInv
  <2>5. ~inboxUpset => InboxPage!LoadsUnderWay = {} /\ inboxLoads[Len(inboxLoads)].step = "done"
    BY <2>1, <2>4 DEF InboxInv, RowsInv, InboxPage!LoadsUnderWay
  <2> QED BY <1>1, <2>2, <2>3, <2>5 DEF InboxInv, RowsInv
<1>10. OrderInv'
  <2> SUFFICES ASSUME ~inboxUpset, NEW m \in DOMAIN inboxFilings
               PROVE  IF \E k \in DOMAIN inboxFilings : k > m /\ inboxFilings[k].item = inboxFilings[m].item
                        THEN inboxFilings'[m].step \in {"done", "refused"}
                        ELSE inboxFilings'[m].step \in {"answered", "done"} =>
                               inboxRows'[inboxFilings[m].item].place = inboxFilings[m].place
    BY <1>1, <1>2, <1>7 DEF OrderInv
  <2>1. IF \E k \in DOMAIN inboxFilings : k > m /\ inboxFilings[k].item = inboxFilings[m].item
          THEN inboxFilings[m].step \in {"done", "refused"}
          ELSE inboxFilings[m].step \in {"answered", "done"} =>
                 inboxRows[inboxFilings[m].item].place = inboxFilings[m].place
    BY DEF InboxInv, OrderInv
  <2>2. ~\E k \in DOMAIN inboxFilings : k > n /\ inboxFilings[k].item = i
    BY <1>1 DEF i, InboxInv, OrderInv
  <2>3. CASE m = n
    BY <1>2, <1>4, <1>5, <2>2, <2>3 DEF i
  <2>4. CASE m # n
    <3>1. inboxFilings'[m] = inboxFilings[m]
      BY <1>2, <2>4
    <3>2. CASE inboxFilings[m].item # i
      BY <1>5, <1>7, <2>1, <3>1, <3>2
    <3>3. CASE inboxFilings[m].item = i
      <4>1. m \in Nat /\ n \in Nat
        BY DEF InboxInv, InboxTyped
      <4>2. n > m
        BY <2>2, <2>4, <3>3, <4>1
      <4> QED BY <2>1, <3>1, <3>3, <4>2 DEF i
    <3> QED BY <3>2, <3>3
  <2> QED BY <2>3, <2>4
<1> QED BY <1>6, <1>8, <1>9, <1>10 DEF InboxInv

(* A filing is answered or lost; what it did before stays done. *)
LEMMA FilingEnds ==
  ASSUME InboxInv, NEW n \in DOMAIN inboxFilings, NEW step \in {"failed", "done", "refused"},
         inboxFilings' = [inboxFilings EXCEPT ![n].step = step],
         step = "done" => inboxFilings[n].step = "answered",
         inboxFilings[n].step \notin {"done", "refused"},
         inboxUpset => inboxUpset',
         inboxRows' = inboxRows
  PROVE  /\ inboxFilings' \in Seq(InboxFiling)
         /\ \A m \in DOMAIN inboxFilings' :
              /\ inboxFilings'[m].place.folder \in {inboxFilings'[m].place.loc, None}
              /\ inboxFilings'[m].step \in {"answered", "done"} =>
                   inboxRows'[inboxFilings'[m].item].status = "filed"
         /\ InboxPage!FilingsUnderWay' \subseteq InboxPage!FilingsUnderWay
         /\ inboxFilings[n].step # "answered" => Leaving' = Leaving
         /\ Leaving \subseteq Leaving' \cup {inboxFilings[n].item}
         /\ OrderInv'
<1>1. /\ inboxFilings' \in Seq(InboxFiling) /\ DOMAIN inboxFilings' = DOMAIN inboxFilings
      /\ inboxFilings'[n].item = inboxFilings[n].item /\ inboxFilings'[n].place = inboxFilings[n].place
      /\ inboxFilings'[n].step = step
      /\ \A m \in DOMAIN inboxFilings : m # n => inboxFilings'[m] = inboxFilings[m]
  BY FilingMoved DEF InboxInv
<1>2. \A m \in DOMAIN inboxFilings :
        inboxFilings'[m].item = inboxFilings[m].item /\ inboxFilings'[m].place = inboxFilings[m].place
  BY <1>1
<1>3. ASSUME NEW m \in DOMAIN inboxFilings
      PROVE  /\ inboxFilings'[m].place.folder \in {inboxFilings'[m].place.loc, None}
             /\ inboxFilings'[m].step \in {"answered", "done"} => inboxRows[inboxFilings'[m].item].status = "filed"
  <2>1. /\ inboxFilings[m].place.folder \in {inboxFilings[m].place.loc, None}
        /\ inboxFilings[m].step \in {"answered", "done"} => inboxRows[inboxFilings[m].item].status = "filed"
    BY DEF InboxInv, DraftsInv
  <2> QED BY <1>1, <1>2, <2>1
<1>4. InboxPage!FilingsUnderWay' \subseteq InboxPage!FilingsUnderWay
  BY <1>1 DEF InboxPage!FilingsUnderWay
<1>5. ASSUME NEW j \in Leaving PROVE j \in Leaving' \/ (j = inboxFilings[n].item /\ inboxFilings[n].step = "answered")
  <2>1. PICK m \in DOMAIN inboxFilings : inboxFilings[m].item = j /\ inboxFilings[m].step = "answered"
    BY <1>5 DEF Leaving
  <2> QED BY <1>1, <1>5, <2>1 DEF Leaving
<1>6. ASSUME NEW j \in Leaving' PROVE j \in Leaving
  <2>1. PICK m \in DOMAIN inboxFilings : inboxFilings'[m].item = j /\ inboxFilings'[m].step = "answered"
    BY <1>1, <1>6 DEF Leaving
  <2>2. inboxFilings[m].item = j /\ inboxFilings[m].step = "answered" /\ j \in InboxItems
    BY <1>1, <1>6, <2>1 DEF Leaving
  <2> QED BY <2>2 DEF Leaving
<1>7. OrderInv'
  <2> SUFFICES ASSUME ~inboxUpset, NEW m \in DOMAIN inboxFilings
               PROVE  IF \E k \in DOMAIN inboxFilings : k > m /\ inboxFilings[k].item = inboxFilings[m].item
                        THEN inboxFilings'[m].step \in {"done", "refused"}
                        ELSE inboxFilings'[m].step \in {"answered", "done"} =>
                               inboxRows[inboxFilings[m].item].place = inboxFilings[m].place
    BY <1>1, <1>2 DEF OrderInv
  <2>1. IF \E k \in DOMAIN inboxFilings : k > m /\ inboxFilings[k].item = inboxFilings[m].item
          THEN inboxFilings[m].step \in {"done", "refused"}
          ELSE inboxFilings[m].step \in {"answered", "done"} =>
                 inboxRows[inboxFilings[m].item].place = inboxFilings[m].place
    BY DEF InboxInv, OrderInv
  <2>2. CASE m = n
    BY <1>1, <2>1, <2>2
  <2>3. CASE m # n
    BY <1>1, <2>1, <2>3
  <2> QED BY <2>2, <2>3
<1> QED BY <1>1, <1>3, <1>4, <1>5, <1>6, <1>7

LEMMA FileLostOrRefused ==
  ASSUME InboxInv, NEW n \in DOMAIN inboxFilings, InboxPage!FileLost(n) \/ InboxPage!FileFails(n)
  PROVE  InboxInv'
<1>1. PICK step \in {"failed", "done", "refused"} :
        /\ step # "done" /\ inboxFilings' = [inboxFilings EXCEPT ![n].step = step]
        /\ inboxFilings[n].step \in {"sent", "answered", "failed"}
        /\ inboxUpset' = (inboxUpset \/ inboxFilings[n].step = "answered")
        /\ inboxError' \in BOOLEAN
  BY DEF InboxPage!FileLost, InboxPage!FileFails, InboxInv, InboxTyped
<1>2. UNCHANGED <<inboxRows, inboxShown, inboxLoads, inboxDrafts, inboxLocations, inboxContents, inboxFetches>>
  BY DEF InboxPage!FileLost, InboxPage!FileFails, InboxPage!ShownAfterFailure, InboxPage!placeVars
<1>3. /\ inboxFilings' \in Seq(InboxFiling)
      /\ \A m \in DOMAIN inboxFilings' :
           /\ inboxFilings'[m].place.folder \in {inboxFilings'[m].place.loc, None}
           /\ inboxFilings'[m].step \in {"answered", "done"} =>
                inboxRows'[inboxFilings'[m].item].status = "filed"
      /\ InboxPage!FilingsUnderWay' \subseteq InboxPage!FilingsUnderWay
      /\ inboxFilings[n].step # "answered" => Leaving' = Leaving
      /\ OrderInv'
  BY <1>1, <1>2, FilingEnds
<1>4. InboxTyped'
  BY <1>1, <1>2, <1>3 DEF InboxInv, InboxTyped
<1>5. DraftsInv'
  BY <1>2, <1>3 DEF InboxInv, DraftsInv
<1>6. InboxPage!LoadsUnderWay' = InboxPage!LoadsUnderWay /\ InboxPage!Unfiled' = InboxPage!Unfiled
      /\ Waiting' = Waiting
  BY <1>2 DEF InboxPage!LoadsUnderWay, InboxPage!Unfiled, Waiting
<1>7. RowsInv'
  BY <1>1, <1>2, <1>3, <1>6 DEF InboxInv, RowsInv
<1> QED BY <1>3, <1>4, <1>5, <1>7 DEF InboxInv

LEMMA FileDone ==
  ASSUME InboxInv, NEW n \in DOMAIN inboxFilings, InboxPage!Filed(n)
  PROVE  InboxInv'
<1> DEFINE i == inboxFilings[n].item
<1>1. /\ inboxFilings[n].step = "answered" /\ inboxFilings' = [inboxFilings EXCEPT ![n].step = "done"]
      /\ inboxShown' = inboxShown \ {i} /\ inboxDrafts' = [inboxDrafts EXCEPT ![i] = NoDraft]
      /\ UNCHANGED <<inboxRows, inboxLoads, inboxError, inboxUpset, inboxLocations, inboxContents, inboxFetches>>
  BY DEF InboxPage!Filed, InboxPage!NoDraft, NoDraft
<1>2. /\ inboxFilings' \in Seq(InboxFiling)
      /\ \A m \in DOMAIN inboxFilings' :
           /\ inboxFilings'[m].place.folder \in {inboxFilings'[m].place.loc, None}
           /\ inboxFilings'[m].step \in {"answered", "done"} =>
                inboxRows'[inboxFilings'[m].item].status = "filed"
      /\ InboxPage!FilingsUnderWay' \subseteq InboxPage!FilingsUnderWay
      /\ Leaving \subseteq Leaving' \cup {i}
      /\ OrderInv'
  BY <1>1, FilingEnds
<1>3. inboxRows[i].status = "filed"
  BY <1>1 DEF InboxInv, DraftsInv
<1> HIDE DEF i
<1>4. /\ inboxDrafts' \in [InboxItems -> Draft \cup {NoDraft}]
      /\ \A j \in InboxItems : inboxDrafts'[j] = NoDraft \/ (j # i /\ inboxDrafts'[j] = inboxDrafts[j])
  <2>1. inboxDrafts \in [InboxItems -> Draft \cup {NoDraft}]
    BY DEF InboxInv, InboxTyped
  <2> QED BY <1>1, <2>1
<1>5. InboxTyped'
  BY <1>1, <1>2, <1>4 DEF InboxInv, InboxTyped
<1>6. DraftsInv'
  <2>1. NoDraft.folder = None
    BY DEF NoDraft
  <2> QED BY <1>1, <1>2, <1>4, <2>1 DEF InboxInv, DraftsInv
<1>7. InboxPage!LoadsUnderWay' = InboxPage!LoadsUnderWay /\ InboxPage!Unfiled' = InboxPage!Unfiled
      /\ Waiting' = Waiting /\ i \notin Waiting
  BY <1>1, <1>3 DEF InboxPage!LoadsUnderWay, InboxPage!Unfiled, Waiting
<1>8. \A j \in inboxShown' : j \in inboxShown /\ inboxDrafts'[j] = inboxDrafts[j]
  <2>1. inboxDrafts \in [InboxItems -> Draft \cup {NoDraft}] /\ inboxShown \subseteq InboxItems
    BY DEF InboxInv, InboxTyped
  <2> QED BY <1>1, <2>1
<1>9. RowsInv'
  BY <1>1, <1>2, <1>7, <1>8 DEF InboxInv, RowsInv
<1> QED BY <1>2, <1>5, <1>6, <1>9 DEF InboxInv

LEMMA InboxNext == InboxInv /\ [InboxPage!Next]_inboxVars => InboxInv'
<1> SUFFICES ASSUME InboxInv, [InboxPage!Next]_inboxVars PROVE InboxInv'
  OBVIOUS
<1>1. CASE InboxPage!Next
  BY <1>1, ListFollows, ListRead, ListShown, ListLost, RowPicked, CaptureArrives, FileTapped, FileRan,
     FileLostOrRefused, FileDone DEF InboxPage!Next
<1>2. CASE UNCHANGED inboxVars
  BY <1>2 DEF inboxVars, InboxInv, InboxTyped, DraftsInv, RowsInv, OrderInv, Waiting, Leaving,
              InboxPage!Unfiled, InboxPage!FilingsUnderWay, InboxPage!LoadsUnderWay
<1> QED BY <1>1, <1>2

LEMMA InboxOnly == [Next]_vars => [InboxPage!Next]_inboxVars
BY DEF Next, vars, GateOpens, GateRedirects, ItemStep, NoteStep, SearchStep, InboxStep, PlacesStep, TeamStep

LEMMA InboxAlways == Spec => []InboxInv
<1>1. Init => InboxInv
  BY InboxInit DEF Init
<1>2. InboxInv /\ [Next]_vars => InboxInv'
  BY InboxNext, InboxOnly
<1> QED BY <1>1, <1>2, PTL DEF Spec

(* When every request is answered and nothing crossed, the inbox lists exactly *)
(* what waits to be filed, with the only location chosen, and an item that was *)
(* filed is where the last tap that was answered said.                         *)
THEOREM InboxListsWhatWaits == Spec => []InboxTrue
<1>1. InboxInv => InboxTrue
  <2> SUFFICES ASSUME InboxInv, InboxPage!FilingsUnderWay = {}, InboxPage!LoadsUnderWay = {},
                      \A i \in InboxItems : inboxRows[i].status # "new", ~inboxUpset
               PROVE  /\ inboxShown = InboxPage!Unfiled
                      /\ \A l \in Locs, i \in inboxShown : inboxLocations = {l} => inboxDrafts[i].loc = l
                      /\ \A i \in InboxItems \ InboxPage!Unfiled, n \in DOMAIN inboxFilings :
                           /\ inboxFilings[n].item = i /\ inboxFilings[n].step = "done"
                           /\ \A m \in DOMAIN inboxFilings : m > n => inboxFilings[m].item # i
                           => /\ inboxRows[i].place = inboxFilings[n].place
                              /\ inboxRows[i].place.folder \in {inboxRows[i].place.loc, None}
    BY DEF InboxTrue, InboxPage!InboxTrue
  <2>1. inboxLoads[Len(inboxLoads)].step = "done"
    BY LastLoad DEF InboxInv, InboxPage!LoadsUnderWay
  <2>2. Leaving = {}
    BY DEF Leaving, InboxPage!FilingsUnderWay
  <2>3. Waiting = InboxPage!Unfiled
    BY DEF Waiting, InboxPage!Unfiled
  <2>4. /\ inboxShown = InboxPage!Unfiled
        /\ \A l \in Locs, i \in inboxShown : inboxLocations = {l} => inboxDrafts[i].loc = l
    BY <2>1, <2>2, <2>3 DEF InboxInv, RowsInv
  <2>5. \A n \in DOMAIN inboxFilings :
          inboxFilings[n].place.folder \in {inboxFilings[n].place.loc, None}
    BY DEF InboxInv, DraftsInv
  <2> QED BY <2>4, <2>5 DEF InboxInv, OrderInv
<1> QED BY <1>1, InboxAlways, PTL
================================================================================
