------------------------------- MODULE ItemPage -------------------------------
(***************************************************************************)
(* The page of one item (ItemDetailPage.tsx) against the API: edits that   *)
(* show their value at once and take it back when the request fails, tags  *)
(* that are written into the page after the answer, loads whose answers    *)
(* nothing orders.  /items/:itemId keeps its component when the user goes  *)
(* on to an attachment and back, so what is under way there lives on.      *)
(*                                                                         *)
(* A note and the photo attached to it; each field is a Boolean, of which  *)
(* an edit takes the negation.  Covered: requests and answers that are     *)
(* lost.  Not covered: edits from other devices.                           *)
(***************************************************************************)
EXTENDS Naturals, Sequences

CONSTANTS Note, Photo,  \* the item, its attachment
          Optimistic,   \* the fields shown before they are saved: "spot", "folder", "stamps"
          MaxLoads,     \* bound: loads in a visit
          MaxSaves      \* bound: saves in a visit

Fields == Optimistic \cup {"tags"}
Contents == [Fields -> BOOLEAN]
Nothing == [id |-> "none"]            \* item is null
Shown == [id : {Note, Photo}, vals : Contents]

VARIABLES itemRows,   \* the server's copies
          itemUrl,    \* useParams().itemId
          itemShown,  \* the state `item`
          itemLoads,  \* requests of the first effect, in the order they were sent
          itemSaves,  \* the request of each field, whose saving flag is on meanwhile
          itemSaved,  \* saves of this visit
          itemUpset   \* history: a load failed or crossed an edit, an answer was lost, or an
                      \* answer changed what it was not about

itemVars == <<itemRows, itemUrl, itemShown, itemLoads, itemSaves, itemSaved, itemUpset>>

NoSave == [step |-> "none"]
Load(i) == [item |-> i, step |-> "sent", vals |-> [f \in Fields |-> FALSE], crossed |-> FALSE]

Init == /\ itemRows = [i \in {Note, Photo} |-> [f \in Fields |-> FALSE]]
        /\ itemUrl = Note /\ itemShown = Nothing /\ itemLoads = <<Load(Note)>>
        /\ itemSaves = [f \in Fields |-> NoSave] /\ itemSaved = 0 /\ itemUpset = FALSE

Saving == {f \in Fields : itemSaves[f] # NoSave}
Sent(i) == {f \in Saving : itemSaves[f].step = "sent" /\ itemSaves[f].item = i}

-----------------------------------------------------------------------------
(* To the attachment (a note lists them), or back to the note. *)
Go(i) == /\ i # itemUrl /\ (i = Photo => itemShown.id = Note)
         /\ Len(itemLoads) < MaxLoads
         /\ itemUrl' = i
         /\ itemLoads' = Append(itemLoads, Load(i))
         /\ UNCHANGED <<itemRows, itemShown, itemSaves, itemSaved, itemUpset>>

LoadRead(n) ==
  LET i == itemLoads[n].item IN
  /\ itemLoads[n].step = "sent"
  /\ itemLoads' = [itemLoads EXCEPT ![n].step = "read", ![n].vals = itemRows[i],
                                    ![n].crossed = @ \/ Sent(i) # {}]
  /\ UNCHANGED <<itemRows, itemUrl, itemShown, itemSaves, itemSaved, itemUpset>>

(* The answer is shown whatever the page shows by then. *)
Loaded(n) ==
  LET load == itemLoads[n] IN
  /\ load.step = "read"
  /\ itemShown' = [id |-> load.item, vals |-> load.vals]
  /\ itemLoads' = [itemLoads EXCEPT ![n].step = "done"]
  /\ itemUpset' = (itemUpset \/ load.crossed \/ load.item # itemUrl)
  /\ UNCHANGED <<itemRows, itemUrl, itemSaves, itemSaved>>

LoadFails(n) == /\ itemLoads[n].step \in {"sent", "read"}
                /\ itemLoads' = [itemLoads EXCEPT ![n].step = "done"]
                /\ itemUpset' = TRUE
                /\ UNCHANGED <<itemRows, itemUrl, itemShown, itemSaves, itemSaved>>

-----------------------------------------------------------------------------
(* Saving a field: nothing else is sent for it until the answer, and it is sent *)
(* for the item that is shown.                                                  *)

StartSave(f, val) ==
  /\ itemShown # Nothing /\ f \notin Saving
  /\ itemSaved < MaxSaves /\ itemSaved' = itemSaved + 1
  /\ itemSaves' = [itemSaves EXCEPT ![f] = [step |-> "sent", item |-> itemShown.id, val |-> val,
                                            copy |-> itemShown]]
  /\ itemLoads' = [n \in DOMAIN itemLoads |->
                     [itemLoads[n] EXCEPT !.crossed = @ \/ itemLoads[n].item = itemShown.id]]
  /\ UNCHANGED <<itemRows, itemUrl, itemUpset>>

(* assignSpot, assignFolder, toggleStamp *)
Edit(f) == /\ f \in Optimistic
           /\ StartSave(f, ~itemShown.vals[f])
           /\ itemShown' = [itemShown EXCEPT !.vals[f] = ~@]

(* saveTags sends what the text field says. *)
SaveTags(val) == StartSave("tags", val) /\ UNCHANGED itemShown

SaveRuns(f) ==
  /\ f \in Saving /\ itemSaves[f].step = "sent"
  /\ itemRows' = [itemRows EXCEPT ![itemSaves[f].item][f] = itemSaves[f].val]
  /\ itemSaves' = [itemSaves EXCEPT ![f].step = "answered"]
  /\ UNCHANGED <<itemUrl, itemShown, itemLoads, itemSaved, itemUpset>>

(* The request is lost or refused; or it ran, and the answer is lost. *)
SaveLost(f) ==
  /\ f \in Saving /\ itemSaves[f].step \in {"sent", "answered"}
  /\ itemSaves' = [itemSaves EXCEPT ![f].step = "failed"]
  /\ itemUpset' = (itemUpset \/ itemSaves[f].step = "answered")
  /\ UNCHANGED <<itemRows, itemUrl, itemShown, itemLoads, itemSaved>>

(* saveTags puts back the whole item it was called with. *)
WrittenBack(f, save) ==
  IF f = "tags" THEN [save.copy EXCEPT !.vals["tags"] = save.val] ELSE itemShown

SaveAnswered(f) ==
  LET save == itemSaves[f] IN
  /\ f \in Saving /\ save.step = "answered"
  /\ itemShown' = WrittenBack(f, save)
  /\ itemUpset' = (itemUpset \/ (f = "tags" /\ itemShown # save.copy))
  /\ itemSaves' = [itemSaves EXCEPT ![f] = NoSave]
  /\ UNCHANGED <<itemRows, itemUrl, itemLoads, itemSaved>>

(* Mutant: a failure takes back the whole item, as it was at the click. *)
AllTakenBack(f, save) == IF f = "tags" THEN itemShown ELSE save.copy

(* A failure takes back its own field, on the item shown by then. *)
TakenBack(f, save) ==
  IF f = "tags" THEN itemShown ELSE [itemShown EXCEPT !.vals[f] = save.copy.vals[f]]

SaveFailed(f) ==
  LET save == itemSaves[f] IN
  /\ f \in Saving /\ save.step = "failed"
  /\ itemShown' = TakenBack(f, save)
  /\ itemUpset' = (itemUpset \/ (f \in Optimistic /\ itemShown.id # save.item))
  /\ itemSaves' = [itemSaves EXCEPT ![f] = NoSave]
  /\ UNCHANGED <<itemRows, itemUrl, itemLoads, itemSaved>>

-----------------------------------------------------------------------------
Next == \/ \E i \in {Note, Photo} : Go(i)
        \/ \E n \in DOMAIN itemLoads : LoadRead(n) \/ Loaded(n) \/ LoadFails(n)
        \/ \E f \in Fields : \/ Edit(f) \/ SaveRuns(f) \/ SaveLost(f)
                             \/ SaveAnswered(f) \/ SaveFailed(f)
        \/ \E val \in BOOLEAN : SaveTags(val)

TypeOK == /\ itemRows \in [{Note, Photo} -> Contents]
          /\ itemUrl \in {Note, Photo} /\ itemShown \in Shown \cup {Nothing}
          /\ Len(itemLoads) <= MaxLoads
          /\ \A n \in DOMAIN itemLoads :
               itemLoads[n] \in [item : {Note, Photo}, step : {"sent", "read", "done"},
                                 vals : Contents, crossed : BOOLEAN]
          /\ \A f \in Saving : /\ itemSaves[f].step \in {"sent", "answered", "failed"}
                               /\ itemSaves[f].copy \in Shown
                               /\ itemSaves[f].item = itemSaves[f].copy.id
          /\ itemSaved \in 0..MaxSaves /\ itemUpset \in BOOLEAN

(* Once its requests are answered the page shows the item of its URL as the    *)
(* server has it, however edits of different fields and their failures         *)
(* interleave, unless one of the answers was about another moment: saveTags    *)
(* wrote an older copy of the item over what had changed, a failure took a     *)
(* field back on another item, a load crossed an edit or arrived after the     *)
(* user went on, or a load or an answer was lost.                              *)
ScreenTrue ==
  Saving = {} /\ (\A n \in DOMAIN itemLoads : itemLoads[n].step = "done")
    => itemUpset \/ itemShown = [id |-> itemUrl, vals |-> itemRows[itemUrl]]
=============================================================================
