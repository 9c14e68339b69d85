---------------------------- MODULE AppServerProofs ----------------------------
(***************************************************************************)
(* Theorems about the pages of App that show the server's copy of what is  *)
(* changed on them: the page of an item and the team page.                 *)
(***************************************************************************)
EXTENDS AppProofs, AppListsProofs, FiniteSetTheorems

-----------------------------------------------------------------------------
(* The page of an item *)

Ids == {Note, Photo}
Contents == [Item!Fields -> BOOLEAN]
ItemShown == [id : Ids, vals : Contents]
ItemLoad == [item : Ids, step : {"sent", "read", "done"}, vals : Contents, crossed : BOOLEAN]
ItemSave == [step : {"sent", "answered", "failed"}, item : Ids, val : BOOLEAN, copy : ItemShown]

ItemTyped ==
  /\ itemRows \in [Ids -> Contents] /\ itemUrl \in Ids /\ itemShown \in ItemShown \cup {Item!Nothing}
  /\ itemLoads \in Seq(ItemLoad) /\ itemLoads # << >> /\ Len(itemLoads) <= MaxLoads
  /\ itemSaves \in [Item!Fields -> ItemSave \cup {Item!NoSave}]
  /\ itemSaved \in 0..MaxSaves /\ itemUpset \in BOOLEAN

(* A save is of the copy it was called with, which says what the server had; *)
(* what ran is what the server has.                                          *)
SavesInv ==
  \A f \in Item!Saving :
    LET save == itemSaves[f] IN
    /\ save.item = save.copy.id /\ itemShown # Item!Nothing
    /\ save.step = "answered" => itemRows[save.item][f] = save.val
    /\ save.step # "answered" /\ ~itemUpset => itemRows[save.item][f] = save.copy.vals[f]

(* A load that nothing crossed has the server's copy, with no save of it to run; *)
(* the last load is of the item in the URL, and once it is done that is shown.   *)
LoadsInv ==
  /\ \A n \in DOMAIN itemLoads :
       LET load == itemLoads[n] IN
       load.step = "read" /\ ~load.crossed => load.vals = itemRows[load.item] /\ Item!Sent(load.item) = {}
  /\ itemLoads[Len(itemLoads)].item = itemUrl
  /\ itemLoads[Len(itemLoads)].step = "done" /\ ~itemUpset =>
       itemShown # Item!Nothing /\ itemShown.id = itemUrl

(* A field shows what the server has, or what its own save will have made of it. *)
ShownInv ==
  itemShown # Item!Nothing /\ ~itemUpset =>
    \A f \in Item!Fields :
      LET save == itemSaves[f] IN
      IF f \in Item!Saving /\ save.item = itemShown.id
        THEN IF f = "tags"
          THEN save.step # "answered" => itemShown.vals[f] = itemRows[itemShown.id][f]
          ELSE save.step # "failed" => itemShown.vals[f] = save.val
        ELSE itemShown.vals[f] = itemRows[itemShown.id][f]

ItemInv == ItemTyped /\ SavesInv /\ LoadsInv /\ ShownInv

LEMMA NothingIsNoItem == \A item \in ItemShown : item # Item!Nothing
<1> SUFFICES ASSUME NEW item \in ItemShown, item = Item!Nothing PROVE FALSE
  OBVIOUS
<1>1. DOMAIN item = {"id", "vals"}
  BY DEF ItemShown
<1>2. DOMAIN item = {"id"}
  BY DEF Item!Nothing
<1> QED BY <1>1, <1>2

LEMMA ItemInit == Item!Init => ItemInv
<1> SUFFICES ASSUME Item!Init PROVE ItemInv
  OBVIOUS
<1> DEFINE off == [f \in Item!Fields |-> FALSE]
           load == [item |-> Note, step |-> "sent", vals |-> off, crossed |-> FALSE]
<1>1. /\ itemRows = [i \in Ids |-> off] /\ itemUrl = Note /\ itemShown = Item!Nothing /\ itemLoads = <<load>>
      /\ itemSaves = [f \in Item!Fields |-> Item!NoSave] /\ itemSaved = 0 /\ itemUpset = FALSE
  BY DEF Item!Init, Item!Load, Ids
<1>2. off \in Contents
  BY DEF Contents
<1> HIDE DEF off
<1>3. load \in ItemLoad /\ load.step = "sent" /\ load.item = Note
  BY <1>2 DEF ItemLoad, Ids
<1> HIDE DEF load
<1>4. /\ itemLoads \in Seq(ItemLoad) /\ itemLoads # << >> /\ Len(itemLoads) = 1 /\ DOMAIN itemLoads = {1}
      /\ itemLoads[1] = load
  BY <1>1, <1>3
<1>5. ItemTyped
  <2>1. Len(itemLoads) <= MaxLoads /\ 0 \in 0..MaxSaves
    BY <1>4, AppAssumption
  <2> QED BY <1>1, <1>2, <1>4, <2>1 DEF ItemTyped, Ids
<1>6. Item!Saving = {}
  BY <1>1 DEF Item!Saving
<1>7. SavesInv /\ LoadsInv /\ ShownInv
  BY <1>1, <1>3, <1>4, <1>6 DEF SavesInv, LoadsInv, ShownInv
<1> QED BY <1>5, <1>7 DEF ItemInv

LEMMA LastItemLoad ==
  ASSUME ItemTyped
  PROVE  /\ Len(itemLoads) \in Nat \ {0} /\ DOMAIN itemLoads = 1..Len(itemLoads)
         /\ Len(itemLoads) \in DOMAIN itemLoads
         /\ \A n \in DOMAIN itemLoads : itemLoads[n] \in ItemLoad
<1>1. itemLoads \in Seq(ItemLoad) /\ itemLoads # << >>
  BY DEF ItemTyped
<1> QED BY <1>1

LEMMA ItemLoadMoved ==
  ASSUME ItemTyped, NEW n \in DOMAIN itemLoads, NEW load \in ItemLoad,
         itemLoads' = [itemLoads EXCEPT ![n] = load]
  PROVE  /\ itemLoads' \in Seq(ItemLoad) /\ itemLoads' # << >> /\ Len(itemLoads') = Len(itemLoads)
         /\ DOMAIN itemLoads' = DOMAIN itemLoads /\ itemLoads'[n] = load
         /\ \A m \in DOMAIN itemLoads : m # n => itemLoads'[m] = itemLoads[m]
<1>1. itemLoads \in Seq(ItemLoad) /\ itemLoads # << >>
  BY DEF ItemTyped
<1> QED BY <1>1

(* While the saves, the rows and what is shown stay, only the loads matter. *)
LEMMA SavesElsewhere ==
  ASSUME ItemInv, UNCHANGED <<itemRows, itemShown, itemSaves>>, itemUpset => itemUpset'
  PROVE  SavesInv' /\ ShownInv'
<1>1. Item!Saving' = Item!Saving
  BY DEF Item!Saving
<1> QED BY <1>1 DEF ItemInv, SavesInv, ShownInv

LEMMA WentOn ==
  ASSUME ItemInv, NEW i \in Ids, Item!Go(i)
  PROVE  ItemInv'
<1> DEFINE load == [item |-> i, step |-> "sent", vals |-> [f \in Item!Fields |-> FALSE], crossed |-> FALSE]
<1>1. /\ Len(itemLoads) < MaxLoads /\ itemUrl' = i /\ itemLoads' = Append(itemLoads, load)
      /\ UNCHANGED <<itemRows, itemShown, itemSaves, itemSaved, itemUpset>>
  BY DEF Item!Go, Item!Load
<1>2. load \in ItemLoad /\ load.step = "sent" /\ load.item = i
  BY DEF ItemLoad, Contents
<1> HIDE DEF load
<1>3. itemLoads \in Seq(ItemLoad) /\ Len(itemLoads) \in Nat
  BY DEF ItemInv, ItemTyped
<1>4. /\ itemLoads' \in Seq(ItemLoad) /\ itemLoads' # << >> /\ Len(itemLoads') = Len(itemLoads) + 1
      /\ itemLoads'[Len(itemLoads')] = load
      /\ \A n \in DOMAIN itemLoads' :
           n = Len(itemLoads') \/ (n \in DOMAIN itemLoads /\ itemLoads'[n] = itemLoads[n])
  BY <1>1, <1>2, <1>3
<1>5. ItemTyped'
  BY <1>1, <1>3, <1>4, AppAssumption DEF ItemInv, ItemTyped
<1>6. \A j : Item!Sent(j)' = Item!Sent(j)
  BY <1>1 DEF Item!Sent, Item!Saving
<1>7. LoadsInv'
  <2>1. ASSUME NEW n \in DOMAIN itemLoads', itemLoads'[n].step = "read", ~itemLoads'[n].crossed
        PROVE  itemLoads'[n].vals = itemRows[itemLoads'[n].item] /\ Item!Sent(itemLoads'[n].item) = {}
    <3>1. n \in DOMAIN itemLoads /\ itemLoads'[n] = itemLoads[n]
      BY <1>2, <1>4, <2>1
    <3> QED BY <2>1, <3>1 DEF ItemInv, LoadsInv
  <2> QED BY <1>1, <1>2, <1>4, <1>6, <2>1 DEF LoadsInv
<1> QED BY <1>1, <1>5, <1>7, SavesElsewhere DEF ItemInv

LEMMA ItemRead ==
  ASSUME ItemInv, NEW n \in DOMAIN itemLoads, Item!LoadRead(n)
  PROVE  ItemInv'
<1> DEFINE i == itemLoads[n].item
           load == [itemLoads[n] EXCEPT !.step = "read", !.vals = itemRows[i],
                                        !.crossed = itemLoads[n].crossed \/ Item!Sent(i) # {}]
<1>1. itemLoads[n] \in ItemLoad /\ i \in Ids /\ itemRows[i] \in Contents
  <2>1. itemLoads[n] \in ItemLoad
    BY LastItemLoad DEF ItemInv
  <2> QED BY <2>1 DEF ItemLoad, ItemInv, ItemTyped
<1>2. /\ load \in ItemLoad /\ load.item = i /\ load.step = "read" /\ load.vals = itemRows[i]
      /\ ~load.crossed => Item!Sent(i) = {}
  <2>1. (itemLoads[n].crossed \/ Item!Sent(i) # {}) \in BOOLEAN
    OBVIOUS
  <2> QED BY <1>1, <2>1 DEF ItemLoad
<1>3. /\ itemLoads[n].step = "sent" /\ itemLoads' = [itemLoads EXCEPT ![n] = load]
      /\ UNCHANGED <<itemRows, itemUrl, itemShown, itemSaves, itemSaved, itemUpset>>
  BY DEF Item!LoadRead
<1> HIDE DEF load
<1>4. /\ itemLoads' \in Seq(ItemLoad) /\ itemLoads' # << >> /\ Len(itemLoads') = Len(itemLoads)
      /\ DOMAIN itemLoads' = DOMAIN itemLoads /\ itemLoads'[n] = load
      /\ \A m \in DOMAIN itemLoads : m # n => itemLoads'[m] = itemLoads[m]
  BY <1>2, <1>3, ItemLoadMoved DEF ItemInv
<1>5. ItemTyped'
  BY <1>3, <1>4 DEF ItemInv, ItemTyped
<1>6. \A j : Item!Sent(j)' = Item!Sent(j)
  BY <1>3 DEF Item!Sent, Item!Saving
<1>7. LoadsInv'
  <2>1. ASSUME NEW m \in DOMAIN itemLoads, itemLoads'[m].step = "read", ~itemLoads'[m].crossed
        PROVE  itemLoads'[m].vals = itemRows[itemLoads'[m].item] /\ Item!Sent(itemLoads'[m].item) = {}
    BY <1>2, <1>4, <2>1 DEF ItemInv, LoadsInv
  <2>2. /\ itemLoads'[Len(itemLoads)].item = itemLoads[Len(itemLoads)].item
        /\ itemLoads'[Len(itemLoads)].step = "done" => itemLoads[Len(itemLoads)].step = "done"
    BY <1>2, <1>4, LastItemLoad DEF ItemInv
  <2> QED BY <1>3, <1>4, <1>6, <2>1, <2>2 DEF ItemInv, LoadsInv
<1> QED BY <1>3, <1>5, <1>7, SavesElsewhere DEF ItemInv

(* A load ends: no load begins to hold anything. *)
LEMMA ItemLoadEnds ==
  ASSUME ItemInv, NEW n \in DOMAIN itemLoads,
         itemLoads' = [itemLoads EXCEPT ![n].step = "done"],
         UNCHANGED <<itemRows, itemUrl, itemSaves, itemSaved>>,
         itemShown' \in ItemShown \cup {Item!Nothing}, itemUpset' \in BOOLEAN, itemUpset => itemUpset',
         ~itemUpset' => itemShown' # Item!Nothing /\ itemShown'.id = itemUrl
  PROVE  ItemTyped' /\ LoadsInv'
<1> DEFINE load == [itemLoads[n] EXCEPT !.step = "done"]
<1>1. itemLoads[n] \in ItemLoad
  BY LastItemLoad DEF ItemInv
<1>2. load \in ItemLoad /\ load.item = itemLoads[n].item /\ load.step = "done"
  BY <1>1 DEF ItemLoad
<1>3. itemLoads' = [itemLoads EXCEPT ![n] = load]
  OBVIOUS
<1> HIDE DEF load
<1>4. /\ itemLoads' \in Seq(ItemLoad) /\ itemLoads' # << >> /\ Len(itemLoads') = Len(itemLoads)
      /\ DOMAIN itemLoads' = DOMAIN itemLoads /\ itemLoads'[n] = load
      /\ \A m \in DOMAIN itemLoads : m # n => itemLoads'[m] = itemLoads[m]
  BY <1>2, <1>3, ItemLoadMoved DEF ItemInv
<1>5. ItemTyped'
  BY <1>4 DEF ItemInv, ItemTyped
<1>6. \A j : Item!Sent(j)' = Item!Sent(j)
  BY DEF Item!Sent, Item!Saving
<1>7. LoadsInv'
  <2>1. ASSUME NEW m \in DOMAIN itemLoads, itemLoads'[m].step = "read", ~itemLoads'[m].crossed
        PROVE  itemLoads'[m].vals = itemRows[itemLoads'[m].item] /\ Item!Sent(itemLoads'[m].item) = {}
    BY <1>2, <1>4, <2>1 DEF ItemInv, LoadsInv
  <2>2. itemLoads'[Len(itemLoads)].item = itemLoads[Len(itemLoads)].item
    BY <1>2, <1>4, LastItemLoad DEF ItemInv
  <2> QED BY <1>4, <1>6, <2>1, <2>2 DEF ItemInv, LoadsInv
<1> QED BY <1>5, <1>7

LEMMA ItemAnswered ==
  ASSUME ItemInv, NEW n \in DOMAIN itemLoads, Item!Loaded(n)
  PROVE  ItemInv'
<1> DEFINE load == itemLoads[n]
           item == [id |-> load.item, vals |-> load.vals]
<1>1. load \in ItemLoad /\ load.item \in Ids
  <2>1. load \in ItemLoad
    BY LastItemLoad DEF ItemInv
  <2> QED BY <2>1 DEF ItemLoad
<1>2. item \in ItemShown /\ item.id = load.item /\ item.vals = load.vals /\ item # Item!Nothing
  <2>1. item \in ItemShown /\ item.id = load.item /\ item.vals = load.vals
    BY <1>1 DEF ItemShown, ItemLoad
  <2> HIDE DEF item
  <2> QED BY <2>1, NothingIsNoItem
<1>3. /\ load.step = "read" /\ itemShown' = item /\ itemLoads' = [itemLoads EXCEPT ![n].step = "done"]
      /\ itemUpset' = (itemUpset \/ load.crossed \/ load.item # itemUrl)
      /\ UNCHANGED <<itemRows, itemUrl, itemSaves, itemSaved>>
  BY DEF Item!Loaded
<1> HIDE DEF item
<1>4. itemUpset' \in BOOLEAN
  BY <1>1, <1>3 DEF ItemLoad, ItemInv, ItemTyped
<1>5. ItemTyped' /\ LoadsInv'
  BY <1>2, <1>3, <1>4, ItemLoadEnds
<1>6. Item!Saving' = Item!Saving
  BY <1>3 DEF Item!Saving
<1>7. SavesInv'
  BY <1>2, <1>3, <1>6 DEF ItemInv, SavesInv
<1>8. ShownInv'
  <2> SUFFICES ASSUME ~itemUpset', NEW f \in Item!Fields
               PROVE  IF f \in Item!Saving /\ itemSaves[f].item = item.id
                        THEN IF f = "tags"
                          THEN itemSaves[f].step # "answered" => item.vals[f] = itemRows[item.id][f]
                          ELSE itemSaves[f].step # "failed" => item.vals[f] = itemSaves[f].val
                        ELSE item.vals[f] = itemRows[item.id][f]
    BY <1>3, <1>6 DEF ShownInv
  <2>1. ~load.crossed /\ item.vals = itemRows[item.id] /\ Item!Sent(item.id) = {}
    BY <1>2, <1>3 DEF ItemInv, LoadsInv
  <2>2. ASSUME f \in Item!Saving, itemSaves[f].item = item.id
        PROVE  itemSaves[f].step # "failed" => itemRows[item.id][f] = itemSaves[f].val
    <3>1. itemSaves[f].step # "sent"
      BY <2>1, <2>2 DEF Item!Sent
    <3>2. itemSaves[f] \in ItemSave
      BY <2>2 DEF ItemInv, ItemTyped, Item!Saving
    <3>3. itemSaves[f].step \in {"answered", "failed"}
      BY <3>1, <3>2 DEF ItemSave
    <3> QED BY <2>2, <3>3 DEF ItemInv, SavesInv
  <2> QED BY <2>1, <2>2
<1> QED BY <1>5, <1>7, <1>8 DEF ItemInv

LEMMA ItemLost ==
  ASSUME ItemInv, NEW n \in DOMAIN itemLoads, Item!LoadFails(n)
  PROVE  ItemInv'
<1>1. /\ itemLoads' = [itemLoads EXCEPT ![n].step = "done"] /\ itemUpset' = TRUE
      /\ UNCHANGED <<itemRows, itemUrl, itemShown, itemSaves, itemSaved>>
  BY DEF Item!LoadFails
<1>2. itemShown' \in ItemShown \cup {Item!Nothing}
  BY <1>1 DEF ItemInv, ItemTyped
<1>3. ItemTyped' /\ LoadsInv'
  BY <1>1, <1>2, ItemLoadEnds
<1> QED BY <1>1, <1>3, SavesElsewhere DEF ItemInv

LEMMA SaveMoved ==
  ASSUME ItemTyped, NEW f \in Item!Fields, NEW save \in ItemSave \cup {Item!NoSave},
         itemSaves' = [itemSaves EXCEPT ![f] = save]
  PROVE  /\ itemSaves' \in [Item!Fields -> ItemSave \cup {Item!NoSave}] /\ itemSaves'[f] = save
         /\ \A g \in Item!Fields : g # f => itemSaves'[g] = itemSaves[g]
         /\ \A g \in Item!Fields : g # f => (g \in Item!Saving' <=> g \in Item!Saving)
         /\ f \in Item!Saving' <=> save \in ItemSave
<1>1. itemSaves \in [Item!Fields -> ItemSave \cup {Item!NoSave}]
  BY DEF ItemTyped
<1>2. save \in ItemSave => save # Item!NoSave
  BY DEF ItemSave, Item!NoSave
<1> QED BY <1>1, <1>2 DEF Item!Saving

LEMMA SaveOf ==
  ASSUME ItemTyped, NEW f \in Item!Saving
  PROVE  /\ f \in Item!Fields /\ itemSaves[f] \in ItemSave /\ itemSaves[f].val \in BOOLEAN
         /\ itemSaves[f].step \in {"sent", "answered", "failed"} /\ itemSaves[f].item \in Ids
         /\ itemSaves[f].copy \in ItemShown
<1>1. f \in Item!Fields /\ itemSaves[f] \in ItemSave
  BY DEF ItemTyped, Item!Saving
<1> QED BY <1>1 DEF ItemSave

(* A field that nothing is sent for shows what the server has, so that is what *)
(* the copy has too.                                                           *)
LEMMA SaveStarted ==
  ASSUME ItemInv, NEW f \in Item!Fields, NEW val \in BOOLEAN, Item!StartSave(f, val),
         itemShown' \in ItemShown, itemShown'.id = itemShown.id,
         \A g \in Item!Fields : g # f => itemShown'.vals[g] = itemShown.vals[g],
         itemShown'.vals[f] = IF f = "tags" THEN itemShown.vals[f] ELSE val
  PROVE  ItemInv'
<1> DEFINE save == [step |-> "sent", item |-> itemShown.id, val |-> val, copy |-> itemShown]
           load(n) == [itemLoads[n] EXCEPT !.crossed = itemLoads[n].crossed \/ itemLoads[n].item = itemShown.id]
<1>1. /\ itemShown # Item!Nothing /\ f \notin Item!Saving /\ itemSaved < MaxSaves /\ itemSaved' = itemSaved + 1
      /\ itemSaves' = [itemSaves EXCEPT ![f] = save]
      /\ itemLoads' = [n \in DOMAIN itemLoads |-> load(n)]
      /\ UNCHANGED <<itemRows, itemUrl, itemUpset>>
  BY DEF Item!StartSave
<1>2. itemShown \in ItemShown /\ itemShown.id \in Ids /\ itemShown' # Item!Nothing
  BY <1>1, NothingIsNoItem DEF ItemInv, ItemTyped, ItemShown
<1>3. /\ save \in ItemSave /\ save.step = "sent" /\ save.item = itemShown.id /\ save.val = val
      /\ save.copy = itemShown
  BY <1>2 DEF ItemSave
<1>4. ASSUME NEW n \in DOMAIN itemLoads
      PROVE  /\ load(n) \in ItemLoad /\ load(n).item = itemLoads[n].item /\ load(n).step = itemLoads[n].step
             /\ load(n).vals = itemLoads[n].vals
             /\ ~load(n).crossed => ~itemLoads[n].crossed /\ itemLoads[n].item # itemShown.id
  <2>1. itemLoads[n] \in ItemLoad
    BY LastItemLoad DEF ItemInv
  <2>2. (itemLoads[n].crossed \/ itemLoads[n].item = itemShown.id) \in BOOLEAN
    OBVIOUS
  <2> QED BY <2>1, <2>2 DEF ItemLoad
<1> HIDE DEF save, load
<1>5. /\ itemSaves' \in [Item!Fields -> ItemSave \cup {Item!NoSave}] /\ itemSaves'[f] = save
      /\ \A g \in Item!Fields : g # f => itemSaves'[g] = itemSaves[g]
      /\ \A g \in Item!Fields : g # f => (g \in Item!Saving' <=> g \in Item!Saving)
      /\ f \in Item!Saving'
  BY <1>1, <1>3, SaveMoved DEF ItemInv
<1>6. /\ itemLoads' \in Seq(ItemLoad) /\ itemLoads' # << >> /\ Len(itemLoads') = Len(itemLoads)
      /\ DOMAIN itemLoads' = DOMAIN itemLoads /\ \A n \in DOMAIN itemLoads : itemLoads'[n] = load(n)
  <2>1. itemLoads \in Seq(ItemLoad) /\ DOMAIN itemLoads = 1..Len(itemLoads) /\ Len(itemLoads) \in Nat \ {0}
    BY LastItemLoad DEF ItemInv, ItemTyped
  <2> QED BY <1>1, <1>4, <2>1
<1>7. ItemTyped'
  <2>1. itemSaved' \in 0..MaxSaves
    BY <1>1, AppAssumption DEF ItemInv, ItemTyped
  <2> QED BY <1>1, <1>5, <1>6, <2>1 DEF ItemInv, ItemTyped
<1>8. ~itemUpset => itemShown.vals[f] = itemRows[itemShown.id][f]
  BY <1>1 DEF ItemInv, ShownInv
<1>9. SavesInv'
  <2> SUFFICES ASSUME NEW g \in Item!Saving'
               PROVE  /\ itemSaves'[g].item = itemSaves'[g].copy.id
                      /\ itemSaves'[g].step = "answered" => itemRows[itemSaves'[g].item][g] = itemSaves'[g].val
                      /\ itemSaves'[g].step # "answered" /\ ~itemUpset =>
                           itemRows[itemSaves'[g].item][g] = itemSaves'[g].copy.vals[g]
    BY <1>1, <1>2 DEF SavesInv
  <2>1. CASE g = f
    BY <1>3, <1>5, <1>8, <2>1
  <2>2. CASE g # f
    <3>1. g \in Item!Fields
      BY DEF Item!Saving
    <3>2. g \in Item!Saving /\ itemSaves'[g] = itemSaves[g]
      BY <1>5, <2>2, <3>1
    <3> QED BY <3>2 DEF ItemInv, SavesInv
  <2> QED BY <2>1, <2>2
<1>10. LoadsInv'
  <2>1. ASSUME NEW n \in DOMAIN itemLoads, itemLoads'[n].step = "read", ~itemLoads'[n].crossed
        PROVE  /\ itemLoads'[n].vals = itemRows[itemLoads'[n].item]
               /\ \A g \in Item!Saving' :
                    itemSaves'[g].step = "sent" => itemSaves'[g].item # itemLoads'[n].item
    <3>1. /\ itemLoads'[n].item = itemLoads[n].item /\ itemLoads'[n].vals = itemLoads[n].vals
          /\ itemLoads[n].step = "read" /\ ~itemLoads[n].crossed /\ itemLoads[n].item # itemShown.id
      BY <1>4, <1>6, <2>1
    <3>2. itemLoads[n].vals = itemRows[itemLoads[n].item] /\ Item!Sent(itemLoads[n].item) = {}
      BY <3>1 DEF ItemInv, LoadsInv
    <3>3. ASSUME NEW g \in Item!Saving', itemSaves'[g].step = "sent"
          PROVE  itemSaves'[g].item # itemLoads[n].item
      <4>1. CASE g = f
        BY <1>3, <1>5, <3>1, <4>1
      <4>2. CASE g # f
        <5>1. g \in Item!Fields
          BY DEF Item!Saving
        <5>2. g \in Item!Saving /\ itemSaves'[g] = itemSaves[g]
          BY <1>5, <4>2, <5>1
        <5> QED BY <3>2, <3>3, <5>2 DEF Item!Sent
      <4> QED BY <4>1, <4>2
    <3> QED BY <3>1, <3>2, <3>3
  <2>2. /\ itemLoads'[Len(itemLoads)].item = itemLoads[Len(itemLoads)].item
        /\ itemLoads'[Len(itemLoads)].step = itemLoads[Len(itemLoads)].step
    BY <1>4, <1>6, LastItemLoad DEF ItemInv
  <2> QED BY <1>1, <1>2, <1>6, <2>1, <2>2 DEF ItemInv, LoadsInv, Item!Sent
<1>11. ShownInv'
  <2> SUFFICES ASSUME ~itemUpset, NEW g \in Item!Fields
               PROVE  IF g \in Item!Saving' /\ itemSaves'[g].item = itemShown.id
                        THEN IF g = "tags"
                          THEN itemSaves'[g].step # "answered" => itemShown'.vals[g] = itemRows[itemShown.id][g]
                          ELSE itemSaves'[g].step # "failed" => itemShown'.vals[g] = itemSaves'[g].val
                        ELSE itemShown'.vals[g] = itemRows[itemShown.id][g]
    BY <1>1 DEF ShownInv
  <2>1. CASE g = f
    BY <1>3, <1>5, <1>8, <2>1
  <2>2. CASE g # f
    BY <1>1, <1>5, <2>2 DEF ItemInv, ShownInv
  <2> QED BY <2>1, <2>2
<1> QED BY <1>7, <1>9, <1>10, <1>11 DEF ItemInv

LEMMA ItemEdited ==
  ASSUME ItemInv, (\E f \in Item!Fields : Item!Edit(f)) \/ (\E val \in BOOLEAN : Item!SaveTags(val))
  PROVE  ItemInv'
<1>1. itemShown # Item!Nothing => itemShown \in ItemShown
  BY DEF ItemInv, ItemTyped
<1>2. ASSUME NEW f \in Item!Fields, Item!Edit(f) PROVE ItemInv'
  <2> DEFINE val == ~itemShown.vals[f]
             vals == [itemShown.vals EXCEPT ![f] = val]
  <2>1. /\ f \in Optimistic /\ Item!StartSave(f, val) /\ itemShown \in ItemShown
        /\ itemShown' = [itemShown EXCEPT !.vals[f] = val]
    BY <1>1, <1>2 DEF Item!Edit, Item!StartSave
  <2>2. val \in BOOLEAN /\ itemShown.vals \in Contents
    BY <2>1 DEF ItemShown
  <2> HIDE DEF val
  <2>3. vals \in Contents /\ vals[f] = val /\ \A g \in Item!Fields : g # f => vals[g] = itemShown.vals[g]
    BY <2>2 DEF Contents
  <2>4. itemShown' = [itemShown EXCEPT !.vals = vals]
    BY <2>1
  <2> HIDE DEF vals
  <2>5. itemShown' \in ItemShown /\ itemShown'.id = itemShown.id /\ itemShown'.vals = vals
    BY <2>1, <2>3, <2>4 DEF ItemShown
  <2>6. f # "tags"
    BY <2>1, AppAssumption
  <2> QED BY <2>1, <2>2, <2>3, <2>5, <2>6, SaveStarted
<1>3. ASSUME NEW val \in BOOLEAN, Item!SaveTags(val) PROVE ItemInv'
  <2>1. Item!StartSave("tags", val) /\ itemShown' = itemShown /\ itemShown \in ItemShown
    BY <1>1, <1>3 DEF Item!SaveTags, Item!StartSave
  <2>2. "tags" \in Item!Fields
    BY DEF Item!Fields
  <2> QED BY <2>1, <2>2, SaveStarted
<1> QED BY <1>2, <1>3

(* The loads stay, and no save is sent but those that were. *)
LEMMA LoadsStay ==
  ASSUME ItemInv, itemLoads' = itemLoads, itemUrl' = itemUrl,
         \A g \in Item!Saving' : itemSaves'[g].step = "sent" =>
           g \in Item!Saving /\ itemSaves[g].step = "sent" /\ itemSaves'[g].item = itemSaves[g].item,
         \A j \in Ids : Item!Sent(j) = {} => itemRows'[j] = itemRows[j],
         itemUpset => itemUpset',
         ~itemUpset' /\ itemShown # Item!Nothing => itemShown' # Item!Nothing /\ itemShown'.id = itemShown.id
  PROVE  LoadsInv'
<1>1. ASSUME NEW n \in DOMAIN itemLoads, itemLoads[n].step = "read", ~itemLoads[n].crossed
      PROVE  /\ itemLoads[n].vals = itemRows'[itemLoads[n].item]
             /\ \A g \in Item!Saving' :
                  itemSaves'[g].step = "sent" => itemSaves'[g].item # itemLoads[n].item
  <2>1. itemLoads[n].vals = itemRows[itemLoads[n].item] /\ Item!Sent(itemLoads[n].item) = {}
    BY <1>1 DEF ItemInv, LoadsInv
  <2>2. itemLoads[n] \in ItemLoad
    BY LastItemLoad DEF ItemInv
  <2>3. itemLoads[n].item \in Ids
    BY <2>2 DEF ItemLoad
  <2> QED BY <2>1, <2>3 DEF Item!Sent
<1>2. /\ itemLoads[Len(itemLoads)].item = itemUrl
      /\ itemLoads[Len(itemLoads)].step = "done" /\ ~itemUpset' => itemShown' # Item!Nothing /\ itemShown'.id = itemUrl
  BY DEF ItemInv, LoadsInv
<1> QED BY <1>1, <1>2 DEF LoadsInv, Item!Sent

LEMMA SaveRan ==
  ASSUME ItemInv, NEW f \in Item!Fields, Item!SaveRuns(f)
  PROVE  ItemInv'
<1> DEFINE save == itemSaves[f]
           ran == [save EXCEPT !.step = "answered"]
           vals == [itemRows[save.item] EXCEPT ![f] = save.val]
<1>1. /\ f \in Item!Saving /\ save.step = "sent"
      /\ itemRows' = [itemRows EXCEPT ![save.item] = vals] /\ itemSaves' = [itemSaves EXCEPT ![f] = ran]
      /\ UNCHANGED <<itemUrl, itemShown, itemLoads, itemSaved, itemUpset>>
  BY DEF Item!SaveRuns
<1>2. save \in ItemSave /\ save.val \in BOOLEAN /\ save.item \in Ids
  BY <1>1, SaveOf DEF ItemInv
<1>3. /\ ran \in ItemSave /\ ran.step = "answered" /\ ran.item = save.item /\ ran.val = save.val
      /\ ran.copy = save.copy
  BY <1>2 DEF ItemSave
<1>4. itemRows \in [Ids -> Contents] /\ itemRows[save.item] \in Contents
  BY <1>2 DEF ItemInv, ItemTyped
<1>5. /\ vals \in Contents /\ vals[f] = save.val
      /\ \A g \in Item!Fields : g # f => vals[g] = itemRows[save.item][g]
  BY <1>2, <1>4 DEF Contents
<1> HIDE DEF ran, vals
<1>6. /\ itemRows' \in [Ids -> Contents] /\ itemRows'[save.item] = vals
      /\ \A j \in Ids : j # save.item => itemRows'[j] = itemRows[j]
  BY <1>1, <1>2, <1>4, <1>5
<1>7. /\ itemSaves' \in [Item!Fields -> ItemSave \cup {Item!NoSave}] /\ itemSaves'[f] = ran
      /\ \A g \in Item!Fields : g # f => itemSaves'[g] = itemSaves[g]
      /\ \A g \in Item!Fields : g \in Item!Saving' <=> g \in Item!Saving
  BY <1>1, <1>3, SaveMoved DEF ItemInv
<1>8. \A g \in Item!Saving' : g \in Item!Saving /\ g \in Item!Fields
  BY <1>7 DEF Item!Saving
<1>9. \A g \in Item!Fields, j \in Ids : g # f => itemRows'[j][g] = itemRows[j][g]
  BY <1>5, <1>6
<1>10. ItemTyped'
  BY <1>1, <1>6, <1>7 DEF ItemInv, ItemTyped
<1>11. SavesInv'
  <2> SUFFICES ASSUME NEW g \in Item!Saving
               PROVE  /\ itemSaves'[g].item = itemSaves'[g].copy.id /\ itemShown # Item!Nothing
                      /\ itemSaves'[g].step = "answered" => itemRows'[itemSaves'[g].item][g] = itemSaves'[g].val
                      /\ itemSaves'[g].step # "answered" /\ ~itemUpset =>
                           itemRows'[itemSaves'[g].item][g] = itemSaves'[g].copy.vals[g]
    BY <1>1, <1>8 DEF SavesInv
  <2>1. itemSaves[g].item = itemSaves[g].copy.id /\ itemShown # Item!Nothing
    BY DEF ItemInv, SavesInv
  <2>2. CASE g = f
    BY <1>3, <1>5, <1>6, <1>7, <2>1, <2>2
  <2>3. CASE g # f
    <3>1. g \in Item!Fields /\ itemSaves[g].item \in Ids
      BY SaveOf DEF ItemInv
    <3>2. itemSaves'[g] = itemSaves[g] /\ itemRows'[itemSaves[g].item][g] = itemRows[itemSaves[g].item][g]
      BY <1>7, <1>9, <2>3, <3>1
    <3> QED BY <3>2 DEF ItemInv, SavesInv
  <2> QED BY <2>2, <2>3
<1>12. LoadsInv'
  <2>1. \A g \in Item!Saving' : itemSaves'[g].step = "sent" =>
          g \in Item!Saving /\ itemSaves[g].step = "sent" /\ itemSaves'[g].item = itemSaves[g].item
    BY <1>3, <1>7, <1>8
  <2>2. \A j \in Ids : Item!Sent(j) = {} => itemRows'[j] = itemRows[j]
    BY <1>1, <1>6 DEF Item!Sent
  <2> QED BY <1>1, <2>1, <2>2, LoadsStay
<1>13. ShownInv'
  <2> SUFFICES ASSUME itemShown # Item!Nothing, ~itemUpset, NEW g \in Item!Fields
               PROVE  IF g \in Item!Saving /\ itemSaves'[g].item = itemShown.id
                        THEN IF g = "tags"
                          THEN itemSaves'[g].step # "answered" => itemShown.vals[g] = itemRows'[itemShown.id][g]
                          ELSE itemSaves'[g].step # "failed" => itemShown.vals[g] = itemSaves'[g].val
                        ELSE itemShown.vals[g] = itemRows'[itemShown.id][g]
    BY <1>1, <1>7 DEF ShownInv
  <2>1. itemShown.id \in Ids
    BY DEF ItemInv, ItemTyped, ItemShown
  <2>2. CASE g = f
    <3>1. CASE save.item = itemShown.id
      BY <1>1, <1>3, <1>7, <2>2, <3>1 DEF ItemInv, ShownInv
    <3>2. CASE save.item # itemShown.id
      <4>1. itemShown.vals[g] = itemRows[itemShown.id][g]
        BY <2>2, <3>2 DEF ItemInv, ShownInv
      <4> QED BY <1>3, <1>6, <1>7, <2>1, <2>2, <3>2, <4>1
    <3> QED BY <3>1, <3>2
  <2>3. CASE g # f
    BY <1>7, <1>9, <2>1, <2>3 DEF ItemInv, ShownInv
  <2> QED BY <2>2, <2>3
<1> QED BY <1>10, <1>11, <1>12, <1>13 DEF ItemInv

LEMMA SaveWasLost ==
  ASSUME ItemInv, NEW f \in Item!Fields, Item!SaveLost(f)
  PROVE  ItemInv'
<1> DEFINE save == itemSaves[f]
           lost == [save EXCEPT !.step = "failed"]
<1>1. /\ f \in Item!Saving /\ save.step \in {"sent", "answered"} /\ itemSaves' = [itemSaves EXCEPT ![f] = lost]
      /\ itemUpset' = (itemUpset \/ save.step = "answered")
      /\ UNCHANGED <<itemRows, itemUrl, itemShown, itemLoads, itemSaved>>
  BY DEF Item!SaveLost
<1>2. save \in ItemSave
  BY <1>1, SaveOf DEF ItemInv
<1>3. /\ lost \in ItemSave /\ lost.step = "failed" /\ lost.item = save.item /\ lost.val = save.val
      /\ lost.copy = save.copy
  BY <1>2 DEF ItemSave
<1> HIDE DEF lost
<1>4. /\ itemSaves' \in [Item!Fields -> ItemSave \cup {Item!NoSave}] /\ itemSaves'[f] = lost
      /\ \A g \in Item!Fields : g # f => itemSaves'[g] = itemSaves[g]
      /\ \A g \in Item!Fields : g \in Item!Saving' <=> g \in Item!Saving
  BY <1>1, <1>3, SaveMoved DEF ItemInv
<1>5. \A g \in Item!Saving' : g \in Item!Saving /\ g \in Item!Fields
  BY <1>4 DEF Item!Saving
<1>6. ItemTyped'
  BY <1>1, <1>4 DEF ItemInv, ItemTyped
<1>7. SavesInv'
  BY <1>1, <1>3, <1>4, <1>5 DEF ItemInv, SavesInv
<1>8. LoadsInv'
  <2>1. \A g \in Item!Saving' : itemSaves'[g].step = "sent" =>
          g \in Item!Saving /\ itemSaves[g].step = "sent" /\ itemSaves'[g].item = itemSaves[g].item
    BY <1>3, <1>4, <1>5
  <2> QED BY <1>1, <2>1, LoadsStay
<1>9. ShownInv'
  BY <1>1, <1>3, <1>4 DEF ItemInv, ShownInv
<1> QED BY <1>6, <1>7, <1>8, <1>9 DEF ItemInv

(* The answer or the failure of a save puts its own field right, and touches no *)
(* other unless something was upset.                                            *)
LEMMA SaveEnded ==
  ASSUME ItemInv, NEW f \in Item!Fields, Item!SaveAnswered(f) \/ Item!SaveFailed(f)
  PROVE  ItemInv'
<1> DEFINE save == itemSaves[f]
<1>1. /\ f \in Item!Saving /\ itemSaves' = [itemSaves EXCEPT ![f] = Item!NoSave]
      /\ UNCHANGED <<itemRows, itemUrl, itemLoads, itemSaved>>
  BY DEF Item!SaveAnswered, Item!SaveFailed
<1>2. /\ save \in ItemSave /\ save.copy \in ItemShown /\ save.val \in BOOLEAN /\ save.item = save.copy.id
      /\ save.copy.vals \in Contents
  BY <1>1, SaveOf DEF ItemInv, SavesInv, ItemShown
<1>3. itemShown \in ItemShown /\ itemShown.vals \in Contents /\ itemShown.id \in Ids
  BY <1>1 DEF ItemInv, SavesInv, ItemTyped, ItemShown
<1>4. /\ itemShown' \in ItemShown /\ itemUpset' \in BOOLEAN /\ (itemUpset => itemUpset')
      /\ ~itemUpset' =>
           /\ itemShown'.id = itemShown.id /\ itemShown'.vals[f] = itemRows[itemShown.id][f]
           /\ \A g \in Item!Fields : g # f => itemShown'.vals[g] = itemShown.vals[g]
  <2>1. f \in Item!Fields /\ f # "tags" => f \in Optimistic
    BY DEF Item!Fields
  <2>2. CASE f = "tags" /\ Item!SaveAnswered(f)
    <3> DEFINE vals == [save.copy.vals EXCEPT ![f] = save.val]
    <3>1. vals \in Contents /\ vals[f] = save.val /\ \A g \in Item!Fields : g # f => vals[g] = save.copy.vals[g]
      BY <1>2 DEF Contents
    <3>2. /\ itemShown' = [save.copy EXCEPT !.vals = vals] /\ save.step = "answered"
          /\ itemUpset' = (itemUpset \/ itemShown # save.copy)
      BY <2>2 DEF Item!SaveAnswered, Item!WrittenBack
    <3> HIDE DEF vals
    <3>3. itemShown' \in ItemShown /\ itemShown'.id = save.copy.id /\ itemShown'.vals = vals
      BY <1>2, <3>1, <3>2 DEF ItemShown
    <3>4. itemRows[save.item][f] = save.val
      BY <1>1, <3>2 DEF ItemInv, SavesInv
    <3>5. itemUpset' \in BOOLEAN
      BY <3>2 DEF ItemInv, ItemTyped
    <3> QED BY <1>2, <3>1, <3>2, <3>3, <3>4, <3>5
  <2>3. CASE f # "tags" /\ Item!SaveAnswered(f)
    <3>1. itemShown' = itemShown /\ save.step = "answered" /\ itemUpset' = itemUpset
      BY <2>3 DEF Item!SaveAnswered, Item!WrittenBack, ItemInv, ItemTyped
    <3>2. itemRows[save.item][f] = save.val
      BY <1>1, <3>1 DEF ItemInv, SavesInv
    <3>3. ~itemUpset => itemShown.vals[f] = itemRows[itemShown.id][f]
      BY <1>1, <2>3, <3>1, <3>2 DEF ItemInv, ShownInv, SavesInv
    <3> QED BY <1>3, <3>1, <3>3 DEF ItemInv, ItemTyped
  <2>4. CASE f = "tags" /\ Item!SaveFailed(f)
    <3>1. itemShown' = itemShown /\ save.step = "failed" /\ itemUpset' = itemUpset
      BY <2>4, AppAssumption DEF Item!SaveFailed, Item!TakenBack, ItemInv, ItemTyped
    <3>2. ~itemUpset => itemShown.vals[f] = itemRows[itemShown.id][f]
      BY <1>1, <2>4, <3>1 DEF ItemInv, ShownInv, SavesInv
    <3> QED BY <1>3, <3>1, <3>2 DEF ItemInv, ItemTyped
  <2>5. CASE f # "tags" /\ Item!SaveFailed(f)
    <3> DEFINE vals == [itemShown.vals EXCEPT ![f] = save.copy.vals[f]]
    <3>1. /\ vals \in Contents /\ vals[f] = save.copy.vals[f]
          /\ \A g \in Item!Fields : g # f => vals[g] = itemShown.vals[g]
      <4>1. save.copy.vals[f] \in BOOLEAN
        BY <1>2 DEF Contents
      <4> QED BY <1>3, <4>1 DEF Contents
    <3>2. /\ itemShown' = [itemShown EXCEPT !.vals = vals] /\ save.step = "failed"
          /\ itemUpset' = (itemUpset \/ itemShown.id # save.item)
      BY <2>1, <2>5 DEF Item!SaveFailed, Item!TakenBack
    <3> HIDE DEF vals
    <3>3. itemShown' \in ItemShown /\ itemShown'.id = itemShown.id /\ itemShown'.vals = vals
      BY <1>3, <3>1, <3>2 DEF ItemShown
    <3>4. ~itemUpset => itemRows[save.item][f] = save.copy.vals[f]
      BY <1>1, <3>2 DEF ItemInv, SavesInv
    <3>5. itemUpset' \in BOOLEAN
      BY <3>2 DEF ItemInv, ItemTyped
    <3> QED BY <3>1, <3>2, <3>3, <3>4, <3>5
  <2> QED BY <2>2, <2>3, <2>4, <2>5
<1>5. itemShown' # Item!Nothing
  BY <1>4, NothingIsNoItem
<1>6. /\ itemSaves' \in [Item!Fields -> ItemSave \cup {Item!NoSave}]
      /\ \A g \in Item!Fields : g # f => itemSaves'[g] = itemSaves[g]
      /\ \A g \in Item!Fields : g # f => (g \in Item!Saving' <=> g \in Item!Saving)
      /\ f \notin Item!Saving'
  <2>1. Item!NoSave \notin ItemSave
    BY DEF Item!NoSave, ItemSave
  <2> QED BY <1>1, <2>1, SaveMoved DEF ItemInv
<1>7. \A g \in Item!Saving' : g \in Item!Fields /\ g # f /\ g \in Item!Saving /\ itemSaves'[g] = itemSaves[g]
  BY <1>6 DEF Item!Saving
<1>8. ItemTyped'
  BY <1>1, <1>4, <1>6 DEF ItemInv, ItemTyped
<1>9. SavesInv'
  BY <1>1, <1>4, <1>5, <1>7 DEF ItemInv, SavesInv
<1>10. LoadsInv'
  BY <1>1, <1>4, <1>5, <1>7, LoadsStay
<1>11. ShownInv'
  <2> SUFFICES ASSUME ~itemUpset', NEW g \in Item!Fields
               PROVE  IF g \in Item!Saving' /\ itemSaves'[g].item = itemShown'.id
                        THEN IF g = "tags"
                          THEN itemSaves'[g].step # "answered" => itemShown'.vals[g] = itemRows[itemShown'.id][g]
                          ELSE itemSaves'[g].step # "failed" => itemShown'.vals[g] = itemSaves'[g].val
                        ELSE itemShown'.vals[g] = itemRows[itemShown'.id][g]
    BY <1>1 DEF ShownInv
  <2>1. CASE g = f
    BY <1>4, <1>6, <2>1
  <2>2. CASE g # f
    <3>1. itemShown # Item!Nothing /\ ~itemUpset
      BY <1>1, <1>4 DEF ItemInv, SavesInv
    <3> QED BY <1>4, <1>6, <2>2, <3>1 DEF ItemInv, ShownInv
  <2> QED BY <2>1, <2>2
<1> QED BY <1>8, <1>9, <1>10, <1>11 DEF ItemInv

LEMMA ItemNext == ItemInv /\ [Item!Next]_itemVars => ItemInv'
<1> SUFFICES ASSUME ItemInv, [Item!Next]_itemVars PROVE ItemInv'
  OBVIOUS
<1>1. CASE Item!Next
  BY <1>1, WentOn, ItemRead, ItemAnswered, ItemLost, ItemEdited, SaveRan, SaveWasLost, SaveEnded
     DEF Item!Next, Ids
<1>2. CASE UNCHANGED itemVars
  <2>1. \A j : Item!Sent(j)' = Item!Sent(j)
    BY <1>2 DEF itemVars, Item!Sent, Item!Saving
  <2>2. ItemTyped' /\ LoadsInv'
    BY <1>2, <2>1 DEF itemVars, ItemInv, ItemTyped, LoadsInv
  <2> QED BY <1>2, <2>2, SavesElsewhere DEF itemVars, ItemInv
<1> QED BY <1>1, <1>2

LEMMA ItemOnly == [Next]_vars => [Item!Next]_itemVars
BY DEF Next, vars, GateOpens, GateRedirects, ItemStep, NoteStep, SearchStep, InboxStep, PlacesStep, TeamStep

LEMMA ItemAlways == Spec => []ItemInv
<1>1. Init => ItemInv
  BY ItemInit DEF Init
<1>2. ItemInv /\ [Next]_vars => ItemInv'
  BY ItemNext, ItemOnly
<1> QED BY <1>1, <1>2, PTL DEF Spec

LEMMA ItemShownIsTrue == ItemInv => Item!ScreenTrue
<1> SUFFICES ASSUME ItemInv, Item!Saving = {}, ~itemUpset,
                    \A n \in DOMAIN itemLoads : itemLoads[n].step = "done"
             PROVE  itemShown = [id |-> itemUrl, vals |-> itemRows[itemUrl]]
  BY DEF Item!ScreenTrue
<1>1. itemShown # Item!Nothing /\ itemShown.id = itemUrl
  BY LastItemLoad DEF ItemInv, LoadsInv
<1>2. itemShown \in ItemShown /\ itemRows[itemUrl] \in Contents
  BY <1>1 DEF ItemInv, ItemTyped
<1>3. \A f \in Item!Fields : itemShown.vals[f] = itemRows[itemUrl][f]
  BY <1>1 DEF ItemInv, ShownInv
<1>4. itemShown.vals = itemRows[itemUrl]
  BY <1>2, <1>3 DEF ItemShown, Contents
<1> QED BY <1>1, <1>2, <1>4 DEF ItemShown

-----------------------------------------------------------------------------
(* The team page *)

Person == [as : {"invited", "member"}, role : TeamPage!Roles, id : 1..MaxActs] \cup {TeamPage!Nobody}
Asker == Person \cup [as : {"nobody"}, role : TeamPage!Roles, id : {0}]
TeamOverview == [members : [People -> Person], invites : [People -> Person], name : 0..MaxActs,
                 torn : SUBSET People]
TeamAct == [op : {"load", "invite", "revoke", "remove", "role", "rename"}, who : People \cup {0},
            as : Asker, step : {"sent", "ran", "asking", "reading", "end"},
            copy : TeamOverview, left : SUBSET TeamPage!Reads, read : Nat, renamed : 0..MaxActs]

TeamTyped ==
  /\ teamPeople \in [People -> Person] /\ teamAccepts \in [People -> Person]
  /\ teamInvites \subseteq 1..MaxActs
  /\ teamName \in 0..MaxActs /\ teamMe \in TeamPage!Roles \cup {"OWNER"} /\ teamSeats \in TeamSeats
  /\ teamShown \in TeamOverview \cup {<< >>}
  /\ teamActs \in Seq(TeamAct) /\ Len(teamActs) <= MaxActs
  /\ teamReads \in [last : Nat, shown : Nat] /\ teamReads.shown <= teamReads.last
  /\ teamUpset \in BOOLEAN

(* What a request may be about, and how far one of its kind goes; no two *)
(* renames are under way, and what ran last is the name.                 *)
ActsInv ==
  /\ \A n \in DOMAIN teamActs :
       LET act == teamActs[n] IN
       /\ act.op = "load" => act.step \notin {"sent", "ran"}
       /\ act.op = "rename" => act.step \in {"sent", "ran", "end"}
       /\ act.op \notin {"load", "rename"} => act.who \in People
       /\ act.op = "role" => act.as \in Person
       /\ act.step \in {"sent", "ran", "asking"} => act.left = TeamPage!Reads
       /\ act.read <= teamReads.last
       /\ act.op = "rename" /\ act.step # "end" =>
            /\ teamShown # << >>
            /\ \A m \in DOMAIN teamActs : teamActs[m].op = "rename" /\ teamActs[m].step # "end" => m = n
       /\ act.op = "rename" /\ act.step = "ran" => teamName = n
  /\ teamName # 0 => /\ teamName \in DOMAIN teamActs /\ teamActs[teamName].op = "rename"
                     /\ teamActs[teamName].step \in {"ran", "end"}

(* An overview is read once for a request. *)
ToRead == {n \in DOMAIN teamActs : teamActs[n].step \in {"sent", "ran", "asking"}}
ReadsInv == teamReads.last + Cardinality(ToRead) <= Len(teamActs)

(* A person in an overview that has been read but for `left`: as the row is; as     *)
(* invited, in both lists, who joined since; or one who joined between the two.     *)
Shows(copy, left, person, p) ==
  \/ /\ "members" \notin left => copy.members[p] = TeamPage!Listed(person, "member")
     /\ "invites" \notin left => copy.invites[p] = TeamPage!Listed(person, "invited")
  \/ /\ left \cap TeamPage!Lists = {}
     /\ copy.members[p] = TeamPage!Nobody /\ TeamPage!Joined(copy.invites[p], person)
  \/ p \in copy.torn /\ person.as = "member"

SameTeam(people, copy, left) == \A p \in People : Shows(copy, left, people[p], p)

Unread == \E n \in DOMAIN teamActs :
            teamActs[n].op # "rename" /\ teamActs[n].step \in {"ran", "asking"}

(* Unless a change still asks for its overview, the last overview that was begun *)
(* has the team as far as it has been read, and it is shown or under way.        *)
PeopleInv ==
  ~teamUpset /\ ~Unread =>
    /\ \/ teamReads.shown = teamReads.last
       \/ \E n \in DOMAIN teamActs : teamActs[n].step = "reading" /\ teamActs[n].read = teamReads.last
    /\ teamReads.shown = teamReads.last => teamShown # << >> /\ SameTeam(teamPeople, teamShown, {})
    /\ \A n \in DOMAIN teamActs :
         teamActs[n].step = "reading" /\ teamActs[n].read = teamReads.last =>
           SameTeam(teamPeople, teamActs[n].copy, teamActs[n].left)

(* An overview has the name, or it was under way when the name changed and knows *)
(* by which rename; the one that is shown may wait for that rename's answer.     *)
NameInv ==
  ~teamUpset =>
    /\ \A n \in DOMAIN teamActs :
         TeamPage!HasName(teamActs[n]) =>
           \/ teamActs[n].copy.name = teamName
           \/ teamName \in DOMAIN teamActs /\ teamActs[n].renamed = teamName
    /\ teamShown # << >> =>
         \/ teamShown.name = teamName
         \/ teamName \in DOMAIN teamActs /\ teamActs[teamName].step = "ran"

TeamInv == TeamTyped /\ ActsInv /\ ReadsInv /\ PeopleInv /\ NameInv

LEMMA TeamConstants ==
  /\ TeamPage!Nobody \in Person /\ TeamPage!Nobody.id = 0 /\ TeamPage!Nobody.as = "nobody"
  /\ \A who \in Person : who.role \in TeamPage!Roles
  /\ \A who \in Person : who.as # "nobody" => who.id \in 1..MaxActs
  /\ Person \subseteq Asker
  /\ \A who \in Asker : who.role \in TeamPage!Roles
BY DEF Person, Asker, TeamPage!Nobody, TeamPage!Roles

LEMMA BlankOverview ==
  /\ TeamPage!Blank \in TeamOverview
  /\ \A copy \in TeamOverview : copy # << >>
<1>1. TeamPage!Blank \in TeamOverview
  BY TeamConstants, AppAssumption DEF TeamPage!Blank, TeamOverview
<1>2. ASSUME NEW copy \in TeamOverview PROVE copy # << >>
  <2>1. "name" \in DOMAIN copy
    BY DEF TeamOverview
  <2>2. "name" \notin DOMAIN << >>
    OBVIOUS
  <2> QED BY <2>1, <2>2
<1> QED BY <1>1, <1>2

LEMMA ActsFinite ==
  ASSUME TeamTyped
  PROVE  /\ Len(teamActs) \in Nat /\ DOMAIN teamActs = 1..Len(teamActs)
         /\ \A n \in DOMAIN teamActs : teamActs[n] \in TeamAct /\ n \in Nat /\ n \in 1..MaxActs
         /\ IsFiniteSet(ToRead) /\ Cardinality(ToRead) \in Nat
<1>1. /\ Len(teamActs) \in Nat /\ DOMAIN teamActs = 1..Len(teamActs)
      /\ \A n \in DOMAIN teamActs : teamActs[n] \in TeamAct /\ n \in Nat
      /\ Len(teamActs) <= MaxActs
  BY DEF TeamTyped
<1>2. IsFiniteSet(1..Len(teamActs))
  BY <1>1, FS_Interval
<1>3. IsFiniteSet(ToRead) /\ Cardinality(ToRead) \in Nat
  BY <1>1, <1>2, FS_Subset, FS_CardinalityType DEF ToRead
<1> QED BY <1>1, <1>3, AppAssumption

LEMMA ActMoved ==
  ASSUME TeamTyped, NEW n \in DOMAIN teamActs, NEW act \in TeamAct,
         teamActs' = [teamActs EXCEPT ![n] = act]
  PROVE  /\ teamActs' \in Seq(TeamAct) /\ Len(teamActs') = Len(teamActs)
         /\ DOMAIN teamActs' = DOMAIN teamActs /\ teamActs'[n] = act
         /\ \A m \in DOMAIN teamActs : m # n => teamActs'[m] = teamActs[m]
<1>1. teamActs \in Seq(TeamAct)
  BY DEF TeamTyped
<1> QED BY <1>1

(* No request begins to wait for an overview. *)
LEMMA NoMoreToRead ==
  ASSUME TeamTyped, ReadsInv, ToRead' \subseteq ToRead, teamReads'.last = teamReads.last,
         Len(teamActs') = Len(teamActs)
  PROVE  ReadsInv'
<1>1. IsFiniteSet(ToRead) /\ Cardinality(ToRead) \in Nat /\ Len(teamActs) \in Nat /\ teamReads.last \in Nat
  BY ActsFinite DEF TeamTyped
<1>2. Cardinality(ToRead') <= Cardinality(ToRead) /\ Cardinality(ToRead') \in Nat
  BY <1>1, FS_Subset, FS_CardinalityType
<1> DEFINE old == Cardinality(ToRead)
           new == Cardinality(ToRead')
<1>3. teamReads.last + old <= Len(teamActs)
  BY DEF ReadsInv
<1> HIDE DEF old, new
<1>4. teamReads.last + new <= Len(teamActs)
  BY <1>1, <1>2, <1>3 DEF old, new
<1> QED BY <1>4 DEF ReadsInv, new

LEMMA TeamInit == TeamPage!Init => TeamInv
<1> SUFFICES ASSUME TeamPage!Init PROVE TeamInv
  OBVIOUS
<1> DEFINE act == [op |-> "load", who |-> 0, as |-> TeamPage!Nobody, step |-> "asking",
                   copy |-> TeamPage!Blank, left |-> TeamPage!Reads, read |-> 0, renamed |-> 0]
           one == [as |-> "member", role |-> "MEMBER", id |-> 1]
<1>1. /\ teamPeople = [p \in People |-> IF p = TeamPage!First THEN one ELSE TeamPage!Nobody]
      /\ teamAccepts = [p \in People |-> TeamPage!Nobody]
      /\ teamInvites = {1} /\ teamName = 0 /\ teamMe \in {"OWNER", "ADMIN", "MEMBER"} /\ teamSeats \in TeamSeats
      /\ teamShown = << >> /\ teamUpset = FALSE /\ teamActs = <<act>>
      /\ teamReads = [last |-> 0, shown |-> 0]
  BY DEF TeamPage!Init, TeamPage!Act
<1>2. one \in Person /\ 1 \in 1..MaxActs /\ 0 \in 0..MaxActs /\ 1 <= MaxActs
  BY AppAssumption DEF Person, TeamPage!Roles
<1>3. act \in TeamAct /\ act.op = "load" /\ act.step = "asking" /\ act.read = 0 /\ act.left = TeamPage!Reads
  BY <1>2, TeamConstants, BlankOverview DEF TeamAct
<1> HIDE DEF act, one
<1>4. teamActs \in Seq(TeamAct) /\ Len(teamActs) = 1 /\ DOMAIN teamActs = {1} /\ teamActs[1] = act
  BY <1>1, <1>3
<1>5. teamReads \in [last : Nat, shown : Nat] /\ teamReads.last = 0 /\ teamReads.shown = 0
  BY <1>1
<1>6. TeamTyped
  <2>1. teamPeople \in [People -> Person] /\ teamAccepts \in [People -> Person]
    BY <1>1, <1>2, TeamConstants
  <2>2. teamMe \in TeamPage!Roles \cup {"OWNER"}
    BY <1>1 DEF TeamPage!Roles
  <2>3. teamInvites \subseteq 1..MaxActs /\ teamName \in 0..MaxActs
    BY <1>1, <1>2
  <2>4. Len(teamActs) <= MaxActs /\ teamActs \in Seq(TeamAct)
    BY <1>2, <1>4
  <2>5. teamReads \in [last : Nat, shown : Nat] /\ teamReads.shown <= teamReads.last
    BY <1>5
  <2> QED BY <1>1, <2>1, <2>2, <2>3, <2>4, <2>5 DEF TeamTyped
<1>7. ActsInv
  BY <1>1, <1>3, <1>4, <1>5 DEF ActsInv
<1>8. ReadsInv
  <2>1. ToRead = {1}
    BY <1>3, <1>4 DEF ToRead
  <2>2. Cardinality(ToRead) = 1
    BY <2>1, FS_Singleton
  <2> QED BY <1>4, <1>5, <2>2 DEF ReadsInv
<1>9. Unread
  BY <1>3, <1>4 DEF Unread
<1>10. PeopleInv /\ NameInv
  BY <1>1, <1>3, <1>4, <1>9 DEF PeopleInv, NameInv, TeamPage!HasName
<1> QED BY <1>6, <1>7, <1>8, <1>10 DEF TeamInv

(* A tap adds a request that has not run. *)
LEMMA TapMade ==
  ASSUME TeamInv, NEW op \in {"invite", "revoke", "remove", "role", "rename"}, NEW p \in People \cup {0},
         NEW person \in Asker, op # "rename" => p \in People, op = "role" => person \in Person,
         TeamPage!Tap(op, p, person)
  PROVE  TeamInv'
<1> DEFINE act == [op |-> op, who |-> p, as |-> person, step |-> "sent",
                   copy |-> TeamPage!Blank, left |-> TeamPage!Reads, read |-> 0, renamed |-> 0]
           k == Len(teamActs) + 1
<1>1. /\ teamShown # << >> /\ Len(teamActs) < MaxActs
      /\ op = "rename" => \A n \in TeamPage!UnderWay : teamActs[n].op # "rename"
      /\ teamActs' = Append(teamActs, act)
      /\ UNCHANGED <<teamPeople, teamAccepts, teamInvites, teamName, teamMe, teamSeats, teamShown, teamReads, teamUpset>>
  BY DEF TeamPage!Tap, TeamPage!Act, TeamPage!serverVars
<1>2. act \in TeamAct
  BY AppAssumption, BlankOverview DEF TeamAct
<1>3. /\ act.op = op /\ act.step = "sent" /\ act.who = p /\ act.as = person /\ act.read = 0 /\ act.renamed = 0
      /\ act.left = TeamPage!Reads
  OBVIOUS
<1> HIDE DEF act
<1>4. TeamTyped /\ teamActs \in Seq(TeamAct)
  BY DEF TeamInv, TeamTyped
<1>5. Len(teamActs) \in Nat /\ DOMAIN teamActs = 1..Len(teamActs) /\ IsFiniteSet(ToRead) /\ Cardinality(ToRead) \in Nat
  BY <1>4, ActsFinite
<1>6. /\ teamActs' \in Seq(TeamAct) /\ Len(teamActs') = k /\ DOMAIN teamActs' = DOMAIN teamActs \cup {k}
      /\ teamActs'[k] = act /\ k \notin DOMAIN teamActs /\ k \in Nat
      /\ \A n \in DOMAIN teamActs : teamActs'[n] = teamActs[n]
  BY <1>1, <1>2, <1>4, <1>5
<1>7. k <= MaxActs
  BY <1>1, <1>5, AppAssumption
<1> HIDE DEF k
<1>8. TeamTyped'
  BY <1>1, <1>4, <1>6, <1>7 DEF TeamTyped
<1>9. ActsInv'
  <2>1. \A n \in DOMAIN teamActs : op = "rename" => teamActs[n].op # "rename" \/ teamActs[n].step = "end"
    BY <1>1 DEF TeamPage!UnderWay
  <2>2. teamReads.last \in Nat
    BY <1>4 DEF TeamTyped
  <2>3. ActsInv
    BY DEF TeamInv
  <2>4. ASSUME NEW n \in DOMAIN teamActs' PROVE
          /\ teamActs'[n].op = "load" => teamActs'[n].step \notin {"sent", "ran"}
          /\ teamActs'[n].op = "rename" => teamActs'[n].step \in {"sent", "ran", "end"}
          /\ teamActs'[n].op \notin {"load", "rename"} => teamActs'[n].who \in People
          /\ teamActs'[n].op = "role" => teamActs'[n].as \in Person
          /\ teamActs'[n].step \in {"sent", "ran", "asking"} => teamActs'[n].left = TeamPage!Reads
          /\ teamActs'[n].read <= teamReads.last
          /\ teamActs'[n].op = "rename" /\ teamActs'[n].step # "end" => teamShown # << >>
          /\ teamActs'[n].op = "rename" /\ teamActs'[n].step = "ran" => teamName = n
    BY <1>1, <1>3, <1>6, <2>2, <2>3 DEF ActsInv
  <2>5. ASSUME NEW n \in DOMAIN teamActs', NEW m \in DOMAIN teamActs',
               teamActs'[n].op = "rename", teamActs'[n].step # "end",
               teamActs'[m].op = "rename", teamActs'[m].step # "end"
        PROVE  m = n
    BY <1>3, <1>6, <2>1, <2>3, <2>5 DEF ActsInv
  <2>6. teamName # 0 => /\ teamName \in DOMAIN teamActs' /\ teamActs'[teamName].op = "rename"
                        /\ teamActs'[teamName].step \in {"ran", "end"}
    BY <1>6, <2>3 DEF ActsInv
  <2> QED BY <1>1, <2>4, <2>5, <2>6 DEF ActsInv
<1>10. ReadsInv'
  <2>1. ToRead' = ToRead \cup {k} /\ k \notin ToRead
    BY <1>3, <1>6 DEF ToRead
  <2>2. Cardinality(ToRead') = Cardinality(ToRead) + 1
    BY <1>5, <2>1, FS_AddElement
  <2>3. teamReads.last \in Nat /\ Len(teamActs') = Len(teamActs) + 1
    BY <1>4, <1>6 DEF TeamTyped, k
  <2>4. teamReads.last + Cardinality(ToRead) <= Len(teamActs)
    BY DEF TeamInv, ReadsInv
  <2> DEFINE old == Cardinality(ToRead)
             new == Cardinality(ToRead')
  <2> HIDE DEF old, new
  <2>5. old \in Nat /\ new = old + 1 /\ teamReads.last + old <= Len(teamActs)
    BY <1>5, <2>2, <2>4 DEF old, new
  <2>6. teamReads.last + new <= Len(teamActs')
    BY <1>5, <2>3, <2>5
  <2> QED BY <1>1, <2>6 DEF ReadsInv, new
<1>11. PeopleInv'
  <2>1. Unread' <=> Unread
    BY <1>3, <1>6 DEF Unread
  <2> QED BY <1>1, <1>3, <1>6, <2>1 DEF TeamInv, PeopleInv
<1>12. NameInv'
  BY <1>1, <1>3, <1>6 DEF TeamInv, NameInv, TeamPage!HasName
<1> QED BY <1>8, <1>9, <1>10, <1>11, <1>12 DEF TeamInv

LEMMA TeamTapped ==
  ASSUME TeamInv,
         \/ \E p \in People : \/ TeamPage!RevokeInvite(p) \/ TeamPage!RemoveMember(p)
                              \/ \E role \in TeamPage!Roles :
                                   TeamPage!SendInvite(p, role) \/ TeamPage!ChangeRole(p, role)
         \/ TeamPage!SaveAccountName
  PROVE  TeamInv'
<1>1. ASSUME NEW p \in People, teamShown # << >>
      PROVE  teamShown.members[p] \in Person /\ teamShown.invites[p] \in Person
  BY <1>1 DEF TeamInv, TeamTyped, TeamOverview
<1>2. ASSUME NEW p \in People, TeamPage!RevokeInvite(p) PROVE TeamInv'
  <2>1. teamShown.invites[p] \in Asker
    BY <1>1, <1>2, TeamConstants DEF TeamPage!RevokeInvite, TeamPage!Tap
  <2> QED BY <1>2, <2>1, TapMade DEF TeamPage!RevokeInvite
<1>3. ASSUME NEW p \in People, TeamPage!RemoveMember(p) PROVE TeamInv'
  <2>1. teamShown.members[p] \in Asker
    BY <1>1, <1>3, TeamConstants DEF TeamPage!RemoveMember, TeamPage!Tap
  <2> QED BY <1>3, <2>1, TapMade DEF TeamPage!RemoveMember
<1>4. ASSUME NEW p \in People, NEW role \in TeamPage!Roles, TeamPage!SendInvite(p, role) PROVE TeamInv'
  <2>1. [TeamPage!Nobody EXCEPT !.role = role] \in Asker
    BY <1>4 DEF Asker, TeamPage!Nobody
  <2> QED BY <1>4, <2>1, TapMade DEF TeamPage!SendInvite
<1>5. ASSUME NEW p \in People, NEW role \in TeamPage!Roles, TeamPage!ChangeRole(p, role) PROVE TeamInv'
  <2>1. teamShown.members[p] \in Person /\ teamShown.members[p].as = "member"
    BY <1>1, <1>5 DEF TeamPage!ChangeRole, TeamPage!Tap
  <2>2. [teamShown.members[p] EXCEPT !.role = role] \in Person
    BY <2>1, TeamConstants DEF Person
  <2> QED BY <1>5, <2>2, TapMade, TeamConstants DEF TeamPage!ChangeRole
<1>6. ASSUME TeamPage!SaveAccountName PROVE TeamInv'
  BY <1>6, TapMade, TeamConstants DEF TeamPage!SaveAccountName
<1> QED BY <1>2, <1>3, <1>4, <1>5, <1>6

(* A request that goes on, a rename only to its end. *)
LEMMA ActsGoOn ==
  ASSUME TeamTyped, ActsInv, NEW n \in DOMAIN teamActs, NEW act \in TeamAct,
         teamActs' = [teamActs EXCEPT ![n] = act],
         act.op = teamActs[n].op, act.who = teamActs[n].who, act.as = teamActs[n].as,
         act.op = "rename" => act.step = "end", act.op = "load" => act.step \notin {"sent", "ran"},
         act.step \in {"sent", "ran", "asking"} => act.left = TeamPage!Reads,
         act.read <= teamReads'.last, teamReads.last <= teamReads'.last, teamReads'.last \in Nat,
         teamShown # << >> => teamShown' # << >>, teamName' = teamName,
         act.op = "rename" => teamActs[n].step # "end"
  PROVE  ActsInv'
<1>1. /\ DOMAIN teamActs' = DOMAIN teamActs /\ teamActs'[n] = act
      /\ \A m \in DOMAIN teamActs : m # n => teamActs'[m] = teamActs[m]
  BY ActMoved
<1>2. \A m \in DOMAIN teamActs : teamActs[m].read \in Nat
  BY ActsFinite DEF TeamAct
<1>3. ASSUME NEW m \in DOMAIN teamActs' PROVE
          /\ teamActs'[m].op = "load" => teamActs'[m].step \notin {"sent", "ran"}
          /\ teamActs'[m].op = "rename" => teamActs'[m].step \in {"sent", "ran", "end"}
          /\ teamActs'[m].op \notin {"load", "rename"} => teamActs'[m].who \in People
          /\ teamActs'[m].op = "role" => teamActs'[m].as \in Person
          /\ teamActs'[m].step \in {"sent", "ran", "asking"} => teamActs'[m].left = TeamPage!Reads
          /\ teamActs'[m].op = "rename" /\ teamActs'[m].step # "end" => teamShown' # << >>
          /\ teamActs'[m].op = "rename" /\ teamActs'[m].step = "ran" => teamName' = m
  <2>1. CASE m = n
    BY <1>1, <2>1 DEF ActsInv
  <2>2. CASE m # n
    BY <1>1, <1>3, <2>2 DEF ActsInv
  <2> QED BY <2>1, <2>2
<1>4. ASSUME NEW m \in DOMAIN teamActs' PROVE teamActs'[m].read <= teamReads'.last
  <2>1. teamActs[m].read <= teamReads.last /\ teamActs[m].read \in Nat /\ teamReads.last \in Nat
    BY <1>1, <1>2, <1>4 DEF ActsInv, TeamTyped
  <2>2. CASE m = n
    BY <1>1, <2>2
  <2>3. CASE m # n
    <3>1. teamActs'[m] = teamActs[m]
      BY <1>1, <1>4, <2>3
    <3> QED BY <2>1, <3>1
  <2> QED BY <2>2, <2>3
<1>5. ASSUME NEW m \in DOMAIN teamActs', NEW i \in DOMAIN teamActs',
             teamActs'[m].op = "rename", teamActs'[m].step # "end",
             teamActs'[i].op = "rename", teamActs'[i].step # "end"
      PROVE  i = m
  BY <1>1, <1>5 DEF ActsInv
<1>6. teamName' # 0 => /\ teamName' \in DOMAIN teamActs' /\ teamActs'[teamName'].op = "rename"
                       /\ teamActs'[teamName'].step \in {"ran", "end"}
  BY <1>1 DEF ActsInv
<1> QED BY <1>3, <1>4, <1>5, <1>6 DEF ActsInv

LEMMA ActFailed ==
  ASSUME TeamInv, NEW n \in DOMAIN teamActs, TeamPage!Fails(n)
  PROVE  TeamInv'
<1> DEFINE act == [teamActs[n] EXCEPT !.step = "end"]
<1>1. /\ teamActs[n].step \in {"sent", "ran"} /\ teamActs' = [teamActs EXCEPT ![n] = act]
      /\ teamUpset' = (teamUpset \/ teamActs[n].step = "ran")
      /\ UNCHANGED <<teamPeople, teamAccepts, teamInvites, teamName, teamMe, teamSeats, teamShown, teamReads>>
  BY DEF TeamPage!Fails, TeamPage!serverVars
<1>2. TeamTyped /\ ActsInv /\ teamActs[n] \in TeamAct /\ teamUpset \in BOOLEAN /\ teamReads.last \in Nat
  BY ActsFinite DEF TeamInv, TeamTyped
<1>3. /\ act \in TeamAct /\ act.step = "end" /\ act.op = teamActs[n].op /\ act.who = teamActs[n].who
      /\ act.as = teamActs[n].as /\ act.read = teamActs[n].read
  BY <1>2 DEF TeamAct
<1> HIDE DEF act
<1>4. /\ teamActs' \in Seq(TeamAct) /\ Len(teamActs') = Len(teamActs)
      /\ DOMAIN teamActs' = DOMAIN teamActs /\ teamActs'[n] = act
      /\ \A m \in DOMAIN teamActs : m # n => teamActs'[m] = teamActs[m]
  BY <1>1, <1>2, <1>3, ActMoved
<1>5. TeamTyped'
  BY <1>1, <1>2, <1>4 DEF TeamTyped
<1>6. ActsInv'
  <2>1. act.read <= teamReads'.last /\ teamReads.last <= teamReads'.last
    BY <1>1, <1>2, <1>3 DEF ActsInv
  <2> QED BY <1>1, <1>2, <1>3, <2>1, ActsGoOn
<1>7. ReadsInv'
  <2>1. ToRead' \subseteq ToRead
    BY <1>3, <1>4 DEF ToRead
  <2> QED BY <1>1, <1>2, <1>4, <2>1, NoMoreToRead DEF TeamInv
<1>8. PeopleInv'
  <2> SUFFICES ASSUME ~teamUpset' PROVE PeopleInv'
    BY DEF PeopleInv
  <2>1. teamActs[n].step = "sent" /\ ~teamUpset
    BY <1>1
  <2>2. Unread' <=> Unread
    BY <1>3, <1>4, <2>1 DEF Unread
  <2> QED BY <1>1, <1>3, <1>4, <2>1, <2>2 DEF TeamInv, PeopleInv
<1>9. NameInv'
  <2> SUFFICES ASSUME ~teamUpset' PROVE NameInv'
    BY DEF NameInv
  <2>1. teamActs[n].step = "sent" /\ ~teamUpset
    BY <1>1
  <2> QED BY <1>1, <1>3, <1>4, <2>1 DEF TeamInv, NameInv, TeamPage!HasName
<1> QED BY <1>5, <1>6, <1>7, <1>8, <1>9 DEF TeamInv

LEMMA ReloadFailed ==
  ASSUME TeamInv, NEW n \in DOMAIN teamActs, TeamPage!RefreshFails(n)
  PROVE  TeamInv'
<1> DEFINE act == [op |-> teamActs[n].op, who |-> teamActs[n].who, as |-> teamActs[n].as, step |-> "end",
                   copy |-> TeamPage!Blank, left |-> TeamPage!Reads, read |-> 0, renamed |-> 0]
<1>1. /\ teamActs[n].step \in {"asking", "reading"} /\ teamActs' = [teamActs EXCEPT ![n] = act]
      /\ teamUpset' = TRUE
      /\ UNCHANGED <<teamPeople, teamAccepts, teamInvites, teamName, teamMe, teamSeats, teamShown, teamReads>>
  BY DEF TeamPage!RefreshFails, TeamPage!serverVars, TeamPage!Act
<1>2. TeamTyped /\ ActsInv /\ teamActs[n] \in TeamAct /\ teamReads.last \in Nat
  BY ActsFinite DEF TeamInv, TeamTyped
<1>3. /\ act \in TeamAct /\ act.step = "end" /\ act.op = teamActs[n].op /\ act.who = teamActs[n].who
      /\ act.as = teamActs[n].as /\ act.read = 0
  BY <1>2, AppAssumption, BlankOverview DEF TeamAct
<1> HIDE DEF act
<1>4. /\ teamActs' \in Seq(TeamAct) /\ Len(teamActs') = Len(teamActs)
      /\ DOMAIN teamActs' = DOMAIN teamActs /\ teamActs'[n] = act
      /\ \A m \in DOMAIN teamActs : m # n => teamActs'[m] = teamActs[m]
  BY <1>1, <1>2, <1>3, ActMoved
<1>5. TeamTyped'
  BY <1>1, <1>2, <1>4 DEF TeamTyped
<1>6. ActsInv'
  <2>1. act.read <= teamReads'.last /\ teamReads.last <= teamReads'.last
    BY <1>1, <1>2, <1>3
  <2> QED BY <1>1, <1>2, <1>3, <2>1, ActsGoOn
<1>7. ReadsInv'
  <2>1. ToRead' \subseteq ToRead
    BY <1>3, <1>4 DEF ToRead
  <2> QED BY <1>1, <1>2, <1>4, <2>1, NoMoreToRead DEF TeamInv
<1>8. PeopleInv' /\ NameInv'
  BY <1>1 DEF PeopleInv, NameInv
<1> QED BY <1>5, <1>6, <1>7, <1>8 DEF TeamInv

(* Nothing that is shown or promised depends on what acceptInvite has read. *)
LEMMA AcceptBegun ==
  ASSUME TeamInv, NEW p \in People, TeamPage!AcceptRead(p)
  PROVE  TeamInv'
<1>1. /\ teamAccepts' = [teamAccepts EXCEPT ![p] = teamPeople[p]]
      /\ UNCHANGED <<teamPeople, teamInvites, teamName, teamMe, teamSeats>>
      /\ UNCHANGED <<teamShown, teamActs, teamReads, teamUpset>>
  BY DEF TeamPage!AcceptRead
<1>2. TeamTyped'
  BY <1>1 DEF TeamInv, TeamTyped
<1>3. ToRead' = ToRead /\ (Unread' <=> Unread)
  BY <1>1 DEF ToRead, Unread
<1> QED BY <1>1, <1>2, <1>3 DEF TeamInv, ActsInv, ReadsInv, PeopleInv, NameInv

(* Who joins is as invited in an overview that has both lists, gone astray in one *)
(* that has either, and not looked at yet in one that has neither.                *)
LEMMA JoinShown ==
  ASSUME NEW copy \in TeamOverview, NEW late \in TeamOverview, NEW left \in SUBSET TeamPage!Reads,
         NEW p \in People, NEW before \in Person, NEW after \in Person,
         before.as = "invited", after.as = "member", after.id = before.id,
         late.members = copy.members, late.invites = copy.invites,
         (\E list \in TeamPage!Lists : left \cap TeamPage!Lists = {list}) => p \in late.torn,
         Shows(copy, left, before, p)
  PROVE  Shows(late, left, after, p)
<1>1. /\ "members" \notin left => copy.members[p] = TeamPage!Nobody
      /\ "invites" \notin left => copy.invites[p] = before
  BY DEF Shows, TeamPage!Listed, TeamPage!Joined
<1>2. CASE "members" \in left /\ "invites" \in left
  BY <1>2 DEF Shows
<1>3. CASE "members" \notin left /\ "invites" \notin left
  <2>1. left \cap TeamPage!Lists = {}
    BY <1>3 DEF TeamPage!Lists
  <2> QED BY <1>1, <1>3, <2>1 DEF Shows, TeamPage!Joined
<1>4. CASE "members" \in left /\ "invites" \notin left
  <2>1. left \cap TeamPage!Lists = {"members"}
    BY <1>4 DEF TeamPage!Lists
  <2> QED BY <2>1 DEF Shows, TeamPage!Lists
<1>5. CASE "members" \notin left /\ "invites" \in left
  <2>1. left \cap TeamPage!Lists = {"invites"}
    BY <1>5 DEF TeamPage!Lists
  <2> QED BY <2>1 DEF Shows, TeamPage!Lists
<1> QED BY <1>2, <1>3, <1>4, <1>5

LEMMA SomebodyJoined ==
  ASSUME TeamInv, NEW p \in People, TeamPage!Joins(p)
  PROVE  TeamInv'
<1> DEFINE who == [teamAccepts[p] EXCEPT !.as = "member"]
           Torn(m) == [teamActs[m] EXCEPT !.copy.torn = IF TeamPage!HalfRead(teamActs[m]) THEN @ \cup {p} ELSE @]
<1>1. /\ teamPeople[p].as = "invited" /\ teamAccepts[p].as = "invited" /\ teamAccepts[p].id = teamPeople[p].id
      /\ teamPeople' = [teamPeople EXCEPT ![p] = who]
      /\ teamAccepts' = [teamAccepts EXCEPT ![p] = TeamPage!Nobody]
      /\ teamActs' = [m \in DOMAIN teamActs |-> Torn(m)]
      /\ UNCHANGED <<teamInvites, teamName, teamMe, teamSeats, teamShown, teamReads, teamUpset>>
  BY DEF TeamPage!Joins
<1>2. /\ TeamTyped /\ teamPeople \in [People -> Person] /\ teamAccepts \in [People -> Person]
      /\ Len(teamActs) \in Nat /\ DOMAIN teamActs = 1..Len(teamActs)
      /\ \A m \in DOMAIN teamActs : teamActs[m] \in TeamAct
  BY ActsFinite DEF TeamInv, TeamTyped
<1>3. who \in Person /\ who.as = "member" /\ who.id = teamPeople[p].id
  <2>1. teamAccepts[p] \in Person /\ teamAccepts[p] # TeamPage!Nobody
    BY <1>1, <1>2, TeamConstants
  <2> QED BY <1>1, <2>1 DEF Person
<1>4. \A m \in DOMAIN teamActs :
        /\ Torn(m) \in TeamAct /\ Torn(m).op = teamActs[m].op /\ Torn(m).who = teamActs[m].who
        /\ Torn(m).as = teamActs[m].as /\ Torn(m).step = teamActs[m].step /\ Torn(m).left = teamActs[m].left
        /\ Torn(m).read = teamActs[m].read /\ Torn(m).renamed = teamActs[m].renamed
        /\ Torn(m).copy.members = teamActs[m].copy.members /\ Torn(m).copy.invites = teamActs[m].copy.invites
        /\ Torn(m).copy.name = teamActs[m].copy.name /\ teamActs[m].copy.torn \subseteq Torn(m).copy.torn
        /\ TeamPage!HalfRead(teamActs[m]) => p \in Torn(m).copy.torn
  BY <1>2 DEF TeamAct, TeamOverview
<1> HIDE DEF who, Torn
<1>5. /\ teamPeople' \in [People -> Person] /\ teamPeople'[p] = who
      /\ teamAccepts' \in [People -> Person]
      /\ \A q \in People : q # p => teamPeople'[q] = teamPeople[q]
  BY <1>1, <1>2, <1>3, TeamConstants
<1>6. /\ teamActs' \in Seq(TeamAct) /\ Len(teamActs') = Len(teamActs) /\ DOMAIN teamActs' = DOMAIN teamActs
      /\ \A m \in DOMAIN teamActs : teamActs'[m] = Torn(m)
  BY <1>1, <1>2, <1>4
<1>7. TeamTyped'
  BY <1>1, <1>2, <1>5, <1>6 DEF TeamTyped
<1>8. ActsInv'
  <2>1. ActsInv
    BY DEF TeamInv
  <2>2. \A m \in DOMAIN teamActs :
          /\ teamActs'[m].op = teamActs[m].op /\ teamActs'[m].who = teamActs[m].who
          /\ teamActs'[m].as = teamActs[m].as /\ teamActs'[m].step = teamActs[m].step
          /\ teamActs'[m].left = teamActs[m].left /\ teamActs'[m].read = teamActs[m].read
    BY <1>4, <1>6
  <2> QED BY <1>1, <1>6, <2>1, <2>2 DEF ActsInv
<1>9. NameInv'
  <2>1. NameInv
    BY DEF TeamInv
  <2>2. \A m \in DOMAIN teamActs :
          /\ teamActs'[m].step = teamActs[m].step /\ teamActs'[m].left = teamActs[m].left
          /\ teamActs'[m].renamed = teamActs[m].renamed /\ teamActs'[m].copy.name = teamActs[m].copy.name
    BY <1>4, <1>6
  <2> QED BY <1>1, <1>6, <2>1, <2>2 DEF NameInv, TeamPage!HasName
<1>10. ReadsInv'
  <2>1. ToRead' = ToRead
    BY <1>4, <1>6 DEF ToRead
  <2> QED BY <1>1, <1>6, <2>1 DEF TeamInv, ReadsInv
<1>11. ASSUME NEW copy \in TeamOverview, NEW late \in TeamOverview, NEW left \in SUBSET TeamPage!Reads,
              late.members = copy.members, late.invites = copy.invites, copy.torn \subseteq late.torn,
              (\E list \in TeamPage!Lists : left \cap TeamPage!Lists = {list}) => p \in late.torn,
              SameTeam(teamPeople, copy, left)
       PROVE  SameTeam(teamPeople', late, left)
  <2> SUFFICES ASSUME NEW q \in People PROVE Shows(late, left, teamPeople'[q], q)
    BY DEF SameTeam
  <2>1. Shows(copy, left, teamPeople[q], q)
    BY <1>11 DEF SameTeam
  <2>2. CASE q = p
    BY <1>1, <1>2, <1>3, <1>5, <1>11, <2>1, <2>2, JoinShown
  <2>3. CASE q # p
    BY <1>5, <1>11, <2>1, <2>3 DEF Shows
  <2> QED BY <2>2, <2>3
<1>12. PeopleInv'
  <2>1. Unread' <=> Unread
    BY <1>4, <1>6 DEF Unread
  <2> SUFFICES ASSUME ~teamUpset, ~Unread PROVE PeopleInv'
    BY <1>1, <2>1 DEF PeopleInv
  <2>2. /\ \/ teamReads.shown = teamReads.last
           \/ \E n \in DOMAIN teamActs : teamActs[n].step = "reading" /\ teamActs[n].read = teamReads.last
        /\ teamReads.shown = teamReads.last => teamShown # << >> /\ SameTeam(teamPeople, teamShown, {})
        /\ \A n \in DOMAIN teamActs :
             teamActs[n].step = "reading" /\ teamActs[n].read = teamReads.last =>
               SameTeam(teamPeople, teamActs[n].copy, teamActs[n].left)
    BY DEF TeamInv, PeopleInv
  <2>3. ASSUME teamReads.shown = teamReads.last PROVE SameTeam(teamPeople', teamShown, {})
    <3>1. teamShown \in TeamOverview /\ SameTeam(teamPeople, teamShown, {})
      BY <1>2, <2>2, <2>3 DEF TeamTyped
    <3>2. ~ \E list \in TeamPage!Lists : {} \cap TeamPage!Lists = {list}
      OBVIOUS
    <3> QED BY <1>11, <3>1, <3>2
  <2>4. ASSUME NEW m \in DOMAIN teamActs, teamActs[m].step = "reading", teamActs[m].read = teamReads.last
        PROVE  SameTeam(teamPeople', teamActs'[m].copy, teamActs'[m].left)
    <3>1. /\ teamActs[m].copy \in TeamOverview /\ teamActs'[m].copy \in TeamOverview
          /\ teamActs[m].left \in SUBSET TeamPage!Reads /\ teamActs'[m].left = teamActs[m].left
      BY <1>2, <1>4, <1>6 DEF TeamAct
    <3>2. (\E list \in TeamPage!Lists : teamActs[m].left \cap TeamPage!Lists = {list})
             => p \in teamActs'[m].copy.torn
      BY <1>4, <1>6, <2>4 DEF TeamPage!HalfRead
    <3>3. /\ teamActs'[m].copy.members = teamActs[m].copy.members
          /\ teamActs'[m].copy.invites = teamActs[m].copy.invites
          /\ teamActs[m].copy.torn \subseteq teamActs'[m].copy.torn
      BY <1>4, <1>6
    <3>4. SameTeam(teamPeople, teamActs[m].copy, teamActs[m].left)
      BY <2>2, <2>4
    <3> QED BY <1>11, <3>1, <3>2, <3>3, <3>4
  <2>5. \A m \in DOMAIN teamActs : teamActs'[m].step = teamActs[m].step /\ teamActs'[m].read = teamActs[m].read
    BY <1>4, <1>6
  <2> QED BY <1>1, <1>6, <2>2, <2>3, <2>4, <2>5 DEF PeopleInv
<1> QED BY <1>7, <1>8, <1>9, <1>10, <1>12 DEF TeamInv

LEMMA ActAnswered ==
  ASSUME TeamInv, NEW n \in DOMAIN teamActs, TeamPage!Answered(n)
  PROVE  TeamInv'
<1> DEFINE act == [teamActs[n] EXCEPT !.step = TeamPage!AfterAnswer(teamActs[n].op)]
<1>1. /\ teamActs[n].step = "ran" /\ teamActs' = [teamActs EXCEPT ![n] = act]
      /\ teamShown' = IF teamActs[n].op = "rename" THEN [teamShown EXCEPT !.name = n] ELSE teamShown
      /\ UNCHANGED <<teamPeople, teamAccepts, teamInvites, teamName, teamMe, teamSeats, teamReads, teamUpset>>
  BY DEF TeamPage!Answered, TeamPage!serverVars
<1>2. /\ TeamTyped /\ ActsInv /\ teamActs[n] \in TeamAct /\ teamReads.last \in Nat /\ n \in 0..MaxActs
      /\ teamActs[n].op # "load"
  <2>1. n \in 0..MaxActs
    BY ActsFinite, AppAssumption DEF TeamInv
  <2> QED BY <1>1, <2>1, ActsFinite DEF TeamInv, TeamTyped, ActsInv
<1>3. /\ act \in TeamAct /\ act.op = teamActs[n].op /\ act.who = teamActs[n].who
      /\ act.as = teamActs[n].as /\ act.read = teamActs[n].read
      /\ act.op = "rename" => act.step = "end"
      /\ act.op # "rename" => act.step = "asking"
      /\ act.left = TeamPage!Reads
  <2>1. teamActs[n].left = TeamPage!Reads
    BY <1>1, <1>2 DEF ActsInv
  <2> QED BY <1>2, <2>1 DEF TeamAct, TeamPage!AfterAnswer
<1> HIDE DEF act
<1>4. /\ teamActs' \in Seq(TeamAct) /\ Len(teamActs') = Len(teamActs)
      /\ DOMAIN teamActs' = DOMAIN teamActs /\ teamActs'[n] = act
      /\ \A m \in DOMAIN teamActs : m # n => teamActs'[m] = teamActs[m]
  BY <1>1, <1>2, <1>3, ActMoved
<1>5. /\ teamShown # << >> => /\ teamShown' # << >> /\ teamShown' \in TeamOverview
                              /\ teamShown'.members = teamShown.members
                              /\ teamShown'.invites = teamShown.invites
                              /\ teamShown'.torn = teamShown.torn
      /\ teamShown = << >> => teamShown' = << >>
      /\ act.op = "rename" => teamName = n /\ teamShown'.name = n
      /\ act.op # "rename" => teamShown' = teamShown
  <2>1. CASE act.op = "rename"
    <3>1. teamShown \in TeamOverview /\ teamName = n /\ teamShown # << >>
      BY <1>1, <1>2, <1>3, <2>1 DEF ActsInv, TeamTyped
    <3>2. teamShown' = [teamShown EXCEPT !.name = n]
      BY <1>1, <1>3, <2>1
    <3>3. /\ teamShown' \in TeamOverview /\ teamShown'.members = teamShown.members
          /\ teamShown'.invites = teamShown.invites /\ teamShown'.torn = teamShown.torn
          /\ teamShown'.name = n /\ teamShown' # << >>
      BY <1>2, <3>1, <3>2 DEF TeamOverview
    <3> QED BY <2>1, <3>1, <3>3
  <2>2. CASE act.op # "rename"
    BY <1>1, <1>2, <1>3, <2>2 DEF TeamTyped
  <2> QED BY <2>1, <2>2
<1>6. TeamTyped'
  BY <1>1, <1>2, <1>4, <1>5 DEF TeamTyped
<1>7. ActsInv'
  <2>1. act.read <= teamReads'.last /\ teamReads.last <= teamReads'.last
    BY <1>1, <1>2, <1>3 DEF ActsInv
  <2> QED BY <1>1, <1>2, <1>3, <1>5, <2>1, ActsGoOn
<1>8. ReadsInv'
  <2>1. ToRead' \subseteq ToRead
    BY <1>1, <1>3, <1>4 DEF ToRead
  <2> QED BY <1>1, <1>2, <1>4, <2>1, NoMoreToRead DEF TeamInv
<1>9. PeopleInv'
  <2>1. Unread' <=> Unread
    BY <1>1, <1>3, <1>4 DEF Unread
  <2>2. act.step # "reading" /\ teamActs[n].step # "reading"
    BY <1>1, <1>3
  <2>3. teamShown # << >> /\ SameTeam(teamPeople, teamShown, {}) => SameTeam(teamPeople, teamShown', {})
    BY <1>5 DEF SameTeam, Shows
  <2> QED BY <1>1, <1>4, <1>5, <2>1, <2>2, <2>3 DEF TeamInv, PeopleInv
<1>10. NameInv'
  <2> SUFFICES ASSUME ~teamUpset PROVE NameInv'
    BY <1>1 DEF NameInv
  <2>1. NameInv
    BY DEF TeamInv
  <2>2. \A m \in DOMAIN teamActs' :
          TeamPage!HasName(teamActs'[m]) =>
            \/ teamActs'[m].copy.name = teamName
            \/ teamName \in DOMAIN teamActs' /\ teamActs'[m].renamed = teamName
    BY <1>3, <1>4, <2>1 DEF NameInv, TeamPage!HasName
  <2>3. CASE act.op = "rename"
    BY <1>1, <1>5, <2>2, <2>3 DEF NameInv
  <2>4. CASE act.op # "rename"
    <3>1. teamName \in DOMAIN teamActs /\ teamActs[teamName].step = "ran" => teamName # n \/ teamName = 0
      BY <1>2, <1>3, <2>4 DEF ActsInv
    <3>2. n # 0
      BY <1>2, ActsFinite
    <3>3. teamName \in DOMAIN teamActs /\ teamActs[teamName].step = "ran" => teamActs'[teamName].step = "ran"
      BY <1>4, <3>1, <3>2
    <3> QED BY <1>1, <1>4, <1>5, <2>1, <2>2, <2>4, <3>3 DEF NameInv
  <2> QED BY <2>3, <2>4
<1> QED BY <1>6, <1>7, <1>8, <1>9, <1>10 DEF TeamInv

(* What a query notes is as the rows are, and the rest as it was. *)
LEMMA QueryNoted ==
  ASSUME TeamTyped, NEW copy \in TeamOverview, NEW query \in TeamPage!Reads
  PROVE  LET noted == TeamPage!Noted(copy, query) IN
         /\ noted \in TeamOverview /\ noted.torn = copy.torn
         /\ noted.members = IF query = "members" THEN [p \in People |-> TeamPage!Listed(teamPeople[p], "member")]
                                                ELSE copy.members
         /\ noted.invites = IF query = "invites" THEN [p \in People |-> TeamPage!Listed(teamPeople[p], "invited")]
                                                ELSE copy.invites
         /\ noted.name = IF query = "account" THEN teamName ELSE copy.name
<1> DEFINE members == [p \in People |-> TeamPage!Listed(teamPeople[p], "member")]
           invites == [p \in People |-> TeamPage!Listed(teamPeople[p], "invited")]
<1>1. members \in [People -> Person] /\ invites \in [People -> Person] /\ teamName \in 0..MaxActs
  BY TeamConstants DEF TeamTyped, TeamPage!Listed
<1>2. TeamPage!Noted(copy, query) = CASE query = "members" -> [copy EXCEPT !.members = members]
                                      [] query = "invites" -> [copy EXCEPT !.invites = invites]
                                      [] query = "account" -> [copy EXCEPT !.name = teamName]
  BY DEF TeamPage!Noted, TeamPage!Found, TeamPage!Reads, TeamPage!Lists
<1> HIDE DEF members, invites
<1>3. CASE query = "members"
  <2>1. TeamPage!Noted(copy, query) = [copy EXCEPT !.members = members]
    BY <1>2, <1>3
  <2> QED BY <1>1, <1>3, <2>1 DEF TeamOverview, members
<1>4. CASE query = "invites"
  <2>1. TeamPage!Noted(copy, query) = [copy EXCEPT !.invites = invites]
    BY <1>2, <1>4
  <2> QED BY <1>1, <1>4, <2>1 DEF TeamOverview, invites
<1>5. CASE query = "account"
  <2>1. TeamPage!Noted(copy, query) = [copy EXCEPT !.name = teamName]
    BY <1>2, <1>5
  <2> QED BY <1>1, <1>5, <2>1 DEF TeamOverview
<1> QED BY <1>3, <1>4, <1>5 DEF TeamPage!Reads, TeamPage!Lists

LEMMA QueryKeepsTeam ==
  ASSUME TeamTyped, NEW copy \in TeamOverview, NEW query \in TeamPage!Reads,
         NEW left \in SUBSET TeamPage!Reads, query \in left,
         SameTeam(teamPeople, copy, left)
  PROVE  SameTeam(teamPeople, TeamPage!Noted(copy, query), left \ {query})
<1> DEFINE noted == TeamPage!Noted(copy, query)
<1>1. /\ noted.torn = copy.torn
      /\ noted.members = IF query = "members" THEN [p \in People |-> TeamPage!Listed(teamPeople[p], "member")]
                                             ELSE copy.members
      /\ noted.invites = IF query = "invites" THEN [p \in People |-> TeamPage!Listed(teamPeople[p], "invited")]
                                             ELSE copy.invites
  BY QueryNoted
<1> HIDE DEF noted
<1> SUFFICES ASSUME NEW p \in People PROVE Shows(noted, left \ {query}, teamPeople[p], p)
  BY DEF SameTeam, noted
<1> DEFINE who == teamPeople[p]
<1>2. Shows(copy, left, who, p)
  BY DEF SameTeam
<1>3. CASE p \in copy.torn /\ who.as = "member"
  BY <1>1, <1>3 DEF Shows
<1>4. CASE /\ left \cap TeamPage!Lists = {}
           /\ copy.members[p] = TeamPage!Nobody /\ TeamPage!Joined(copy.invites[p], who)
  <2>1. query \notin TeamPage!Lists /\ (left \ {query}) \cap TeamPage!Lists = {}
    BY <1>4
  <2>2. noted.members = copy.members /\ noted.invites = copy.invites
    BY <1>1, <2>1 DEF TeamPage!Lists
  <2> QED BY <1>4, <2>1, <2>2 DEF Shows
<1>5. CASE /\ "members" \notin left => copy.members[p] = TeamPage!Listed(who, "member")
           /\ "invites" \notin left => copy.invites[p] = TeamPage!Listed(who, "invited")
  <2>1. "members" \notin left \ {query} => noted.members[p] = TeamPage!Listed(who, "member")
    BY <1>1, <1>5
  <2>2. "invites" \notin left \ {query} => noted.invites[p] = TeamPage!Listed(who, "invited")
    BY <1>1, <1>5
  <2> QED BY <2>1, <2>2 DEF Shows
<1> QED BY <1>2, <1>3, <1>4, <1>5 DEF Shows

(* The first query of an overview makes it the last that was begun. *)
LEMMA OverviewBegun ==
  ASSUME TeamInv, NEW n \in DOMAIN teamActs, NEW query \in TeamPage!Reads,
         TeamPage!OverviewRead(n, query), teamActs[n].step = "asking"
  PROVE  TeamInv'
<1> DEFINE seen == TeamPage!Noted(teamActs[n].copy, query)
           now == teamReads.last + 1
           act == [teamActs[n] EXCEPT !.step = "reading", !.copy = seen, !.left = @ \ {query}, !.read = now]
<1>1. /\ teamActs[n].step = "asking" /\ teamActs' = [teamActs EXCEPT ![n] = act]
      /\ teamReads' = [teamReads EXCEPT !.last = now]
      /\ UNCHANGED <<teamPeople, teamAccepts, teamInvites, teamName, teamMe, teamSeats, teamShown, teamUpset>>
  BY DEF TeamPage!OverviewRead, TeamPage!serverVars
<1>2. /\ TeamTyped /\ ActsInv /\ teamActs[n] \in TeamAct /\ teamReads.last \in Nat
      /\ teamReads \in [last : Nat, shown : Nat] /\ teamReads.shown <= teamReads.last
      /\ teamActs[n].op # "rename" /\ teamActs[n].left = TeamPage!Reads
      /\ teamActs[n].copy \in TeamOverview
  <2>1. TeamTyped /\ ActsInv /\ teamActs[n] \in TeamAct
    BY ActsFinite DEF TeamInv
  <2> QED BY <1>1, <2>1 DEF TeamTyped, ActsInv, TeamAct
<1>3. seen \in TeamOverview /\ (query = "account" => seen.name = teamName)
  BY <1>2, QueryNoted
<1>4. /\ teamReads' \in [last : Nat, shown : Nat] /\ teamReads'.last = now /\ teamReads'.shown = teamReads.shown
      /\ now \in Nat /\ now > teamReads.last /\ now # teamReads.shown
  BY <1>1, <1>2
<1>5. SameTeam(teamPeople, seen, TeamPage!Reads \ {query})
  <2>1. SameTeam(teamPeople, teamActs[n].copy, TeamPage!Reads)
    BY DEF SameTeam, Shows, TeamPage!Reads, TeamPage!Lists
  <2> QED BY <1>2, <2>1, QueryKeepsTeam
<1> HIDE DEF seen, now
<1>6. /\ act \in TeamAct /\ act.step = "reading" /\ act.copy = seen /\ act.read = now
      /\ act.left = TeamPage!Reads \ {query} /\ act.op = teamActs[n].op
      /\ act.who = teamActs[n].who /\ act.as = teamActs[n].as
  BY <1>2, <1>3, <1>4 DEF TeamAct
<1> HIDE DEF act
<1>7. /\ teamActs' \in Seq(TeamAct) /\ Len(teamActs') = Len(teamActs)
      /\ DOMAIN teamActs' = DOMAIN teamActs /\ teamActs'[n] = act
      /\ \A m \in DOMAIN teamActs : m # n => teamActs'[m] = teamActs[m]
  BY <1>1, <1>2, <1>6, ActMoved
<1>8. TeamTyped'
  <2>1. teamReads'.shown <= teamReads'.last
    BY <1>2, <1>4
  <2> QED BY <1>1, <1>2, <1>4, <1>7, <2>1 DEF TeamTyped
<1>9. ActsInv'
  <2>1. act.read <= teamReads'.last /\ teamReads.last <= teamReads'.last /\ teamReads'.last \in Nat
    BY <1>2, <1>4, <1>6
  <2> QED BY <1>1, <1>2, <1>6, <2>1, ActsGoOn
<1>10. ReadsInv'
  <2>1. n \in ToRead /\ ToRead' = ToRead \ {n}
    BY <1>1, <1>6, <1>7 DEF ToRead
  <2>2. IsFiniteSet(ToRead) /\ Cardinality(ToRead) \in Nat
    BY <1>2, ActsFinite
  <2>3. Cardinality(ToRead') = Cardinality(ToRead) - 1
    BY <2>1, <2>2, FS_RemoveElement
  <2> DEFINE old == Cardinality(ToRead)
             new == Cardinality(ToRead')
  <2>4. teamReads.last + old <= Len(teamActs) /\ old \in Nat /\ new = old - 1
    BY <2>2, <2>3 DEF TeamInv, ReadsInv
  <2> HIDE DEF old, new
  <2>5. teamReads'.last + new <= Len(teamActs')
    BY <1>2, <1>4, <1>7, <2>4 DEF now
  <2> QED BY <2>5 DEF ReadsInv, new
<1>11. PeopleInv'
  <2>1. \A m \in DOMAIN teamActs' : teamActs'[m].step = "reading" /\ teamActs'[m].read = teamReads'.last => m = n
    <3> SUFFICES ASSUME NEW m \in DOMAIN teamActs, m # n PROVE teamActs'[m].read # teamReads'.last
      BY <1>7
    <3>1. teamActs[m].read <= teamReads.last /\ teamActs[m].read \in Nat
      BY <1>2, ActsFinite DEF ActsInv, TeamAct
    <3> QED BY <1>2, <1>4, <1>7, <3>1
  <2> QED BY <1>1, <1>4, <1>5, <1>6, <1>7, <2>1 DEF PeopleInv
<1>12. NameInv'
  <2>1. teamName \in DOMAIN teamActs /\ teamActs[teamName].step = "ran" =>
          teamName \in DOMAIN teamActs' /\ teamActs'[teamName].step = "ran"
    BY <1>1, <1>7
  <2>2. TeamPage!HasName(act) => act.copy.name = teamName
    BY <1>3, <1>6 DEF TeamPage!HasName, TeamPage!Reads
  <2> QED BY <1>1, <1>7, <2>1, <2>2 DEF TeamInv, NameInv
<1> QED BY <1>8, <1>9, <1>10, <1>11, <1>12 DEF TeamInv

LEMMA OverviewGoesOn ==
  ASSUME TeamInv, NEW n \in DOMAIN teamActs, NEW query \in TeamPage!Reads,
         TeamPage!OverviewRead(n, query), teamActs[n].step # "asking"
  PROVE  TeamInv'
<1> DEFINE old == teamActs[n]
           act == [old EXCEPT !.step = "reading", !.copy = TeamPage!Noted(old.copy, query), !.left = @ \ {query},
                              !.read = old.read]
<1>1. /\ old.step = "reading" /\ query \in old.left /\ teamActs' = [teamActs EXCEPT ![n] = act]
      /\ UNCHANGED <<teamPeople, teamAccepts, teamInvites, teamName, teamMe, teamSeats, teamShown, teamUpset>>
      /\ UNCHANGED teamReads
  BY DEF TeamPage!OverviewRead, TeamPage!serverVars
<1>2. /\ TeamTyped /\ ActsInv /\ old \in TeamAct /\ old.op # "rename" /\ teamReads.last \in Nat
      /\ old.copy \in TeamOverview /\ old.left \in SUBSET TeamPage!Reads /\ old.read \in Nat
      /\ old.read <= teamReads.last
  <2>1. TeamTyped /\ ActsInv /\ old \in TeamAct
    BY ActsFinite DEF TeamInv
  <2> QED BY <1>1, <2>1 DEF TeamTyped, ActsInv, TeamAct
<1>3. /\ TeamPage!Noted(old.copy, query) \in TeamOverview
      /\ TeamPage!Noted(old.copy, query).name = IF query = "account" THEN teamName ELSE old.copy.name
  BY <1>2, QueryNoted
<1>4. /\ act \in TeamAct /\ act.step = "reading" /\ act.copy = TeamPage!Noted(old.copy, query)
      /\ act.read = old.read /\ act.left = old.left \ {query} /\ act.op = old.op
      /\ act.who = old.who /\ act.as = old.as /\ act.renamed = old.renamed
  BY <1>2, <1>3 DEF TeamAct
<1> HIDE DEF act, old
<1>5. /\ teamActs' \in Seq(TeamAct) /\ Len(teamActs') = Len(teamActs)
      /\ DOMAIN teamActs' = DOMAIN teamActs /\ teamActs'[n] = act
      /\ \A m \in DOMAIN teamActs : m # n => teamActs'[m] = teamActs[m]
  BY <1>1, <1>2, <1>4, ActMoved
<1>6. TeamTyped'
  BY <1>1, <1>2, <1>5 DEF TeamTyped
<1>7. ActsInv'
  <2>1. act.read <= teamReads'.last /\ teamReads.last <= teamReads'.last /\ teamReads'.last \in Nat
    BY <1>1, <1>2, <1>4
  <2> QED BY <1>1, <1>2, <1>4, <2>1, ActsGoOn DEF old
<1>8. ReadsInv'
  <2>1. ToRead' \subseteq ToRead
    BY <1>4, <1>5 DEF ToRead
  <2> QED BY <1>1, <1>2, <1>5, <2>1, NoMoreToRead DEF TeamInv
<1>9. PeopleInv'
  <2>1. Unread' <=> Unread
    BY <1>1, <1>4, <1>5 DEF Unread, old
  <2>2. SameTeam(teamPeople, old.copy, old.left) => SameTeam(teamPeople, act.copy, act.left)
    BY <1>1, <1>2, <1>4, QueryKeepsTeam
  <2>3. \A m \in DOMAIN teamActs :
          teamActs'[m].step = teamActs[m].step /\ teamActs'[m].read = teamActs[m].read
    BY <1>1, <1>4, <1>5 DEF old
  <2> QED BY <1>1, <1>5, <2>1, <2>2, <2>3 DEF TeamInv, PeopleInv, old
<1>10. NameInv'
  <2>1. teamName \in DOMAIN teamActs /\ teamActs[teamName].step = "ran" =>
          teamName \in DOMAIN teamActs' /\ teamActs'[teamName].step = "ran"
    BY <1>1, <1>5 DEF old
  <2>2. CASE query = "account"
    <3>1. act.copy.name = teamName
      BY <1>3, <1>4, <2>2
    <3> QED BY <1>1, <1>5, <2>1, <3>1 DEF TeamInv, NameInv
  <2>3. CASE query # "account"
    <3>1. act.copy.name = old.copy.name /\ (TeamPage!HasName(act) => TeamPage!HasName(old))
      BY <1>1, <1>3, <1>4, <2>3 DEF TeamPage!HasName
    <3> QED BY <1>1, <1>4, <1>5, <2>1, <3>1 DEF TeamInv, NameInv, old
  <2> QED BY <2>2, <2>3
<1> QED BY <1>6, <1>7, <1>8, <1>9, <1>10 DEF TeamInv

(* An overview is shown: the last one that was read, or something was upset. *)
LEMMA OverviewShown ==
  ASSUME TeamInv, NEW n \in DOMAIN teamActs, TeamPage!Refreshed(n)
  PROVE  TeamInv'
<1> DEFINE old == teamActs[n]
           act == [op |-> old.op, who |-> old.who, as |-> old.as, step |-> "end",
                   copy |-> TeamPage!Blank, left |-> TeamPage!Reads, read |-> 0, renamed |-> 0]
<1>1. /\ old.step = "reading" /\ old.left = {} /\ teamActs' = [teamActs EXCEPT ![n] = act]
      /\ teamShown' = old.copy /\ teamReads' = [teamReads EXCEPT !.shown = old.read]
      /\ teamUpset' = (\/ teamUpset \/ old.read < teamReads.shown
                       \/ old.renamed \in DOMAIN teamActs \ TeamPage!UnderWay)
      /\ UNCHANGED <<teamPeople, teamAccepts, teamInvites, teamName, teamMe, teamSeats>>
  BY DEF TeamPage!Refreshed, TeamPage!serverVars, TeamPage!Act
<1>2. /\ TeamTyped /\ ActsInv /\ old \in TeamAct /\ teamReads \in [last : Nat, shown : Nat]
      /\ teamReads.shown <= teamReads.last /\ old.op # "rename" /\ teamUpset \in BOOLEAN
  BY <1>1, ActsFinite DEF TeamInv, TeamTyped, ActsInv
<1>3. /\ act \in TeamAct /\ act.step = "end" /\ act.op = old.op /\ act.who = old.who
      /\ act.as = old.as /\ act.read = 0
  BY <1>2, AppAssumption, BlankOverview DEF TeamAct
<1>4. /\ old.copy \in TeamOverview /\ old.copy # << >> /\ old.read \in Nat /\ old.read <= teamReads.last
  BY <1>1, <1>2, BlankOverview DEF TeamAct, ActsInv
<1> HIDE DEF act, old
<1>5. /\ teamActs' \in Seq(TeamAct) /\ Len(teamActs') = Len(teamActs)
      /\ DOMAIN teamActs' = DOMAIN teamActs /\ teamActs'[n] = act
      /\ \A m \in DOMAIN teamActs : m # n => teamActs'[m] = teamActs[m]
  BY <1>1, <1>2, <1>3, ActMoved
<1>6. /\ teamReads' \in [last : Nat, shown : Nat] /\ teamReads'.last = teamReads.last
      /\ teamReads'.shown = old.read
  BY <1>1, <1>2, <1>4
<1>7. TeamTyped'
  <2>1. teamUpset' \in BOOLEAN
    BY <1>1, <1>2
  <2>2. teamShown' \in TeamOverview \cup {<< >>}
    BY <1>1, <1>4
  <2>3. teamReads'.shown <= teamReads'.last
    BY <1>4, <1>6
  <2> QED BY <1>1, <1>2, <1>5, <1>6, <2>1, <2>2, <2>3 DEF TeamTyped
<1>8. ActsInv'
  <2>1. act.read <= teamReads'.last /\ teamReads.last <= teamReads'.last /\ teamReads'.last \in Nat
    BY <1>2, <1>3, <1>6
  <2> QED BY <1>1, <1>2, <1>3, <1>4, <2>1, ActsGoOn DEF old
<1>9. ReadsInv'
  <2>1. ToRead' \subseteq ToRead
    BY <1>3, <1>5 DEF ToRead
  <2> QED BY <1>2, <1>5, <1>6, <2>1, NoMoreToRead DEF TeamInv
<1>10. PeopleInv'
  <2>1. Unread' <=> Unread
    BY <1>1, <1>3, <1>5 DEF Unread, old
  <2> SUFFICES ASSUME ~teamUpset', ~Unread PROVE PeopleInv'
    BY <2>1 DEF PeopleInv
  <2>2. ~teamUpset /\ ~(old.read < teamReads.shown)
    BY <1>1
  <2>3. /\ \/ teamReads.shown = teamReads.last
           \/ \E m \in DOMAIN teamActs : teamActs[m].step = "reading" /\ teamActs[m].read = teamReads.last
        /\ \A m \in DOMAIN teamActs :
             teamActs[m].step = "reading" /\ teamActs[m].read = teamReads.last =>
               SameTeam(teamPeople, teamActs[m].copy, teamActs[m].left)
    BY <2>2 DEF TeamInv, PeopleInv
  <2>4. \/ teamReads'.shown = teamReads'.last
        \/ \E m \in DOMAIN teamActs' : teamActs'[m].step = "reading" /\ teamActs'[m].read = teamReads'.last
    <3>1. CASE old.read = teamReads.last
      BY <1>6, <3>1
    <3>2. CASE old.read # teamReads.last
      <4>1. teamReads.shown # teamReads.last
        BY <1>2, <1>4, <2>2, <3>2
      <4>2. PICK m \in DOMAIN teamActs : teamActs[m].step = "reading" /\ teamActs[m].read = teamReads.last
        BY <2>3, <4>1
      <4>3. m # n
        BY <3>2, <4>2 DEF old
      <4> QED BY <1>5, <1>6, <4>2, <4>3
    <3> QED BY <3>1, <3>2
  <2>5. teamReads'.shown = teamReads'.last => SameTeam(teamPeople, old.copy, {})
    BY <1>1, <1>6, <2>3 DEF old
  <2>6. \A m \in DOMAIN teamActs' :
          teamActs'[m].step = "reading" /\ teamActs'[m].read = teamReads'.last =>
            SameTeam(teamPeople, teamActs'[m].copy, teamActs'[m].left)
    BY <1>3, <1>5, <1>6, <2>3
  <2> QED BY <1>1, <1>4, <2>4, <2>5, <2>6 DEF PeopleInv
<1>11. NameInv'
  <2> SUFFICES ASSUME ~teamUpset' PROVE NameInv'
    BY DEF NameInv
  <2>1. ~teamUpset /\ old.renamed \notin DOMAIN teamActs \ TeamPage!UnderWay
    BY <1>1
  <2>2. NameInv
    BY DEF TeamInv
  <2>3. teamName \in DOMAIN teamActs /\ teamActs[teamName].step = "ran" =>
          teamName \in DOMAIN teamActs' /\ teamActs'[teamName].step = "ran"
    BY <1>1, <1>5 DEF old
  <2>4. \/ old.copy.name = teamName
        \/ teamName \in DOMAIN teamActs /\ teamActs[teamName].step = "ran"
    <3> SUFFICES ASSUME old.copy.name # teamName
                 PROVE  teamName \in DOMAIN teamActs /\ teamActs[teamName].step = "ran"
      OBVIOUS
    <3>1. teamName \in DOMAIN teamActs /\ old.renamed = teamName
      BY <1>1, <2>1, <2>2 DEF NameInv, TeamPage!HasName, old
    <3>2. teamActs[teamName].step # "end"
      BY <2>1, <3>1 DEF TeamPage!UnderWay
    <3>3. teamName # 0
      BY <1>2, <3>1, ActsFinite
    <3> QED BY <1>2, <3>1, <3>2, <3>3 DEF ActsInv
  <2> QED BY <1>1, <1>3, <1>5, <2>1, <2>2, <2>3, <2>4 DEF NameInv, TeamPage!HasName
<1> QED BY <1>7, <1>8, <1>9, <1>10, <1>11 DEF TeamInv

(* A rename that runs: what was read before knows of it. *)
LEMMA Renamed ==
  ASSUME TeamInv, NEW n \in DOMAIN teamActs, TeamPage!Runs(n), teamActs[n].op = "rename"
  PROVE  TeamInv'
<1> DEFINE Made(m) == [teamActs[m] EXCEPT !.step = IF m = n THEN "ran" ELSE @,
                                          !.renamed = IF TeamPage!HasName(teamActs[m]) THEN n ELSE @]
<1>1. /\ teamActs[n].step = "sent" /\ teamName' = n
      /\ teamActs' = [m \in DOMAIN teamActs |-> Made(m)]
      /\ teamInvites' = teamInvites
      /\ UNCHANGED <<teamPeople, teamAccepts, teamMe, teamSeats, teamShown, teamReads, teamUpset>>
  BY DEF TeamPage!Runs
<1>2. /\ TeamTyped /\ ActsInv /\ Len(teamActs) \in Nat /\ DOMAIN teamActs = 1..Len(teamActs) /\ n # 0
      /\ \A m \in DOMAIN teamActs : teamActs[m] \in TeamAct
      /\ n \in 0..MaxActs
  <2>1. n \in 1..MaxActs
    BY ActsFinite DEF TeamInv
  <2> QED BY <2>1, ActsFinite, AppAssumption DEF TeamInv
<1>3. \A m \in DOMAIN teamActs :
        /\ Made(m) \in TeamAct /\ Made(m).op = teamActs[m].op /\ Made(m).who = teamActs[m].who
        /\ Made(m).as = teamActs[m].as /\ Made(m).copy = teamActs[m].copy /\ Made(m).read = teamActs[m].read
        /\ Made(m).step = IF m = n THEN "ran" ELSE teamActs[m].step
        /\ Made(m).left = teamActs[m].left
        /\ TeamPage!HasName(teamActs[m]) => Made(m).renamed = n
  BY <1>2 DEF TeamAct
<1> HIDE DEF Made
<1>4. /\ teamActs' \in Seq(TeamAct) /\ Len(teamActs') = Len(teamActs) /\ DOMAIN teamActs' = DOMAIN teamActs
      /\ \A m \in DOMAIN teamActs : teamActs'[m] = Made(m)
  BY <1>1, <1>2, <1>3
<1>5. TeamTyped'
  BY <1>1, <1>2, <1>4 DEF TeamTyped
<1>6. \A m \in DOMAIN teamActs : teamActs[m].op = "rename" /\ teamActs[m].step # "end" => m = n
  BY <1>1, <1>2 DEF ActsInv
<1>7. ActsInv'
  <2>1. teamShown # << >>
    BY <1>1, <1>2 DEF ActsInv
  <2>2. \A m \in DOMAIN teamActs' : teamActs'[m].op = "rename" /\ teamActs'[m].step # "end" => m = n
    BY <1>3, <1>4, <1>6
  <2>3. ASSUME NEW m \in DOMAIN teamActs' PROVE
          /\ teamActs'[m].op = "load" => teamActs'[m].step \notin {"sent", "ran"}
          /\ teamActs'[m].op = "rename" => teamActs'[m].step \in {"sent", "ran", "end"}
          /\ teamActs'[m].op \notin {"load", "rename"} => teamActs'[m].who \in People
          /\ teamActs'[m].op = "role" => teamActs'[m].as \in Person
          /\ teamActs'[m].step \in {"sent", "ran", "asking"} => teamActs'[m].left = TeamPage!Reads
          /\ teamActs'[m].read <= teamReads.last
    BY <1>1, <1>2, <1>3, <1>4, <2>3 DEF ActsInv
  <2>4. teamName' \in DOMAIN teamActs' /\ teamActs'[teamName'].op = "rename" /\ teamActs'[teamName'].step = "ran"
    BY <1>1, <1>3, <1>4
  <2> QED BY <1>1, <2>1, <2>2, <2>3, <2>4 DEF ActsInv
<1>8. ReadsInv'
  <2>1. ToRead' \subseteq ToRead
    BY <1>1, <1>3, <1>4 DEF ToRead
  <2> QED BY <1>1, <1>2, <1>4, <2>1, NoMoreToRead DEF TeamInv
<1>9. PeopleInv'
  <2>1. Unread' <=> Unread
    BY <1>1, <1>3, <1>4 DEF Unread
  <2>2. \A m \in DOMAIN teamActs : teamActs'[m].step = "reading" <=> teamActs[m].step = "reading"
    BY <1>1, <1>3, <1>4
  <2>3. \A m \in DOMAIN teamActs : /\ teamActs'[m].read = teamActs[m].read /\ teamActs'[m].copy = teamActs[m].copy
                                    /\ teamActs'[m].left = teamActs[m].left
    BY <1>3, <1>4
  <2> QED BY <1>1, <1>4, <2>1, <2>2, <2>3 DEF TeamInv, PeopleInv
<1>10. NameInv'
  <2>1. \A m \in DOMAIN teamActs' : TeamPage!HasName(teamActs'[m]) => teamActs'[m].renamed = n
    BY <1>1, <1>3, <1>4 DEF TeamPage!HasName
  <2>2. n \in DOMAIN teamActs' /\ teamActs'[n].step = "ran"
    BY <1>3, <1>4
  <2> QED BY <1>1, <2>1, <2>2 DEF NameInv
<1> QED BY <1>5, <1>7, <1>8, <1>9, <1>10 DEF TeamInv

(* Any other change that runs: no overview has it before one is asked for. *)
LEMMA PersonChanged ==
  ASSUME TeamInv, NEW n \in DOMAIN teamActs, TeamPage!Runs(n), teamActs[n].op # "rename"
  PROVE  TeamInv'
<1> DEFINE old == teamActs[n]
           act == [old EXCEPT !.step = "ran"]
           after == TeamPage!After(n)
<1>1. /\ old.step = "sent" /\ TeamPage!Allowed(old) /\ teamPeople' = [teamPeople EXCEPT ![old.who] = after]
      /\ teamActs' = [teamActs EXCEPT ![n] = act]
      /\ teamInvites' = CASE old.op = "revoke" -> teamInvites \ {old.as.id}
                          [] old.op = "invite" -> teamInvites \cup {after.id}
                          [] OTHER -> teamInvites
      /\ UNCHANGED <<teamAccepts, teamName, teamMe, teamSeats, teamShown, teamReads, teamUpset>>
  BY DEF TeamPage!Runs
<1>2. /\ TeamTyped /\ ActsInv /\ old \in TeamAct /\ n \in 1..MaxActs
      /\ old.op \in {"invite", "revoke", "remove", "role"} /\ old.who \in People
      /\ teamReads.last \in Nat
  <2>1. TeamTyped /\ ActsInv /\ old \in TeamAct /\ n \in 1..MaxActs /\ teamReads.last \in Nat
    BY ActsFinite DEF TeamInv, TeamTyped
  <2> QED BY <1>1, <2>1 DEF TeamAct, ActsInv
<1>3. teamPeople[old.who] \in Person /\ old.as \in Asker
  BY <1>2 DEF TeamTyped, TeamAct
<1>4. after \in Person /\ (old.op = "invite" => after.id \in 1..MaxActs)
  <2>1. CASE old.op = "invite"
    <3>1. teamPeople[old.who].as = "invited" \/ teamPeople[old.who] = TeamPage!Nobody
      BY <1>1, <2>1 DEF TeamPage!Allowed
    <3>2. old.as.role \in TeamPage!Roles
      BY <1>3, TeamConstants
    <3>3. CASE teamPeople[old.who].as = "invited"
      <4>1. after = [teamPeople[old.who] EXCEPT !.role = old.as.role]
        BY <2>1, <3>3 DEF TeamPage!After
      <4>2. teamPeople[old.who] # TeamPage!Nobody /\ teamPeople[old.who].id \in 1..MaxActs
        BY <1>3, <3>3, TeamConstants
      <4> QED BY <1>3, <3>2, <4>1, <4>2 DEF Person
    <3>4. CASE teamPeople[old.who].as # "invited"
      <4>1. after = [as |-> "invited", role |-> old.as.role, id |-> n]
        BY <2>1, <3>4 DEF TeamPage!After
      <4> QED BY <1>2, <3>2, <4>1 DEF Person
    <3> QED BY <3>3, <3>4
  <2>2. CASE old.op = "revoke"
    BY <1>3, <2>2, TeamConstants DEF TeamPage!After
  <2>3. CASE old.op = "remove"
    BY <2>3, TeamConstants DEF TeamPage!After
  <2>4. CASE old.op = "role"
    BY <1>2, <2>4 DEF TeamPage!After, ActsInv
  <2> QED BY <1>2, <2>1, <2>2, <2>3, <2>4
<1> HIDE DEF after
<1>5. teamPeople' \in [People -> Person] /\ teamInvites' \subseteq 1..MaxActs
  <2>1. teamPeople' \in [People -> Person]
    BY <1>1, <1>2, <1>4 DEF TeamTyped
  <2>2. teamInvites' \subseteq teamInvites \cup {after.id} /\ (old.op # "invite" => teamInvites' \subseteq teamInvites)
    BY <1>1
  <2> QED BY <1>2, <1>4, <2>1, <2>2 DEF TeamTyped
<1>6. /\ act \in TeamAct /\ act.step = "ran" /\ act.op = old.op /\ act.who = old.who
      /\ act.as = old.as /\ act.read = old.read /\ act.left = TeamPage!Reads
  BY <1>1, <1>2 DEF TeamAct, ActsInv
<1> HIDE DEF act, old
<1>7. /\ teamActs' \in Seq(TeamAct) /\ Len(teamActs') = Len(teamActs)
      /\ DOMAIN teamActs' = DOMAIN teamActs /\ teamActs'[n] = act
      /\ \A m \in DOMAIN teamActs : m # n => teamActs'[m] = teamActs[m]
  BY <1>1, <1>2, <1>6, ActMoved
<1>8. TeamTyped'
  BY <1>1, <1>2, <1>5, <1>7 DEF TeamTyped
<1>9. ActsInv'
  <2>1. act.read <= teamReads'.last /\ teamReads.last <= teamReads'.last
    BY <1>1, <1>2, <1>6 DEF ActsInv, old
  <2> QED BY <1>1, <1>2, <1>6, <2>1, ActsGoOn DEF old
<1>10. ReadsInv'
  <2>1. ToRead' \subseteq ToRead
    BY <1>1, <1>6, <1>7 DEF ToRead, old
  <2> QED BY <1>1, <1>2, <1>7, <2>1, NoMoreToRead DEF TeamInv
<1>11. PeopleInv'
  <2>1. Unread'
    BY <1>2, <1>6, <1>7 DEF Unread
  <2> QED BY <2>1 DEF PeopleInv
<1>12. NameInv'
  <2>1. teamName \in DOMAIN teamActs /\ teamActs[teamName].step = "ran" =>
          teamName \in DOMAIN teamActs' /\ teamActs'[teamName].step = "ran"
    BY <1>6, <1>7
  <2> QED BY <1>1, <1>6, <1>7, <2>1 DEF TeamInv, NameInv, TeamPage!HasName
<1> QED BY <1>8, <1>9, <1>10, <1>11, <1>12 DEF TeamInv

LEMMA TeamNext == TeamInv /\ [TeamPage!Next]_teamVars => TeamInv'
<1> SUFFICES ASSUME TeamInv, [TeamPage!Next]_teamVars PROVE TeamInv'
  OBVIOUS
<1>1. CASE TeamPage!Next
  BY <1>1, TeamTapped, AcceptBegun, SomebodyJoined, Renamed, PersonChanged, ActFailed, ActAnswered,
     OverviewBegun, OverviewGoesOn, OverviewShown, ReloadFailed DEF TeamPage!Next
<1>2. CASE UNCHANGED teamVars
  <2>1. /\ UNCHANGED <<teamPeople, teamAccepts, teamInvites, teamName, teamMe, teamSeats, teamShown>>
        /\ UNCHANGED <<teamActs, teamReads, teamUpset>>
    BY <1>2 DEF teamVars
  <2>2. ToRead' = ToRead /\ (Unread' <=> Unread)
    BY <2>1 DEF ToRead, Unread
  <2>3. TeamTyped' /\ ActsInv' /\ NameInv'
    BY <2>1 DEF TeamInv, TeamTyped, ActsInv, NameInv
  <2>4. ReadsInv' /\ PeopleInv'
    BY <2>1, <2>2 DEF TeamInv, ReadsInv, PeopleInv
  <2> QED BY <2>3, <2>4 DEF TeamInv
<1> QED BY <1>1, <1>2

LEMMA TeamOnly == [Next]_vars => [TeamPage!Next]_teamVars
BY DEF Next, vars, GateOpens, GateRedirects, ItemStep, NoteStep, SearchStep, InboxStep, PlacesStep, TeamStep

LEMMA TeamAlways == Spec => []TeamInv
<1>1. Init => TeamInv
  BY TeamInit DEF Init
<1>2. TeamInv /\ [Next]_vars => TeamInv'
  BY TeamNext, TeamOnly
<1> QED BY <1>1, <1>2, PTL DEF Spec

LEMMA TeamShownIsTrue == TeamInv => TeamPage!TeamTrue
<1> SUFFICES ASSUME TeamInv, \A n \in DOMAIN teamActs : teamActs[n].step = "end", ~teamUpset
             PROVE  teamShown.name = teamName /\ SameTeam(teamPeople, teamShown, {})
  BY DEF TeamPage!TeamTrue, TeamPage!UnderWay, SameTeam, Shows, TeamPage!AsItIs, TeamPage!JoinedSince,
         TeamPage!JoinedMeanwhile
<1>1. ~Unread
  BY DEF Unread
<1>2. teamShown # << >> /\ SameTeam(teamPeople, teamShown, {})
  BY <1>1 DEF TeamInv, PeopleInv
<1>3. teamShown.name = teamName
  BY <1>2 DEF TeamInv, NameInv
<1> QED BY <1>2, <1>3

(* At rest the page of an item shows what the server has of the item in the URL, *)
(* and the team page the team, whichever saves, loads and reloads crossed: unless *)
(* an answer or a reload was lost or came after a later one, as the item page's   *)
(* and the team page's `upset` remember.                                          *)
THEOREM ScreensAreTrue == Spec => []ScreenTrue
<1>1. ItemInv /\ TeamInv => ScreenTrue
  BY ItemShownIsTrue, TeamShownIsTrue DEF ScreenTrue
<1> QED BY <1>1, ItemAlways, TeamAlways, PTL

-----------------------------------------------------------------------------
(* Type correctness *)

LEMMA ItemTypes == ItemInv => Item!TypeOK
<1> SUFFICES ASSUME ItemInv PROVE Item!TypeOK
  OBVIOUS
<1>1. ItemTyped /\ SavesInv
  BY DEF ItemInv
<1>2. \A n \in DOMAIN itemLoads : itemLoads[n] \in ItemLoad
  BY <1>1 DEF ItemTyped
<1>3. \A f \in Item!Saving : itemSaves[f] \in ItemSave
  BY <1>1 DEF ItemTyped, Item!Saving
<1>4. /\ Contents = Item!Contents /\ ItemShown = Item!Shown
  BY DEF Contents, ItemShown, Item!Contents, Item!Shown, Ids
<1>5. \A f \in Item!Saving : /\ itemSaves[f].step \in {"sent", "answered", "failed"}
                             /\ itemSaves[f].copy \in Item!Shown
                             /\ itemSaves[f].item = itemSaves[f].copy.id
  BY <1>1, <1>3, <1>4 DEF ItemSave, SavesInv
<1> QED BY <1>1, <1>2, <1>4, <1>5 DEF ItemTyped, Item!TypeOK, ItemLoad, Ids

LEMMA NoteTypes == NoteInv => NotePage!TypeOK
<1> SUFFICES ASSUME NoteInv PROVE NotePage!TypeOK
  OBVIOUS
<1>1. Place = NotePage!Choices /\ Said = 1..MaxWords
  BY DEF Place, NotePage!Choices, Said
<1>2. noteSave.step \in NotePage!SaveSteps /\ noteSave.photo \in 0..(MaxPhotos + 1)
  <2>1. CASE noteSave = [step |-> "idle", photo |-> 0, form |-> << >>]
    BY <2>1, AppAssumption DEF NotePage!SaveSteps
  <2>2. CASE noteSave \in [step : Saving, photo : 0..(MaxPhotos + 1), form : Entered]
    BY <2>2 DEF Saving, NotePage!SaveSteps, NotePage!PhotoSteps
  <2> QED BY <2>1, <2>2 DEF NoteInv, NoteTyped
<1>3. noteRow \in [loc : NotePage!Choices, folder : NotePage!Choices, text : Seq(1..MaxWords),
                   attached : -1..MaxPhotos]
  BY <1>1 DEF NoteInv, NoteTyped, Notes
<1> QED BY <1>1, <1>2, <1>3 DEF NoteInv, NoteTyped, NotePage!TypeOK

LEMMA SearchTypes == SearchInv => Search!TypeOK
<1> SUFFICES ASSUME SearchInv PROVE Search!TypeOK
  OBVIOUS
<1>1. \A n \in DOMAIN searchCalls : searchCalls[n] \in Call
  BY DEF SearchInv
<1> QED BY <1>1 DEF SearchInv, Search!TypeOK, Call

LEMMA InboxTypes == InboxInv => InboxPage!TypeOK
<1> SUFFICES ASSUME InboxInv PROVE InboxPage!TypeOK
  OBVIOUS
<1>1. /\ \A n \in DOMAIN inboxLoads : inboxLoads[n] \in InboxLoad
      /\ \A n \in DOMAIN inboxFilings : inboxFilings[n] \in InboxFiling
  BY DEF InboxInv, InboxTyped
<1>2. Draft = InboxPage!Draft /\ NoDraft = InboxPage!NoDraft
  BY DEF Draft, NoDraft, InboxPage!Draft, InboxPage!NoDraft
<1> QED BY <1>1, <1>2 DEF InboxInv, InboxTyped, InboxPage!TypeOK, InboxLoad, InboxFiling

LEMMA PlacesTypes == PlacesInv => PlacesPage!TypeOK
BY DEF PlacesInv, PlacesTyped, PlacesPage!TypeOK, Who, PlacesPage!Who, Adding

LEMMA TeamTypes == TeamInv => TeamPage!TypeOK
<1> SUFFICES ASSUME TeamInv PROVE TeamPage!TypeOK
  OBVIOUS
<1>1. \A n \in DOMAIN teamActs : teamActs[n] \in TeamAct
  BY ActsFinite DEF TeamInv
<1>2. Person = TeamPage!Person
  BY DEF Person, TeamPage!Person
<1>3. teamReads \in [last : 0..MaxActs, shown : 0..MaxActs]
  <2>1. /\ teamReads \in [last : Nat, shown : Nat] /\ teamReads.shown <= teamReads.last
        /\ Len(teamActs) \in Nat /\ Len(teamActs) <= MaxActs /\ MaxActs \in Nat
        /\ Cardinality(ToRead) \in Nat
    BY ActsFinite, AppAssumption DEF TeamInv, TeamTyped
  <2> DEFINE c == Cardinality(ToRead)
  <2>2. c \in Nat /\ teamReads.last + c <= Len(teamActs)
    BY <2>1 DEF TeamInv, ReadsInv
  <2> HIDE DEF c
  <2>3. teamReads.last \in 0..MaxActs /\ teamReads.shown \in 0..MaxActs
    BY <2>1, <2>2
  <2> QED BY <2>1, <2>3
<1>4. \A n \in DOMAIN teamActs :
        /\ teamActs[n].op \in {"load", "invite", "revoke", "remove", "role", "rename"}
        /\ teamActs[n].step \in {"sent", "ran", "asking", "reading", "end"}
        /\ teamActs[n].as \in TeamPage!Person \cup [as : {"nobody"}, role : TeamPage!Roles, id : {0}]
        /\ teamActs[n].left \subseteq TeamPage!Reads
  BY <1>1, <1>2 DEF TeamAct, Asker
<1> QED BY <1>2, <1>3, <1>4 DEF TeamInv, TeamTyped, TeamOverview, TeamPage!TypeOK

(* The gate is what its guard left it, and every page's state is of its type. *)
THEOREM AppTypeCorrect == Spec => []TypeOK
<1> DEFINE GateTyped == appPage \in Routes /\ appGate \in {"checking", "in", "out"}
<1>1. Init => GateTyped
  BY DEF Init
<1>2. GateTyped /\ [Next]_vars => GateTyped'
  <2>1. "login" \in Routes
    BY DEF Routes, Open
  <2> QED BY <2>1 DEF Next, vars, appVars, On, GateOpens, GateRedirects, ItemStep, NoteStep, SearchStep,
                      InboxStep, PlacesStep, TeamStep
<1>3. Spec => []GateTyped
  <2> HIDE DEF GateTyped
  <2> QED BY <1>1, <1>2, PTL DEF Spec
<1>4. Spec => []SearchInv
  <2>1. Init => SearchInv
    BY SearchInit DEF Init
  <2>2. SearchInv /\ [Next]_vars => SearchInv'
    BY SearchNext, SearchOnly
  <2> QED BY <2>1, <2>2, PTL DEF Spec
<1>5. GateTyped /\ ItemInv /\ NoteInv /\ SearchInv /\ InboxInv /\ PlacesInv /\ TeamInv => TypeOK
  BY ItemTypes, NoteTypes, SearchTypes, InboxTypes, PlacesTypes, TeamTypes DEF TypeOK
<1> QED BY <1>3, <1>4, <1>5, ItemAlways, NoteAlways, InboxAlways, PlacesAlways, TeamAlways, PTL
================================================================================
