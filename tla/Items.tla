-------------------------------- MODULE Items --------------------------------
(***************************************************************************)
(* The items of one account: ItemsService of the API with the three stores *)
(* it keeps in step, the rows (Postgres), the files (object storage) and   *)
(* the search index (Meilisearch).                                         *)
(*                                                                         *)
(* A request is a record with the statement its handler awaits next, so    *)
(* that the handlers of several devices interleave between their reads,    *)
(* their writes and their index tasks.  Covered: every operation that      *)
(* writes, the lists that find an item again, search, a restart of the     *)
(* API.  Not covered: ownership by other accounts, titles and bodies,      *)
(* stamps (a data field), and the order of the lists.  Each location has   *)
(* one folder and one spot, which bear its name.                           *)
(***************************************************************************)
EXTENDS Integers, FiniteSets, FiniteSetsExt

CONSTANTS Reqs,         \* requests the API handles at a time
          MaxItems,     \* bound: items ever created
          Locs,         \* locations of the account
          Tags,         \* tag names
          Sizes,        \* sizes of files, in some unit
          Limit,        \* maxStorageBytes of the plan, in that unit
          NewItems,     \* bodies of the create request: place and tags
          Filings,      \* bodies of the file request
          MaxRequests,  \* bound: requests that are taken in, other than to create
          MaxFaults,    \* bound: statements and index tasks that fail, restarts
          None,         \* null
          Omit          \* a key left out of a request body

ASSUME ItemsAssumption == /\ MaxItems \in Nat /\ Limit \in Nat /\ Sizes \subseteq Nat \ {0}
                          /\ MaxRequests \in Nat /\ MaxFaults \in Nat
                          /\ None \notin Locs /\ Omit \notin Locs /\ None # Omit

Ids == 1..MaxItems
Slots == Locs \cup {None}
Place == [loc : Slots, folder : Slots, spot : Slots]
Inbox == [loc |-> None, folder |-> None, spot |-> None]
Types == {"note", "photo"}             \* a photo stands for the MEDIA_TYPES
Filing == [loc : Slots, folder : Slots \cup {Omit}, spot : Slots \cup {Omit}]

ASSUME BodiesAssumption == /\ NewItems \subseteq [place : Place, tags : SUBSET Tags]
                           /\ Filings \subseteq Filing

VARIABLES row,       \* the Item rows: NoRow, or [type, place, fav, bytes]
          tags,      \* ItemTag rows: tag names of each item
          attached,  \* NoteAttachment rows: <<note, attachment>>
          file,      \* the object at storageKey: "none", "stored", "deleted"
          used,      \* Account.storageUsedBytes
          index,     \* documents of the search index: Unindexed, or a location
          req,       \* the requests being handled
          made,      \* items ever created
          requests, faults,
          pressed,   \* history: items whose favourite was toggled an odd number of times
          asked,     \* history: the tag set last written for each item
          astray,    \* history: items whose index task failed or overlapped another request
          overlapped,\* history: <<op, item>> of two handlers that ran through each other
          crossed,   \* history: items placed with a folder of another location
          reconfirmed \* history: items whose upload was confirmed more than once

vars == <<row, tags, attached, file, used, index, req, made, requests, faults,
          pressed, asked, astray, overlapped, crossed, reconfirmed>>
stores == <<row, tags, attached, file, used, index, made>>
tagVars == <<tags, asked>>
fileVars == <<file, used, reconfirmed>>
boundVars == <<requests, faults>>

NoRow == [type |-> "none"]
Unindexed == Omit
Rows == {i \in Ids : row[i] # NoRow}

Ops == {"create", "file", "tags", "favorite", "stamps", "attach", "confirm"}
Steps == {"idle", "writing", "untagging", "tagging", "indexing", "attaching", "checking",
          "adding", "deleting object", "deleting row", "unindexing"}
NoReq == [op |-> "none", step |-> "idle", item |-> 0, doc |-> None, filing |-> Inbox,
          tags |-> {}, old |-> {}, fav |-> FALSE, size |-> 0, other |-> 0]

Init == /\ row = [i \in Ids |-> NoRow]
        /\ tags = [i \in Ids |-> {}] /\ attached = {}
        /\ file = [i \in Ids |-> "none"] /\ used = 0
        /\ index = [i \in Ids |-> Unindexed]
        /\ req = [q \in Reqs |-> NoReq]
        /\ made = 0 /\ requests = 0 /\ faults = 0
        /\ pressed = {} /\ asked = tags
        /\ astray = {} /\ overlapped = {} /\ crossed = {} /\ reconfirmed = {}

-----------------------------------------------------------------------------
(* Handlers: taking in a request, going on to the next statement, answering. *)

Handling(i) == {q \in Reqs : req[q].step # "idle" /\ req[q].op # "attach" /\ req[q].item = i}

Take(q, op, i, r) ==
  /\ req[q].step = "idle"
  /\ requests' = IF op = "create" THEN requests ELSE requests + 1
  /\ requests' <= MaxRequests
  /\ req' = [req EXCEPT ![q] = [r EXCEPT !.op = op, !.item = i]]
  /\ astray' = IF op # "attach" /\ Handling(i) # {} THEN astray \cup {i} ELSE astray
  /\ UNCHANGED faults

(* getOwnedItem: only an item with a row gets past it. *)
TakeOwned(q, op, i, r) == i \in Rows /\ Take(q, op, i, r)

At(q, op, step) == req[q].op = op /\ req[q].step = step
GoOn(q, step) == req' = [req EXCEPT ![q].step = step]
Answer(q) == req' = [req EXCEPT ![q] = NoReq]

(* Two handlers of one kind run through each other: the later statement sees it. *)
Meets(q, op, step) == \E p \in Reqs \ {q} : At(p, op, step) /\ req[p].item = req[q].item
NoteOverlap(q, op, step) ==
  overlapped' = IF Meets(q, op, step) THEN overlapped \cup {<<op, req[q].item>>} ELSE overlapped

-----------------------------------------------------------------------------
(* create takes any folder and spot: it looks up neither.                    *)

(* A folder of another location: the page of neither lists the item. *)
Elsewhere(p) == p.loc # None /\ p.folder \notin {None, p.loc}

Placed(i, amiss) == crossed' = IF amiss THEN crossed \cup {i} ELSE crossed \ {i}

Create(q, type, new) ==
  LET i == made + 1 IN
  /\ i \in Ids /\ made' = i
  /\ Take(q, "create", i, [NoReq EXCEPT !.step = IF new.tags = {} THEN "indexing" ELSE "untagging",
                                        !.doc = new.place.loc, !.tags = new.tags])
  /\ row' = [row EXCEPT ![i] = [type |-> type, place |-> new.place, fav |-> FALSE, bytes |-> 0]]
  /\ Placed(i, Elsewhere(new.place))
  /\ UNCHANGED <<tags, attached, file, used, index, pressed, asked, overlapped, reconfirmed>>

-----------------------------------------------------------------------------
(* file: folder and spot are kept (key omitted), cleared (null) or set (an id). *)

(* Mutant: the folder is not looked up. *)
SpotFits(f) == f.spot \in {Omit, None, f.loc}

(* Folder and spot, when given, are those of the location. *)
Fits(f) == f.folder \in {Omit, None, f.loc} /\ f.spot \in {Omit, None, f.loc}

File(q, i, f) == /\ Fits(f)
                 /\ TakeOwned(q, "file", i, [NoReq EXCEPT !.step = "writing", !.filing = f])
                 /\ UNCHANGED <<stores, pressed, asked, overlapped, crossed, reconfirmed>>

Given(new, old) == IF new = Omit THEN old ELSE new

Filed(p, f) == [loc |-> f.loc, folder |-> Given(f.folder, p.folder), spot |-> Given(f.spot, p.spot)]

(* prisma.item.update throws when the row is gone, and the handler with it. *)
WriteFiling(q) ==
  LET i == req[q].item
      f == req[q].filing
  IN /\ At(q, "file", "writing")
     /\ IF i \in Rows
          THEN /\ row' = [row EXCEPT ![i].place = Filed(@, f)]
               /\ req' = [req EXCEPT ![q].step = "indexing", ![q].doc = f.loc]
               /\ Placed(i, f.folder = Omit /\ Elsewhere(Filed(row[i].place, f)))
          ELSE Answer(q) /\ UNCHANGED <<row, crossed>>
     /\ UNCHANGED <<tags, attached, file, used, index, made, boundVars, pressed, asked, astray,
                    overlapped, reconfirmed>>

-----------------------------------------------------------------------------
(* setTags reads the item, replaces its tags in a transaction, then indexes *)
(* the item it read.  create tags its new item the same way.                *)

SetTags(q, i, names) ==
  /\ i \in Rows
  /\ TakeOwned(q, "tags", i, [NoReq EXCEPT !.step = "untagging", !.doc = row[i].place.loc,
                                           !.tags = names])
  /\ UNCHANGED <<stores, pressed, asked, overlapped, crossed, reconfirmed>>

Tagging(q, step) == req[q].op \in {"create", "tags"} /\ req[q].step = step
OtherTagging(q) == {p \in Reqs \ {q} : Tagging(p, "tagging") /\ req[p].item = req[q].item}

(* Mutant: deleteMany is left out. *)
OldTagsKept(i) == {}

(* deleteMany removes the tags that are committed when it runs. *)
OldTags(i) == tags[i]

DeleteTags(q) ==
  LET i == req[q].item IN
  /\ Tagging(q, "untagging")
  /\ req' = [req EXCEPT ![q].step = "tagging", ![q].old = OldTags(i)]
  /\ overlapped' = IF OtherTagging(q) # {} THEN overlapped \cup {<<"tags", i>>} ELSE overlapped
  /\ UNCHANGED <<stores, boundVars, pressed, asked, astray, crossed, reconfirmed>>

(* The inserts and the commit.  A tag that another transaction committed since, *)
(* or an item that is gone, fails the transaction; a tag it deleted meanwhile   *)
(* is no longer there for the others to delete.                                 *)
CommitTags(q) ==
  LET i == req[q].item
      kept == tags[i] \ req[q].old
  IN /\ Tagging(q, "tagging")
     /\ IF kept \cap req[q].tags = {} /\ (i \in Rows \/ req[q].tags = {})
          THEN /\ tags' = [tags EXCEPT ![i] = IF i \in Rows THEN kept \cup req[q].tags ELSE {}]
               /\ asked' = [asked EXCEPT ![i] = IF i \in Rows THEN req[q].tags ELSE {}]
               /\ req' = [p \in Reqs |->
                            IF p = q THEN [req[p] EXCEPT !.step = "indexing"]
                            ELSE IF p \in OtherTagging(q)
                              THEN [req[p] EXCEPT !.old = @ \ req[q].old]
                              ELSE req[p]]
               /\ UNCHANGED astray
          ELSE /\ Answer(q) /\ UNCHANGED tagVars
               /\ astray' = IF req[q].op = "create" THEN astray \cup {i} ELSE astray
     /\ UNCHANGED <<row, attached, file, used, index, made, boundVars, pressed, overlapped,
                    crossed, reconfirmed>>

-----------------------------------------------------------------------------
(* toggleFavorite writes the negation of what it read; setStamps writes a field *)
(* of its own: both index the row as it is after their write.                   *)

ToggleFavorite(q, i) ==
  /\ i \in Rows
  /\ TakeOwned(q, "favorite", i, [NoReq EXCEPT !.step = "writing", !.fav = row[i].fav])
  /\ UNCHANGED <<stores, pressed, asked, overlapped, crossed, reconfirmed>>

(* Mutant: the button sets the favourite, and never takes it back. *)
Flipped(fav) == TRUE

Toggled(fav) == ~fav

Flip(set, i) == IF i \in set THEN set \ {i} ELSE set \cup {i}

WriteFavorite(q) ==
  LET i == req[q].item IN
  /\ At(q, "favorite", "writing")
  /\ IF i \in Rows
       THEN /\ row' = [row EXCEPT ![i].fav = Toggled(req[q].fav)]
            /\ pressed' = Flip(pressed, i)
            /\ req' = [req EXCEPT ![q].step = "indexing", ![q].doc = row[i].place.loc]
       ELSE Answer(q) /\ UNCHANGED <<row, pressed>>
  /\ NoteOverlap(q, "favorite", "writing")
  /\ UNCHANGED <<tags, attached, file, used, index, made, boundVars, asked, astray, crossed,
                 reconfirmed>>

SetStamps(q, i) == /\ TakeOwned(q, "stamps", i, [NoReq EXCEPT !.step = "writing"])
                   /\ UNCHANGED <<stores, pressed, asked, overlapped, crossed, reconfirmed>>

WriteStamps(q) ==
  LET i == req[q].item IN
  /\ At(q, "stamps", "writing")
  /\ IF i \in Rows
       THEN req' = [req EXCEPT ![q].step = "indexing", ![q].doc = row[i].place.loc]
       ELSE Answer(q)
  /\ UNCHANGED <<stores, boundVars, pressed, asked, astray, overlapped, crossed, reconfirmed>>

-----------------------------------------------------------------------------
(* attachToNote *)

Attach(q, note, i) == /\ i \in Rows /\ note \in Rows /\ row[note].type = "note"
                      /\ Take(q, "attach", note, [NoReq EXCEPT !.step = "attaching", !.other = i])
                      /\ UNCHANGED <<stores, pressed, asked, overlapped, crossed, reconfirmed>>

(* The foreign keys refuse a row that is gone, the primary key a second link. *)
InsertAttachment(q) ==
  LET link == <<req[q].item, req[q].other>> IN
  /\ At(q, "attach", "attaching")
  /\ attached' = IF link[1] \in Rows /\ link[2] \in Rows THEN attached \cup {link} ELSE attached
  /\ Answer(q)
  /\ UNCHANGED <<row, tags, file, used, index, made, boundVars, pressed, asked, astray,
                 overlapped, crossed, reconfirmed>>

-----------------------------------------------------------------------------
(* confirmUpload *)

(* The client has PUT the file at the URL it was given when the item was created. *)
Confirm(q, i, size) ==
  /\ i \in Rows /\ row[i].type = "photo"
  /\ ~ \E p \in Handling(i) : req[p].op = "create"
  /\ file' = [file EXCEPT ![i] = IF @ = "none" THEN "stored" ELSE @]
  /\ TakeOwned(q, "confirm", i, [NoReq EXCEPT !.step = "checking", !.size = size])
  /\ reconfirmed' = IF file[i] # "none" THEN reconfirmed \cup {i} ELSE reconfirmed
  /\ overlapped' = IF \E p \in Reqs : req[p].op = "confirm"
                     THEN overlapped \cup {<<"confirm", 0>>} ELSE overlapped
  /\ UNCHANGED <<row, tags, attached, used, index, made, pressed, asked, crossed>>

(* Mutant: the size of the upload itself is not counted. *)
NotFullYet(size) == used <= Limit

WithinStorageLimit(size) == used + size <= Limit

(* Mutant: the row goes first, the object behind it last. *)
RowFirst(step) == CASE step = "checking" -> "deleting row"
                    [] step = "deleting row" -> "deleting object"
                    [] step = "deleting object" -> "unindexing"

(* An upload over the limit: object, row, index document, in this order. *)
Refusal(step) == CASE step = "checking" -> "deleting object"
                   [] step = "deleting object" -> "deleting row"
                   [] step = "deleting row" -> "unindexing"

CheckLimit(q) ==
  /\ At(q, "confirm", "checking")
  /\ GoOn(q, IF WithinStorageLimit(req[q].size) THEN "adding" ELSE Refusal("checking"))
  /\ UNCHANGED <<stores, boundVars, pressed, asked, astray, overlapped, crossed, reconfirmed>>

(* The transaction; its update throws when the row is gone. *)
AddBytes(q) ==
  LET i == req[q].item IN
  /\ At(q, "confirm", "adding")
  /\ IF i \in Rows
       THEN row' = [row EXCEPT ![i].bytes = req[q].size] /\ used' = used + req[q].size
       ELSE UNCHANGED <<row, used>>
  /\ Answer(q)
  /\ UNCHANGED <<tags, attached, file, index, made, boundVars, pressed, asked, astray, overlapped,
                 crossed, reconfirmed>>

DeleteObject(q) ==
  /\ At(q, "confirm", "deleting object")
  /\ file' = [file EXCEPT ![req[q].item] = "deleted"]
  /\ GoOn(q, Refusal("deleting object"))
  /\ UNCHANGED <<row, tags, attached, used, index, made, boundVars, pressed, asked, astray,
                 overlapped, crossed, reconfirmed>>

(* Mutant: onDelete does not reach the attachments. *)
LinksLeft(i) == attached

LinksWithout(i) == {link \in attached : i \notin {link[1], link[2]}}

(* The row takes its tags and attachments with it. *)
DeleteRow(q) ==
  LET i == req[q].item IN
  /\ At(q, "confirm", "deleting row")
  /\ IF i \in Rows
       THEN /\ row' = [row EXCEPT ![i] = NoRow]
            /\ tags' = [tags EXCEPT ![i] = {}] /\ asked' = [asked EXCEPT ![i] = {}]
            /\ attached' = LinksWithout(i)
            /\ GoOn(q, Refusal("deleting row"))
       ELSE Answer(q) /\ UNCHANGED <<row, tagVars, attached>>
  /\ UNCHANGED <<file, used, index, made, boundVars, pressed, astray, overlapped, crossed,
                 reconfirmed>>

-----------------------------------------------------------------------------
(* SearchService *)

(* Mutant: a document that is there already is not replaced. *)
IndexOnce(i, doc) == IF index[i] = Unindexed THEN [index EXCEPT ![i] = doc] ELSE index

(* addDocuments upserts by id. *)
Upserted(i, doc) == [index EXCEPT ![i] = doc]

IndexItem(q) ==
  /\ req[q].step = "indexing"
  /\ index' = Upserted(req[q].item, req[q].doc)
  /\ Answer(q)
  /\ UNCHANGED <<row, tagVars, attached, fileVars, made, boundVars, pressed, astray, overlapped,
                 crossed>>

RemoveItem(q) ==
  /\ req[q].step = "unindexing"
  /\ index' = [index EXCEPT ![req[q].item] = Unindexed]
  /\ Answer(q)
  /\ UNCHANGED <<row, tagVars, attached, fileVars, made, boundVars, pressed, astray, overlapped,
                 crossed>>

(* A query that throws, or an index task that fails and is logged: the handler ends. *)
Fails(q) ==
  LET i == req[q].item IN
  /\ faults < MaxFaults /\ faults' = faults + 1 /\ UNCHANGED requests
  /\ req[q].step # "idle"
  /\ Answer(q)
  /\ astray' = IF req[q].op = "create" \/ req[q].step = "indexing" THEN astray \cup {i} ELSE astray
  /\ UNCHANGED <<stores, pressed, asked, overlapped, crossed, reconfirmed>>

(* The API restarts: what it handled is lost; onModuleInit indexes every row *)
(* before the first request, unless Meilisearch is unreachable.              *)
Boot(reachable) ==
  /\ faults < MaxFaults /\ faults' = faults + 1 /\ UNCHANGED requests
  /\ req' = [q \in Reqs |-> NoReq]
  /\ index' = IF reachable
                THEN [i \in Ids |-> IF i \in Rows THEN row[i].place.loc ELSE index[i]]
                ELSE index
  /\ astray' = IF reachable
                 THEN {}
                 ELSE astray \cup {i \in Rows : Handling(i) # {}}
  /\ UNCHANGED <<row, tagVars, attached, fileVars, made, pressed, overlapped, crossed>>

(* Searching returns the rows of the documents that match, in a location or anywhere. *)
Hits(where) == {i \in Rows : index[i] \in where}

-----------------------------------------------------------------------------
(* The lists an item is found in again. *)

ListInbox == {i \in Rows : row[i].place.loc = None}
ListByFolder(loc, folder) ==
  {i \in Rows : /\ row[i].place.loc = loc /\ row[i].place.folder = folder
                /\ folder = None => row[i].place.spot = None}
ListBySpot(spot) == {i \in Rows : row[i].place.spot = spot}

(* What the pages open: the inbox, a location's loose items, its folder, its spot. *)
InSight == ListInbox \cup UNION {ListByFolder(l, None) \cup ListByFolder(l, l) \cup ListBySpot(l) : l \in Locs}

-----------------------------------------------------------------------------
Statement(q) == \/ WriteFiling(q) \/ DeleteTags(q) \/ CommitTags(q) \/ WriteFavorite(q)
                \/ WriteStamps(q) \/ InsertAttachment(q) \/ CheckLimit(q) \/ AddBytes(q)
                \/ DeleteObject(q) \/ DeleteRow(q) \/ IndexItem(q) \/ RemoveItem(q)

Request(q) == \/ \E t \in Types, new \in NewItems : Create(q, t, new)
              \/ \E i \in Ids : \/ ToggleFavorite(q, i) \/ SetStamps(q, i)
                                \/ \E f \in Filings : File(q, i, f)
                                \/ \E names \in SUBSET Tags : SetTags(q, i, names)
                                \/ \E note \in Ids : Attach(q, note, i)
                                \/ \E size \in Sizes : Confirm(q, i, size)

Next == \/ \E q \in Reqs : Request(q) \/ Statement(q) \/ Fails(q)
        \/ \E reachable \in BOOLEAN : Boot(reachable)

Spec == Init /\ [][Next]_vars
-----------------------------------------------------------------------------
Item == [type : Types, place : Place, fav : BOOLEAN, bytes : Sizes \cup {0}]
Req == [op : Ops \cup {"none"}, step : Steps, item : 0..MaxItems, doc : Slots, filing : Filing,
        tags : SUBSET Tags, old : SUBSET Tags, fav : BOOLEAN, size : Sizes \cup {0},
        other : 0..MaxItems]

TypeOK == /\ row \in [Ids -> Item \cup {NoRow}]
          /\ tags \in [Ids -> SUBSET Tags] /\ asked \in [Ids -> SUBSET Tags]
          /\ attached \subseteq Rows \X Rows
          /\ file \in [Ids -> {"none", "stored", "deleted"}] /\ used \in Nat
          /\ index \in [Ids -> Slots \cup {Unindexed}]
          /\ req \in [Reqs -> Req]
          /\ made \in 0..MaxItems /\ requests \in 0..MaxRequests
          /\ faults \in 0..MaxFaults
          /\ pressed \subseteq Ids /\ astray \subseteq Ids /\ crossed \subseteq Ids
          /\ reconfirmed \subseteq Ids

(* Every item is on some page: in the inbox, among the loose items of a       *)
(* location, in its folder or in the history of a spot.  Filings that race    *)
(* never hide one.  What does is a body that create takes as it comes, and a  *)
(* filing to another location that leaves the folder key out (file looks up a *)
(* folder it is given, not one it keeps); a filing that names its folder      *)
(* brings the item back for good.                                             *)
NothingOutOfSight == Rows \subseteq InSight \cup crossed

(* Search agrees with the rows once nobody is handling an item: it is found   *)
(* everywhere, and in its own location only, unless an index task for it      *)
(* failed or two handlers indexed it at once since the API last started.      *)
SearchTruth ==
  \A i \in Rows : Handling(i) = {} /\ i \notin astray =>
    /\ i \in Hits(Slots)
    /\ \A l \in Locs : i \in Hits({l}) <=> row[i].place.loc = l

(* The account pays for what it stores and stays within its plan: the counter  *)
(* is the sum of the sizes of its items, and never less, however               *)
(* confirmations, failures, deletions of refused uploads and restarts          *)
(* interleave; it is more only when an upload was confirmed twice, which       *)
(* counts it twice.  It is over the limit only if two confirmations            *)
(* overlapped: the limit is checked on a value read before the increment.      *)
Stored == MapThenSumSet(LAMBDA i : row[i].bytes, Rows)
WithinPlan == used <= Limit \/ <<"confirm", 0>> \in overlapped
StoragePaidFor == used >= Stored /\ (reconfirmed = {} => used = Stored) /\ WithinPlan

(* No stored file is without the row that pays for it and shows it, wherever a *)
(* refusal is cut off; and a confirmed item has its file, unless the upload    *)
(* was confirmed again and the second confirmation was over the limit.         *)
FilesKept == \A i \in Ids : /\ file[i] = "stored" => i \in Rows
                            /\ i \in Rows /\ row[i].bytes > 0 =>
                                 file[i] = "stored" \/ i \in reconfirmed

(* The tags of an item are those the last request that set them named, and no  *)
(* mixture, unless two such transactions overlapped: each deletes what it      *)
(* sees, and both insert.                                                      *)
TagsAsAsked == \A i \in Ids : tags[i] = asked[i] \/ <<"tags", i>> \in overlapped

(* Toggling twice is no change: an item is a favourite exactly when it was     *)
(* toggled an odd number of times, whatever else is written to the row in      *)
(* between, unless two toggles read the same value.                            *)
FavouriteParity ==
  \A i \in Rows : \/ row[i].fav = (i \in pressed)
                  \/ <<"favorite", i>> \in overlapped
=============================================================================
