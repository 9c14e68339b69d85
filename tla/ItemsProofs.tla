------------------------------ MODULE ItemsProofs ------------------------------
(***************************************************************************)
(* Theorems about Items, for any requests, bodies, limits and bounds.      *)
(***************************************************************************)
EXTENDS Items, FiniteSetTheorems, TLAPS

(* The statements of each operation. *)
InOrder(r) ==
  \/ r.step = "idle" /\ r.op = "none"
  \/ r.op \in {"create", "tags"} /\ r.step \in {"untagging", "tagging", "indexing"}
  \/ r.op \in {"file", "favorite", "stamps"} /\ r.step \in {"writing", "indexing"}
  \/ r.op = "attach" /\ r.step = "attaching"
  \/ /\ r.op = "confirm"
     /\ r.step \in {"checking", "adding", "deleting object", "deleting row", "unindexing"}

(* Ids are given out in order, and a row that is deleted does not come back. *)
Known ==
  /\ Rows \subseteq 1..made /\ pressed \subseteq 1..made
  /\ \A q \in Reqs : /\ InOrder(req[q]) /\ req[q].item <= made
                     /\ req[q].op # "none" => req[q].item \in Ids
                     /\ req[q].op = "attach" => req[q].other \in Ids
                     /\ req[q].step = "unindexing" => req[q].item \notin Rows

TypeInv == TypeOK /\ Known

LEMMA Idle ==
  /\ NoReq \in Req /\ NoReq.step = "idle" /\ NoReq.op = "none" /\ NoReq.item = 0
  /\ InOrder(NoReq)
<1>1. NoReq \in Req
  BY ItemsAssumption DEF NoReq, Req, Ops, Steps, Slots, Filing, Inbox
<1>2. NoReq.step = "idle" /\ NoReq.op = "none" /\ NoReq.item = 0
  BY DEF NoReq
<1> QED BY <1>1, <1>2 DEF InOrder

LEMMA TypeInit == Init => TypeInv
<1> SUFFICES ASSUME Init PROVE TypeInv
  OBVIOUS
<1> USE Idle, ItemsAssumption DEF Init
<1>1. \A i \in Ids : row[i] = NoRow
  OBVIOUS
<1>2. Rows = {}
  BY <1>1 DEF Rows
<1>3. \A q \in Reqs : req[q] = NoReq
  OBVIOUS
<1>4. /\ row \in [Ids -> Item \cup {NoRow}] /\ tags \in [Ids -> SUBSET Tags]
      /\ asked \in [Ids -> SUBSET Tags] /\ file \in [Ids -> {"none", "stored", "deleted"}]
      /\ index \in [Ids -> Slots \cup {Unindexed}]
  OBVIOUS
<1>5. /\ req \in [Reqs -> Req] /\ used \in Nat /\ made \in 0..MaxItems
      /\ requests \in 0..MaxRequests /\ faults \in 0..MaxFaults
  OBVIOUS
<1>6. TypeOK
  BY <1>2, <1>4, <1>5 DEF TypeOK
<1>7. Known
  BY <1>2, <1>3 DEF Known
<1> QED BY <1>6, <1>7 DEF TypeInv

-----------------------------------------------------------------------------
(* How a request is taken in *)

Arrives(q, i, r) ==
  /\ req[q].step = "idle"
  /\ req' = [req EXCEPT ![q] = r]
  /\ r \in Req /\ r.item = i /\ InOrder(r) /\ r.op \in Ops
  /\ astray' = IF r.op # "attach" /\ Handling(i) # {} THEN astray \cup {i} ELSE astray
  /\ requests' \in 0..MaxRequests
  /\ UNCHANGED <<tags, attached, used, index, faults, pressed, asked>>

Creates(r, i) ==
  /\ r.op = "create" /\ i = made + 1 /\ made' = i /\ i \in Ids
  /\ r.step \in {"untagging", "indexing"}
  /\ \E type \in Types, new \in NewItems :
        /\ r.doc = new.place.loc
        /\ row' = [row EXCEPT ![i] = [type |-> type, place |-> new.place, fav |-> FALSE, bytes |-> 0]]
        /\ Placed(i, Elsewhere(new.place))
  /\ UNCHANGED <<file, overlapped, reconfirmed>>

Confirms(r, i) ==
  /\ r.op = "confirm" /\ i \in Rows /\ r.step = "checking"
  /\ file' = [file EXCEPT ![i] = IF @ = "none" THEN "stored" ELSE @]
  /\ reconfirmed' = IF file[i] # "none" THEN reconfirmed \cup {i} ELSE reconfirmed
  /\ overlapped' = IF \E p \in Reqs : req[p].op = "confirm"
                     THEN overlapped \cup {<<"confirm", 0>>} ELSE overlapped
  /\ r.size \in Sizes
  /\ UNCHANGED <<row, made, crossed>>

Asks(r, i) ==
  /\ r.op \notin {"create", "confirm"} /\ i \in Rows
  /\ r.op = "tags" => r.doc = row[i].place.loc /\ r.step = "untagging"
  /\ r.op = "favorite" => r.fav = row[i].fav /\ r.step = "writing"
  /\ r.op \in {"file", "stamps"} => r.step = "writing"
  /\ r.op = "file" => Fits(r.filing)
  /\ r.op = "attach" => r.other \in Rows
  /\ UNCHANGED <<row, made, file, overlapped, crossed, reconfirmed>>

(* The record a request leaves: its operation, and the body as it came. *)
Same(r, op, body) ==
  /\ r.op = op /\ r.step = body.step /\ r.doc = body.doc /\ r.filing = body.filing
  /\ r.fav = body.fav /\ r.size = body.size /\ r.other = body.other

LEMMA RequestKinds ==
  ASSUME TypeInv, NEW q \in Reqs, Request(q)
  PROVE  \E i \in Ids, r \in Req : Arrives(q, i, r) /\ (Creates(r, i) \/ Confirms(r, i) \/ Asks(r, i))
<1> USE DEF TypeInv
<1>1. /\ requests \in 0..MaxRequests /\ MaxRequests \in Nat /\ made \in 0..MaxItems /\ MaxItems \in Nat
      /\ row \in [Ids -> Item \cup {NoRow}] /\ Rows \subseteq Ids
  BY ItemsAssumption DEF TypeOK, Rows
<1>2. \A i \in Rows : row[i] \in Item
  BY <1>1 DEF Rows
<1>3. ASSUME NEW op \in Ops, NEW i \in Ids, NEW body \in Req, Take(q, op, i, body),
             InOrder([body EXCEPT !.op = op]),
             UNCHANGED <<tags, attached, used, index, pressed, asked>>
      PROVE  \E r \in Req : Arrives(q, i, r) /\ Same(r, op, body)
  <2> DEFINE r == [body EXCEPT !.op = op, !.item = i]
  <2>1. /\ r \in Req /\ r.op = op /\ r.item = i /\ r.step = body.step /\ r.doc = body.doc
        /\ r.filing = body.filing /\ r.fav = body.fav /\ r.size = body.size /\ r.other = body.other
    <3>1. i \in 0..MaxItems /\ op \in Ops \cup {"none"}
      BY <1>1 DEF Ids
    <3>2. r \in Req
      BY <1>3, <3>1 DEF Req
    <3>3. /\ r.op = op /\ r.item = i /\ r.step = body.step /\ r.doc = body.doc
          /\ r.filing = body.filing /\ r.fav = body.fav /\ r.size = body.size /\ r.other = body.other
      BY <1>3 DEF Req
    <3> QED BY <3>2, <3>3
  <2>2. InOrder(r)
    <3>1. [body EXCEPT !.op = op].op = op /\ [body EXCEPT !.op = op].step = body.step
      BY DEF Req
    <3> QED BY <1>3, <2>1, <3>1 DEF InOrder
  <2>3. requests' \in 0..MaxRequests
    BY <1>1, <1>3 DEF Take
  <2>4. req' = [req EXCEPT ![q] = r]
    BY <1>3 DEF Take
  <2> HIDE DEF r
  <2>5. Arrives(q, i, r)
    BY <1>3, <2>1, <2>2, <2>3, <2>4 DEF Take, Arrives
  <2> QED BY <2>1, <2>5 DEF Same
<1>4. ASSUME NEW type \in Types, NEW new \in NewItems, Create(q, type, new)
      PROVE  \E i \in Ids, r \in Req : Arrives(q, i, r) /\ Creates(r, i)
  <2> DEFINE i == made + 1
             body == [NoReq EXCEPT !.step = IF new.tags = {} THEN "indexing" ELSE "untagging",
                                   !.doc = new.place.loc, !.tags = new.tags]
  <2>1. new.place.loc \in Slots /\ new.tags \in SUBSET Tags
    BY BodiesAssumption DEF Place
  <2>2. body \in Req /\ body.step \in {"untagging", "indexing"} /\ body.doc = new.place.loc
    BY <2>1, Idle DEF Req, Steps
  <2>3. Take(q, "create", i, body) /\ i \in Ids /\ "create" \in Ops
    BY <1>4 DEF Create, Ops
  <2>4. /\ UNCHANGED <<tags, attached, used, index, pressed, asked, file, overlapped, reconfirmed>>
        /\ made' = i
        /\ row' = [row EXCEPT ![i] = [type |-> type, place |-> new.place, fav |-> FALSE, bytes |-> 0]]
        /\ Placed(i, Elsewhere(new.place))
    BY <1>4 DEF Create
  <2> HIDE DEF body, i
  <2>5. InOrder([body EXCEPT !.op = "create"])
    BY <2>2 DEF InOrder, Req
  <2>6. PICK r \in Req : Arrives(q, i, r) /\ Same(r, "create", body)
    BY <1>3, <2>2, <2>3, <2>4, <2>5
  <2>7. Creates(r, i)
    BY <2>2, <2>3, <2>4, <2>6 DEF Creates, Same, i
  <2> QED BY <2>3, <2>6, <2>7
<1>5. ASSUME NEW i \in Ids, NEW size \in Sizes, Confirm(q, i, size)
      PROVE  \E r \in Req : Arrives(q, i, r) /\ Confirms(r, i)
  <2> DEFINE body == [NoReq EXCEPT !.step = "checking", !.size = size]
  <2>1. body \in Req /\ body.step = "checking" /\ body.size = size
    BY Idle DEF Req, Steps
  <2>2. Take(q, "confirm", i, body) /\ "confirm" \in Ops /\ i \in Rows
    BY <1>5 DEF Confirm, TakeOwned, Ops
  <2>3. /\ UNCHANGED <<tags, attached, used, index, pressed, asked, crossed, row, made>>
        /\ file' = [file EXCEPT ![i] = IF @ = "none" THEN "stored" ELSE @]
        /\ reconfirmed' = IF file[i] # "none" THEN reconfirmed \cup {i} ELSE reconfirmed
        /\ overlapped' = IF \E p \in Reqs : req[p].op = "confirm"
                           THEN overlapped \cup {<<"confirm", 0>>} ELSE overlapped
    BY <1>5 DEF Confirm
  <2> HIDE DEF body
  <2>4. InOrder([body EXCEPT !.op = "confirm"])
    BY <2>1 DEF InOrder, Req
  <2>5. PICK r \in Req : Arrives(q, i, r) /\ Same(r, "confirm", body)
    BY <1>3, <2>1, <2>2, <2>3, <2>4
  <2> QED BY <2>1, <2>2, <2>3, <2>5 DEF Confirms, Same
<1>6. ASSUME NEW op \in Ops \ {"create", "confirm"}, NEW i \in Rows, NEW body \in Req, Take(q, op, i, body),
             InOrder([body EXCEPT !.op = op]), UNCHANGED <<stores, pressed, asked, crossed, overlapped, reconfirmed>>,
             op = "tags" => body.doc = row[i].place.loc /\ body.step = "untagging",
             op = "favorite" => body.fav = row[i].fav /\ body.step = "writing",
             op \in {"file", "stamps"} => body.step = "writing",
             op = "file" => Fits(body.filing),
             op = "attach" => body.other \in Rows
      PROVE  \E r \in Req : Arrives(q, i, r) /\ Asks(r, i)
  <2>1. /\ UNCHANGED <<tags, attached, used, index, pressed, asked>>
        /\ UNCHANGED <<row, made, file, overlapped, crossed, reconfirmed>> /\ i \in Ids
    BY <1>1, <1>6 DEF stores
  <2>2. PICK r \in Req : Arrives(q, i, r) /\ Same(r, op, body)
    BY <1>3, <1>6, <2>1
  <2>3. Asks(r, i)
    BY <1>6, <2>1, <2>2 DEF Asks, Same
  <2> QED BY <2>2, <2>3
<1>7. ASSUME NEW i \in Ids, NEW f \in Filings, File(q, i, f)
      PROVE  \E r \in Req : Arrives(q, i, r) /\ Asks(r, i)
  <2> DEFINE body == [NoReq EXCEPT !.step = "writing", !.filing = f]
  <2>1. body \in Req /\ body.step = "writing" /\ body.filing = f
    BY Idle, BodiesAssumption DEF Req, Steps
  <2>2. /\ i \in Rows /\ Take(q, "file", i, body) /\ "file" \in Ops /\ Fits(f)
        /\ UNCHANGED <<stores, pressed, asked, crossed, overlapped, reconfirmed>>
    BY <1>7 DEF File, TakeOwned, Ops
  <2> HIDE DEF body
  <2>3. InOrder([body EXCEPT !.op = "file"])
    BY <2>1 DEF InOrder, Req
  <2> QED BY <1>6, <2>1, <2>2, <2>3
<1>8. ASSUME NEW i \in Ids, NEW names \in SUBSET Tags, SetTags(q, i, names)
      PROVE  \E r \in Req : Arrives(q, i, r) /\ Asks(r, i)
  <2> DEFINE body == [NoReq EXCEPT !.step = "untagging", !.doc = row[i].place.loc, !.tags = names]
  <2>1. /\ i \in Rows /\ Take(q, "tags", i, body) /\ "tags" \in Ops
        /\ UNCHANGED <<stores, pressed, asked, crossed, overlapped, reconfirmed>>
    BY <1>8 DEF SetTags, TakeOwned, Ops
  <2>2. row[i].place.loc \in Slots
    BY <1>2, <2>1 DEF Item, Place
  <2>3. body \in Req /\ body.step = "untagging" /\ body.doc = row[i].place.loc
    BY <2>2, Idle DEF Req, Steps
  <2> HIDE DEF body
  <2>4. InOrder([body EXCEPT !.op = "tags"])
    BY <2>3 DEF InOrder, Req
  <2> QED BY <1>6, <2>1, <2>3, <2>4
<1>9. ASSUME NEW i \in Ids, ToggleFavorite(q, i)
      PROVE  \E r \in Req : Arrives(q, i, r) /\ Asks(r, i)
  <2> DEFINE body == [NoReq EXCEPT !.step = "writing", !.fav = row[i].fav]
  <2>1. /\ i \in Rows /\ Take(q, "favorite", i, body) /\ "favorite" \in Ops
        /\ UNCHANGED <<stores, pressed, asked, crossed, overlapped, reconfirmed>>
    BY <1>9 DEF ToggleFavorite, TakeOwned, Ops
  <2>2. row[i].fav \in BOOLEAN
    BY <1>2, <2>1 DEF Item
  <2>3. body \in Req /\ body.step = "writing" /\ body.fav = row[i].fav
    BY <2>2, Idle DEF Req, Steps
  <2> HIDE DEF body
  <2>4. InOrder([body EXCEPT !.op = "favorite"])
    BY <2>3 DEF InOrder, Req
  <2> QED BY <1>6, <2>1, <2>3, <2>4
<1>10. ASSUME NEW i \in Ids, SetStamps(q, i)
       PROVE  \E r \in Req : Arrives(q, i, r) /\ Asks(r, i)
  <2> DEFINE body == [NoReq EXCEPT !.step = "writing"]
  <2>1. /\ i \in Rows /\ Take(q, "stamps", i, body) /\ "stamps" \in Ops
        /\ UNCHANGED <<stores, pressed, asked, crossed, overlapped, reconfirmed>>
    BY <1>10 DEF SetStamps, TakeOwned, Ops
  <2>2. body \in Req /\ body.step = "writing"
    BY Idle DEF Req, Steps
  <2> HIDE DEF body
  <2>3. InOrder([body EXCEPT !.op = "stamps"])
    BY <2>2 DEF InOrder, Req
  <2> QED BY <1>6, <2>1, <2>2, <2>3
<1>11. ASSUME NEW i \in Ids, NEW note \in Ids, Attach(q, note, i)
       PROVE  \E r \in Req : Arrives(q, note, r) /\ Asks(r, note)
  <2> DEFINE body == [NoReq EXCEPT !.step = "attaching", !.other = i]
  <2>1. /\ note \in Rows /\ i \in Rows /\ Take(q, "attach", note, body) /\ "attach" \in Ops
        /\ UNCHANGED <<stores, pressed, asked, crossed, overlapped, reconfirmed>>
    BY <1>11 DEF Attach, Ops
  <2>2. i \in 0..MaxItems
    BY <1>1 DEF Ids
  <2>3. body \in Req /\ body.step = "attaching" /\ body.other = i
    BY <2>2, Idle DEF Req, Steps
  <2> HIDE DEF body
  <2>4. InOrder([body EXCEPT !.op = "attach"])
    BY <2>3 DEF InOrder, Req
  <2> QED BY <1>6, <2>1, <2>3, <2>4
<1> QED BY <1>4, <1>5, <1>7, <1>8, <1>9, <1>10, <1>11 DEF Request

LEMMA TypeRequest ==
  ASSUME TypeInv, NEW q \in Reqs, Request(q)
  PROVE  TypeInv'
<1> USE DEF TypeInv
<1>1. PICK i \in Ids, r \in Req : Arrives(q, i, r) /\ (Creates(r, i) \/ Confirms(r, i) \/ Asks(r, i))
  BY RequestKinds
<1>2. /\ row \in [Ids -> Item \cup {NoRow}] /\ req \in [Reqs -> Req] /\ made \in 0..MaxItems
      /\ MaxItems \in Nat /\ Rows \subseteq Ids /\ file \in [Ids -> {"none", "stored", "deleted"}]
      /\ NoRow \notin Item
  BY ItemsAssumption DEF TypeOK, Rows, Item, NoRow
<1>3. /\ req' \in [Reqs -> Req] /\ req'[q] = r /\ \A p \in Reqs \ {q} : req'[p] = req[p]
      /\ r.item = i /\ InOrder(r) /\ r.step # "unindexing" /\ r.op # "none"
  BY <1>1, <1>2 DEF Arrives, Creates, Confirms, Asks, InOrder, Ops
<1>4. /\ row' \in [Ids -> Item \cup {NoRow}] /\ made' \in 0..MaxItems /\ made' >= made
      /\ Rows' = IF r.op = "create" THEN Rows \cup {i} ELSE Rows
      /\ i \in 1..made' /\ Rows' \subseteq 1..made'
      /\ r.op = "create" => i = made + 1
  <2>1. CASE Creates(r, i)
    <3>1. PICK type \in Types, new \in NewItems :
             row' = [row EXCEPT ![i] = [type |-> type, place |-> new.place, fav |-> FALSE, bytes |-> 0]]
      BY <2>1 DEF Creates
    <3> DEFINE it == [type |-> type, place |-> new.place, fav |-> FALSE, bytes |-> 0]
    <3>2. it \in Item /\ it # NoRow
      <4>1. new.place \in Place
        BY BodiesAssumption
      <4>2. it \in Item
        BY <4>1 DEF Item
      <4> QED BY <1>2, <4>2
    <3> HIDE DEF it
    <3>3. row' = [row EXCEPT ![i] = it]
      BY <3>1 DEF it
    <3>4. row' \in [Ids -> Item \cup {NoRow}] /\ Rows' = Rows \cup {i}
      BY <1>2, <3>2, <3>3 DEF Rows
    <3>5. made' \in 0..MaxItems /\ i = made + 1 /\ made' = i
      BY <1>2, <2>1 DEF Creates, Ids
    <3>6. Rows \subseteq 1..made
      BY DEF Known
    <3>7. made' >= made /\ i \in 1..made' /\ Rows \cup {i} \subseteq 1..made'
      BY <1>2, <3>5, <3>6
    <3> QED BY <2>1, <3>4, <3>5, <3>7 DEF Creates
  <2>2. CASE Confirms(r, i) \/ Asks(r, i)
    <3>1. UNCHANGED <<row, made>> /\ i \in Rows /\ r.op # "create"
      BY <2>2 DEF Confirms, Asks
    <3>2. Rows' = Rows
      BY <3>1 DEF Rows
    <3> QED BY <1>2, <3>1, <3>2 DEF Known
  <2> QED BY <1>1, <2>1, <2>2
<1>5. /\ file' \in [Ids -> {"none", "stored", "deleted"}] /\ reconfirmed' \subseteq Ids
      /\ astray' \subseteq Ids /\ crossed' \subseteq Ids
  BY <1>1, <1>2 DEF Arrives, Creates, Confirms, Asks, TypeOK, Placed
<1>6. attached' \subseteq Rows' \X Rows'
  BY <1>1, <1>4 DEF Arrives, TypeOK
<1>7. TypeOK'
  BY <1>1, <1>3, <1>4, <1>5, <1>6 DEF TypeOK, Arrives
<1>8. Known'
  <2>1. pressed' \subseteq 1..made'
    BY <1>1, <1>2, <1>4 DEF Known, Arrives
  <2>2. ASSUME NEW p \in Reqs
        PROVE  /\ InOrder(req'[p]) /\ req'[p].item <= made'
               /\ req'[p].op # "none" => req'[p].item \in Ids
               /\ req'[p].op = "attach" => req'[p].other \in Ids
               /\ req'[p].step = "unindexing" => req'[p].item \notin Rows'
    <3>1. CASE p = q
      <4>1. r.op = "attach" => r.other \in Ids
        BY <1>1, <1>2 DEF Asks, Creates, Confirms
      <4> QED BY <1>2, <1>3, <1>4, <3>1, <4>1
    <3>2. CASE p # q
      <4>1. /\ InOrder(req[p]) /\ req[p].item <= made /\ req[p].item \in 0..MaxItems
            /\ req[p].op # "none" => req[p].item \in Ids
            /\ req[p].op = "attach" => req[p].other \in Ids
            /\ req[p].step = "unindexing" => req[p].item \notin Rows
        BY <1>2 DEF Known, Req
      <4> QED BY <1>2, <1>3, <1>4, <3>2, <4>1
    <3> QED BY <3>1, <3>2
  <2> QED BY <1>4, <2>1, <2>2 DEF Known
<1> QED BY <1>7, <1>8

-----------------------------------------------------------------------------
(* How a request goes on *)

LEMMA SameButOld ==
  ASSUME NEW r \in Req, NEW gone
  PROVE  LET s == [r EXCEPT !.old = @ \ gone] IN
         /\ s \in Req /\ s.op = r.op /\ s.step = r.step /\ s.item = r.item /\ s.doc = r.doc
         /\ s.filing = r.filing /\ s.tags = r.tags /\ s.fav = r.fav /\ s.size = r.size
         /\ s.other = r.other /\ s.old = r.old \ gone
BY DEF Req

(* The record of a request that goes on. *)
Keeps(s, r) ==
  /\ s \in Req /\ s.op = r.op /\ s.item = r.item /\ s.other = r.other /\ s.size = r.size
  /\ s.filing = r.filing /\ s.tags = r.tags /\ s.fav = r.fav

LEMMA Onward ==
  ASSUME NEW r \in Req, NEW step \in Steps, NEW s, s = [r EXCEPT !.step = step]
  PROVE  Keeps(s, r) /\ s.step = step /\ s.doc = r.doc /\ s.old = r.old
BY DEF Req, Keeps

LEMMA OnToIndexing ==
  ASSUME NEW r \in Req, NEW doc \in Slots
  PROVE  LET s == [r EXCEPT !.step = "indexing", !.doc = doc] IN
         Keeps(s, r) /\ s.step = "indexing" /\ s.doc = doc /\ s.old = r.old
BY DEF Req, Steps, Keeps

LEMMA OnToTagging ==
  ASSUME NEW r \in Req, NEW old \in SUBSET Tags
  PROVE  LET s == [r EXCEPT !.step = "tagging", !.old = old] IN
         Keeps(s, r) /\ s.step = "tagging" /\ s.doc = r.doc /\ s.old = old
BY DEF Req, Steps, Keeps

(* What each statement makes of its request. *)
Becomes(q, r) == Keeps(r, req[q]) /\ req' = [req EXCEPT ![q] = r]

LEMMA Answered ==
  ASSUME TypeInv, NEW q \in Reqs, Answer(q)
  PROVE  req' \in [Reqs -> Req] /\ req'[q] = NoReq /\ \A p \in Reqs \ {q} : req'[p] = req[p]
BY Idle DEF TypeInv, TypeOK, Answer

LEMMA BecomesOne ==
  ASSUME TypeInv, NEW q \in Reqs, NEW r, Becomes(q, r)
  PROVE  req' \in [Reqs -> Req] /\ req'[q] = r /\ \A p \in Reqs \ {q} : req'[p] = req[p]
BY DEF TypeInv, TypeOK, Becomes, Keeps

LEMMA WriteFilingKinds ==
  ASSUME TypeInv, NEW q \in Reqs, WriteFiling(q)
  PROVE  LET i == req[q].item
             f == req[q].filing
         IN \/ i \notin Rows /\ Answer(q) /\ UNCHANGED <<row, crossed>>
            \/ /\ i \in Rows /\ row' = [row EXCEPT ![i].place = Filed(@, f)]
               /\ Placed(i, f.folder = Omit /\ Elsewhere(Filed(row[i].place, f)))
               /\ \E r : Becomes(q, r) /\ r.step = "indexing" /\ r.doc = f.loc
<1> DEFINE i == req[q].item
           f == req[q].filing
           r == [req[q] EXCEPT !.step = "indexing", !.doc = f.loc]
<1>1. req[q] \in Req /\ f.loc \in Slots /\ req \in [Reqs -> Req]
  BY DEF TypeInv, TypeOK, Req, Filing
<1>2. CASE i \in Rows
  <2>1. /\ req' = [req EXCEPT ![q] = r] /\ row' = [row EXCEPT ![i].place = Filed(@, f)]
        /\ Placed(i, f.folder = Omit /\ Elsewhere(Filed(row[i].place, f)))
    BY <1>1, <1>2 DEF WriteFiling
  <2>2. Keeps(r, req[q]) /\ r.step = "indexing" /\ r.doc = f.loc
    BY <1>1, OnToIndexing
  <2> HIDE DEF r
  <2>3. Becomes(q, r)
    BY <2>1, <2>2 DEF Becomes
  <2> QED BY <1>2, <2>1, <2>2, <2>3
<1>3. CASE i \notin Rows
  BY <1>3 DEF WriteFiling
<1> QED BY <1>2, <1>3

LEMMA WriteRowKinds ==
  ASSUME TypeInv, NEW q \in Reqs, WriteFavorite(q) \/ WriteStamps(q)
  PROVE  LET i == req[q].item
         IN \/ i \notin Rows /\ Answer(q) /\ UNCHANGED <<row, pressed>>
            \/ /\ i \in Rows
               /\ \/ WriteStamps(q) /\ UNCHANGED <<row, pressed>>
                  \/ /\ WriteFavorite(q) /\ pressed' = Flip(pressed, i)
                     /\ row' = [row EXCEPT ![i].fav = Toggled(req[q].fav)]
               /\ \E r : Becomes(q, r) /\ r.step = "indexing" /\ r.doc = row[i].place.loc
<1> DEFINE i == req[q].item
           r == [req[q] EXCEPT !.step = "indexing", !.doc = row[i].place.loc]
<1>1. req[q] \in Req /\ req \in [Reqs -> Req] /\ row \in [Ids -> Item \cup {NoRow}]
  BY DEF TypeInv, TypeOK
<1>2. CASE i \in Rows
  <2>1. row[i].place.loc \in Slots
    BY <1>1, <1>2 DEF Rows, Item, Place
  <2>2. req' = [req EXCEPT ![q] = r]
    BY <1>1, <1>2 DEF WriteFavorite, WriteStamps
  <2>3. Keeps(r, req[q]) /\ r.step = "indexing" /\ r.doc = row[i].place.loc
    BY <1>1, <2>1, OnToIndexing
  <2>4. \/ WriteStamps(q) /\ UNCHANGED <<row, pressed>>
        \/ /\ WriteFavorite(q) /\ pressed' = Flip(pressed, i)
           /\ row' = [row EXCEPT ![i].fav = Toggled(req[q].fav)]
    BY <1>2 DEF WriteFavorite, WriteStamps, stores
  <2> HIDE DEF r
  <2>5. Becomes(q, r)
    BY <2>2, <2>3 DEF Becomes
  <2> QED BY <1>2, <2>3, <2>4, <2>5
<1>3. CASE i \notin Rows
  BY <1>3 DEF WriteFavorite, WriteStamps, stores
<1> QED BY <1>2, <1>3

LEMMA DeleteTagsKinds ==
  ASSUME TypeInv, NEW q \in Reqs, DeleteTags(q)
  PROVE  \E r : Becomes(q, r) /\ r.step = "tagging" /\ r.old = tags[req[q].item] /\ r.doc = req[q].doc
<1> DEFINE r == [req[q] EXCEPT !.step = "tagging", !.old = tags[req[q].item]]
<1>1. req[q] \in Req /\ req \in [Reqs -> Req]
  BY DEF TypeInv, TypeOK
<1>2. req[q].item \in Ids
  BY DEF TypeInv, Known, DeleteTags, Tagging
<1>3. tags[req[q].item] \in SUBSET Tags
  BY <1>2 DEF TypeInv, TypeOK
<1>4. req' = [req EXCEPT ![q] = r]
  BY <1>1 DEF DeleteTags, OldTags
<1>5. Keeps(r, req[q]) /\ r.step = "tagging" /\ r.old = tags[req[q].item] /\ r.doc = req[q].doc
  BY <1>1, <1>3, OnToTagging
<1> HIDE DEF r
<1>6. Becomes(q, r)
  BY <1>4, <1>5 DEF Becomes
<1> QED BY <1>5, <1>6

LEMMA ConfirmKinds ==
  ASSUME TypeInv, NEW q \in Reqs, CheckLimit(q) \/ DeleteObject(q) \/ DeleteRow(q)
  PROVE  \/ DeleteRow(q) /\ req[q].item \notin Rows /\ Answer(q) /\ UNCHANGED <<row, tagVars, attached>>
         \/ \E r :
              /\ Becomes(q, r)
              /\ \/ CheckLimit(q) /\ r.step = "adding" /\ used + req[q].size <= Limit
                 \/ CheckLimit(q) /\ r.step = "deleting object"
                 \/ DeleteObject(q) /\ r.step = "deleting row"
                 \/ /\ DeleteRow(q) /\ r.step = "unindexing" /\ req[q].item \in Rows
                    /\ row' = [row EXCEPT ![req[q].item] = NoRow]
                    /\ tags' = [tags EXCEPT ![req[q].item] = {}]
                    /\ asked' = [asked EXCEPT ![req[q].item] = {}]
                    /\ attached' = LinksWithout(req[q].item)
<1>1. req[q] \in Req /\ req \in [Reqs -> Req]
  BY DEF TypeInv, TypeOK
<1>2. ASSUME NEW step \in Steps, GoOn(q, step)
      PROVE  \E r : Becomes(q, r) /\ r.step = step
  <2> DEFINE r == [req[q] EXCEPT !.step = step]
  <2>1. req' = [req EXCEPT ![q] = r]
    BY <1>1, <1>2 DEF GoOn
  <2>2. Becomes(q, r) /\ r.step = step
    BY <1>1, <2>1, Onward DEF Becomes
  <2> HIDE DEF r
  <2> QED BY <2>2
<1>3. CASE CheckLimit(q)
  <2>1. CASE WithinStorageLimit(req[q].size)
    <3>1. GoOn(q, "adding") /\ "adding" \in Steps
      BY <1>3, <2>1 DEF CheckLimit, Steps
    <3> QED BY <1>2, <1>3, <2>1, <3>1 DEF WithinStorageLimit
  <2>2. CASE ~WithinStorageLimit(req[q].size)
    <3>1. GoOn(q, "deleting object") /\ "deleting object" \in Steps
      BY <1>3, <2>2 DEF CheckLimit, Refusal, Steps
    <3> QED BY <1>2, <1>3, <3>1
  <2> QED BY <2>1, <2>2
<1>4. CASE DeleteObject(q)
  <2>1. GoOn(q, "deleting row") /\ "deleting row" \in Steps
    BY <1>4 DEF DeleteObject, Refusal, Steps
  <2> QED BY <1>2, <1>4, <2>1
<1>5. CASE DeleteRow(q)
  <2>1. CASE req[q].item \in Rows
    <3>1. GoOn(q, "unindexing") /\ "unindexing" \in Steps
      BY <1>5, <2>1 DEF DeleteRow, Refusal, Steps
    <3>2. /\ row' = [row EXCEPT ![req[q].item] = NoRow] /\ tags' = [tags EXCEPT ![req[q].item] = {}]
          /\ asked' = [asked EXCEPT ![req[q].item] = {}] /\ attached' = LinksWithout(req[q].item)
      BY <1>5, <2>1 DEF DeleteRow
    <3> QED BY <1>2, <1>5, <2>1, <3>1, <3>2
  <2>2. CASE req[q].item \notin Rows
    BY <1>5, <2>2 DEF DeleteRow
  <2> QED BY <2>1, <2>2
<1> QED BY <1>3, <1>4, <1>5

LEMMA CommitTagsKinds ==
  ASSUME TypeInv, NEW q \in Reqs, CommitTags(q)
  PROVE  LET i == req[q].item
             kept == tags[i] \ req[q].old
         IN \/ /\ Answer(q) /\ UNCHANGED tagVars
               /\ astray' = IF req[q].op = "create" THEN astray \cup {i} ELSE astray
            \/ /\ req' \in [Reqs -> Req] /\ UNCHANGED astray
               /\ tags' = [tags EXCEPT ![i] = IF i \in Rows THEN kept \cup req[q].tags ELSE {}]
               /\ asked' = [asked EXCEPT ![i] = IF i \in Rows THEN req[q].tags ELSE {}]
               /\ req'[q] = [req[q] EXCEPT !.step = "indexing"]
               /\ \A p \in Reqs \ {q} :
                     req'[p] = req[p] \/ (p \in OtherTagging(q) /\ req'[p] = [req[p] EXCEPT !.old = @ \ req[q].old])
<1> DEFINE i == req[q].item
           kept == tags[i] \ req[q].old
<1>1. req \in [Reqs -> Req] /\ "indexing" \in Steps
  BY DEF TypeInv, TypeOK, Steps
<1>2. CASE kept \cap req[q].tags = {} /\ (i \in Rows \/ req[q].tags = {})
  <2>1. /\ tags' = [tags EXCEPT ![i] = IF i \in Rows THEN kept \cup req[q].tags ELSE {}]
        /\ asked' = [asked EXCEPT ![i] = IF i \in Rows THEN req[q].tags ELSE {}]
        /\ req' = [p \in Reqs |->
                     IF p = q THEN [req[p] EXCEPT !.step = "indexing"]
                     ELSE IF p \in OtherTagging(q) THEN [req[p] EXCEPT !.old = @ \ req[q].old]
                     ELSE req[p]]
        /\ UNCHANGED astray
    BY <1>2 DEF CommitTags
  <2>2. /\ [req[q] EXCEPT !.step = "indexing"] \in Req
        /\ \A p \in Reqs : [req[p] EXCEPT !.old = @ \ req[q].old] \in Req
    <3>1. \A r \in Req : [r EXCEPT !.step = "indexing"] \in Req
      BY <1>1, Onward DEF Keeps
    <3>2. \A p \in Reqs : [req[p] EXCEPT !.old = @ \ req[q].old] \in Req
      BY <1>1, SameButOld
    <3> QED BY <1>1, <3>1, <3>2
  <2>3. req' \in [Reqs -> Req]
    BY <1>1, <2>1, <2>2
  <2>4. /\ req'[q] = [req[q] EXCEPT !.step = "indexing"]
        /\ \A p \in Reqs \ {q} :
              req'[p] = req[p] \/ (p \in OtherTagging(q) /\ req'[p] = [req[p] EXCEPT !.old = @ \ req[q].old])
    BY <2>1
  <2> QED BY <2>1, <2>3, <2>4
<1>3. CASE ~(kept \cap req[q].tags = {} /\ (i \in Rows \/ req[q].tags = {}))
  BY <1>3 DEF CommitTags
<1> QED BY <1>2, <1>3

-----------------------------------------------------------------------------
(* Type correctness *)

(* A request that was answered or went on keeps to Known. *)
LEMMA KnownAfter ==
  ASSUME TypeInv, NEW q \in Reqs, Rows' \subseteq Rows, made' = made, pressed' \subseteq 1..made,
         \A p \in Reqs \ {q} : \/ req'[p] = req[p]
                               \/ Keeps(req'[p], req[p]) /\ req'[p].step = req[p].step,
         \/ req'[q] = NoReq
         \/ /\ Keeps(req'[q], req[q]) /\ InOrder(req'[q])
            /\ req'[q].step = "unindexing" => req[q].item \notin Rows'
  PROVE  Known'
<1> USE DEF TypeInv
<1>1. made \in 0..MaxItems /\ MaxItems \in Nat
  BY ItemsAssumption DEF TypeOK
<1>2. ASSUME NEW p \in Reqs
      PROVE  /\ InOrder(req'[p]) /\ req'[p].item <= made'
             /\ req'[p].op # "none" => req'[p].item \in Ids
             /\ req'[p].op = "attach" => req'[p].other \in Ids
             /\ req'[p].step = "unindexing" => req'[p].item \notin Rows'
  <2>1. /\ InOrder(req[p]) /\ req[p].item <= made
        /\ req[p].op # "none" => req[p].item \in Ids
        /\ req[p].op = "attach" => req[p].other \in Ids
        /\ req[p].step = "unindexing" => req[p].item \notin Rows
    BY DEF Known
  <2>2. CASE req'[p] = NoReq
    BY <1>1, <2>2, Idle
  <2>3. CASE req'[p] = req[p]
    BY <2>1, <2>3
  <2>4. CASE p # q /\ Keeps(req'[p], req[p]) /\ req'[p].step = req[p].step
    <3>1. InOrder(req'[p])
      BY <2>1, <2>4 DEF InOrder, Keeps
    <3> QED BY <2>1, <2>4, <3>1 DEF Keeps
  <2>5. CASE p = q /\ Keeps(req'[q], req[q])
    BY <2>1, <2>2, <2>5 DEF Keeps
  <2> QED BY <2>2, <2>3, <2>4, <2>5
<1>3. Rows' \subseteq 1..made'
  BY DEF Known
<1> QED BY <1>2, <1>3 DEF Known

LEMMA RowsKept ==
  ASSUME TypeInv, NEW i \in Rows, NEW it \in Item, row' = [row EXCEPT ![i] = it]
  PROVE  Rows' = Rows /\ row' \in [Ids -> Item \cup {NoRow}] /\ row'[i] = it
<1>1. row \in [Ids -> Item \cup {NoRow}] /\ NoRow \notin Item
  BY DEF TypeInv, TypeOK, Item, NoRow
<1> QED BY <1>1 DEF Rows

LEMMA ItemWritten ==
  ASSUME NEW it \in Item
  PROVE  /\ \A p \in Place : [it EXCEPT !.place = p] \in Item
         /\ \A b \in BOOLEAN : [it EXCEPT !.fav = b] \in Item
         /\ \A s \in Sizes : [it EXCEPT !.bytes = s] \in Item
BY DEF Item

LEMMA FiledIsPlace ==
  ASSUME NEW p \in Place, NEW f \in Filing
  PROVE  Filed(p, f) \in Place
BY DEF Filed, Given, Place, Filing

(* A statement ends its request, or goes on with it to a step of its operation. *)
GoesOn(q) == \/ Answer(q)
             \/ \E r : /\ Becomes(q, r) /\ InOrder(r)
                       /\ r.step = "unindexing" => req[q].item \notin Rows'

LEMMA TypeGoesOn ==
  ASSUME TypeInv, NEW q \in Reqs, GoesOn(q), Rows' \subseteq Rows, made' = made, pressed' \subseteq 1..made
  PROVE  req' \in [Reqs -> Req] /\ Known'
<1>1. CASE Answer(q)
  BY <1>1, Answered, KnownAfter
<1>2. CASE ~Answer(q)
  <2>1. PICK r : /\ Becomes(q, r) /\ InOrder(r)
                 /\ r.step = "unindexing" => req[q].item \notin Rows'
    BY <1>2 DEF GoesOn
  <2>2. req' \in [Reqs -> Req] /\ req'[q] = r /\ \A p \in Reqs \ {q} : req'[p] = req[p]
    BY <2>1, BecomesOne
  <2>3. Keeps(req'[q], req[q])
    BY <2>1, <2>2 DEF Becomes
  <2> QED BY <2>1, <2>2, <2>3, KnownAfter
<1> QED BY <1>1, <1>2

LEMMA TypeWriteFiling ==
  ASSUME TypeInv, NEW q \in Reqs, WriteFiling(q)
  PROVE  TypeInv'
<1> DEFINE i == req[q].item
           f == req[q].filing
<1> USE DEF TypeInv
<1>1. /\ req[q].op = "file" /\ UNCHANGED <<tags, attached, file, used, index, made, requests, faults>>
      /\ UNCHANGED <<pressed, asked, astray, overlapped, reconfirmed>>
  BY DEF WriteFiling, At, boundVars
<1>2. i \in Ids /\ f \in Filing /\ pressed \subseteq 1..made
  BY <1>1 DEF Known, TypeOK, Req
<1>3. CASE i \in Rows
  <2>1. /\ row' = [row EXCEPT ![i].place = Filed(@, f)] /\ crossed' \subseteq Ids
        /\ \E r : Becomes(q, r) /\ r.step = "indexing" /\ r.doc = f.loc
    BY <1>2, <1>3, WriteFilingKinds DEF TypeOK, Placed
  <2>2. row[i] \in Item
    BY <1>3 DEF TypeOK, Rows
  <2> DEFINE it == [row[i] EXCEPT !.place = Filed(row[i].place, f)]
  <2>3. it \in Item /\ row' = [row EXCEPT ![i] = it]
    <3>1. Filed(row[i].place, f) \in Place
      BY <1>2, <2>2, FiledIsPlace DEF Item
    <3>2. it \in Item
      BY <2>2, <3>1, ItemWritten
    <3> QED BY <2>1, <3>2
  <2> HIDE DEF it
  <2>4. Rows' = Rows /\ row' \in [Ids -> Item \cup {NoRow}]
    BY <1>3, <2>3, RowsKept
  <2>5. GoesOn(q)
    BY <1>1, <2>1 DEF GoesOn, Becomes, Keeps, InOrder
  <2>6. req' \in [Reqs -> Req] /\ Known'
    BY <1>1, <1>2, <2>4, <2>5, TypeGoesOn
  <2> QED BY <1>1, <2>1, <2>4, <2>6 DEF TypeOK
<1>4. CASE i \notin Rows
  <2>1. Answer(q) /\ UNCHANGED <<row, crossed>>
    BY <1>4, WriteFilingKinds
  <2>2. Rows' = Rows
    BY <2>1 DEF Rows
  <2>3. req' \in [Reqs -> Req] /\ Known'
    BY <1>1, <1>2, <2>1, <2>2, TypeGoesOn DEF GoesOn
  <2> QED BY <1>1, <2>1, <2>2, <2>3 DEF TypeOK
<1> QED BY <1>3, <1>4

LEMMA TypeWriteRow ==
  ASSUME TypeInv, NEW q \in Reqs, WriteFavorite(q) \/ WriteStamps(q)
  PROVE  TypeInv'
<1> DEFINE i == req[q].item
<1> USE DEF TypeInv
<1>1. /\ req[q].op \in {"favorite", "stamps"}
      /\ UNCHANGED <<tags, attached, file, used, index, made, requests, faults>>
      /\ UNCHANGED <<asked, astray, crossed, reconfirmed>>
  BY DEF WriteFavorite, WriteStamps, At, boundVars, stores
<1>2. i \in Ids /\ pressed \subseteq 1..made /\ Rows \subseteq 1..made
  BY <1>1 DEF Known
<1>3. CASE i \in Rows
  <2>1. \E r : Becomes(q, r) /\ r.step = "indexing" /\ r.doc = row[i].place.loc
    BY <1>3, WriteRowKinds
  <2>2. Rows' = Rows /\ row' \in [Ids -> Item \cup {NoRow}] /\ pressed' \subseteq 1..made
    <3>1. CASE UNCHANGED <<row, pressed>>
      BY <1>2, <3>1 DEF Rows, TypeOK
    <3>2. CASE pressed' = Flip(pressed, i) /\ row' = [row EXCEPT ![i].fav = Toggled(req[q].fav)]
      <4>1. row[i] \in Item /\ Toggled(req[q].fav) \in BOOLEAN
        BY <1>3 DEF TypeOK, Rows, Toggled
      <4> DEFINE it == [row[i] EXCEPT !.fav = Toggled(req[q].fav)]
      <4>2. it \in Item
        BY <4>1, ItemWritten
      <4>3. row' = [row EXCEPT ![i] = it]
        BY <3>2
      <4> HIDE DEF it
      <4>4. pressed' \subseteq 1..made
        BY <1>2, <1>3, <3>2 DEF Flip
      <4> QED BY <1>3, <4>2, <4>3, <4>4, RowsKept
    <3> QED BY <1>3, <3>1, <3>2, WriteRowKinds
  <2>3. GoesOn(q)
    BY <1>1, <2>1 DEF GoesOn, Becomes, Keeps, InOrder
  <2>4. req' \in [Reqs -> Req] /\ Known'
    BY <1>1, <2>2, <2>3, TypeGoesOn
  <2>5. pressed' \subseteq Ids
    BY <2>2, ItemsAssumption DEF TypeOK, Ids
  <2> QED BY <1>1, <2>2, <2>4, <2>5 DEF TypeOK
<1>4. CASE i \notin Rows
  <2>1. Answer(q) /\ UNCHANGED <<row, pressed>>
    BY <1>4, WriteRowKinds
  <2>2. Rows' = Rows
    BY <2>1 DEF Rows
  <2>3. req' \in [Reqs -> Req] /\ Known'
    BY <1>1, <1>2, <2>1, <2>2, TypeGoesOn DEF GoesOn
  <2> QED BY <1>1, <2>1, <2>2, <2>3 DEF TypeOK
<1> QED BY <1>3, <1>4

LEMMA TypeTags ==
  ASSUME TypeInv, NEW q \in Reqs, DeleteTags(q) \/ CommitTags(q)
  PROVE  TypeInv'
<1> DEFINE i == req[q].item
<1> USE DEF TypeInv
<1>1. /\ req[q].op \in {"create", "tags"}
      /\ UNCHANGED <<row, attached, file, used, index, made, requests, faults>>
      /\ UNCHANGED <<pressed, crossed, reconfirmed>>
  BY DEF DeleteTags, CommitTags, Tagging, boundVars, stores
<1>2. i \in Ids /\ pressed \subseteq 1..made /\ Rows' = Rows
  BY <1>1 DEF Known, Rows
<1>3. CASE DeleteTags(q)
  <2>1. GoesOn(q)
    BY <1>1, <1>3, DeleteTagsKinds DEF GoesOn, Becomes, Keeps, InOrder
  <2>2. req' \in [Reqs -> Req] /\ Known'
    BY <1>1, <1>2, <2>1, TypeGoesOn
  <2>3. UNCHANGED <<tags, asked, astray>>
    BY <1>3 DEF DeleteTags, stores
  <2> QED BY <1>1, <1>2, <2>2, <2>3 DEF TypeOK
<1>4. CASE CommitTags(q)
  <2>1. CASE Answer(q) /\ UNCHANGED tagVars
    <3>1. req' \in [Reqs -> Req] /\ Known'
      BY <1>1, <1>2, <2>1, TypeGoesOn DEF GoesOn
    <3>2. astray' \subseteq Ids
      BY <1>2, <1>4, CommitTagsKinds DEF TypeOK
    <3> QED BY <1>1, <1>2, <2>1, <3>1, <3>2 DEF TypeOK, tagVars
  <2>2. CASE ~(Answer(q) /\ UNCHANGED tagVars)
    <3>1. /\ req' \in [Reqs -> Req] /\ UNCHANGED astray
          /\ tags' = [tags EXCEPT ![i] = IF i \in Rows THEN (tags[i] \ req[q].old) \cup req[q].tags ELSE {}]
          /\ asked' = [asked EXCEPT ![i] = IF i \in Rows THEN req[q].tags ELSE {}]
          /\ req'[q] = [req[q] EXCEPT !.step = "indexing"]
          /\ \A p \in Reqs \ {q} :
                \/ req'[p] = req[p]
                \/ p \in OtherTagging(q) /\ req'[p] = [req[p] EXCEPT !.old = @ \ req[q].old]
      BY <1>4, <2>2, CommitTagsKinds
    <3>2. req \in [Reqs -> Req] /\ req[q].tags \subseteq Tags /\ "indexing" \in Steps
      BY DEF TypeOK, Req, Steps
    <3>3. Keeps(req'[q], req[q]) /\ req'[q].step = "indexing"
      BY <3>1, <3>2, Onward
    <3>4. \A p \in Reqs \ {q} : \/ req'[p] = req[p]
                                \/ Keeps(req'[p], req[p]) /\ req'[p].step = req[p].step
      <4>1. \A p \in Reqs : LET s == [req[p] EXCEPT !.old = @ \ req[q].old]
                            IN Keeps(s, req[p]) /\ s.step = req[p].step
        BY <3>2, SameButOld DEF Keeps
      <4> QED BY <3>1, <4>1
    <3>5. InOrder(req'[q])
      BY <1>1, <3>3 DEF InOrder, Keeps
    <3>6. Known'
      BY <1>1, <1>2, <3>3, <3>4, <3>5, KnownAfter
    <3>7. tags' \in [Ids -> SUBSET Tags] /\ asked' \in [Ids -> SUBSET Tags]
      BY <1>2, <3>1, <3>2 DEF TypeOK
    <3> QED BY <1>1, <1>2, <3>1, <3>6, <3>7 DEF TypeOK
  <2> QED BY <2>1, <2>2
<1> QED BY <1>3, <1>4

LEMMA TypeConfirm ==
  ASSUME TypeInv, NEW q \in Reqs, CheckLimit(q) \/ DeleteObject(q) \/ DeleteRow(q) \/ AddBytes(q)
  PROVE  TypeInv'
<1> DEFINE i == req[q].item
<1> USE DEF TypeInv
<1>1. /\ req[q].op = "confirm" /\ UNCHANGED <<index, made, requests, faults>>
      /\ UNCHANGED <<pressed, astray, overlapped, crossed, reconfirmed>>
  BY DEF CheckLimit, DeleteObject, DeleteRow, AddBytes, At, boundVars, stores
<1>2. /\ i \in Ids /\ pressed \subseteq 1..made /\ Rows \subseteq Ids
      /\ row \in [Ids -> Item \cup {NoRow}] /\ attached \subseteq Rows \X Rows
  BY <1>1 DEF Known, TypeOK, Rows
<1>3. CASE CheckLimit(q) \/ DeleteObject(q)
  <2>1. /\ UNCHANGED <<row, tags, asked, attached, used>>
        /\ file' \in [Ids -> {"none", "stored", "deleted"}]
    BY <1>2, <1>3 DEF CheckLimit, DeleteObject, stores, TypeOK
  <2>2. Rows' = Rows
    BY <2>1 DEF Rows
  <2>3. ~DeleteRow(q)
    BY <1>3 DEF CheckLimit, DeleteObject, DeleteRow, At
  <2>4. PICK r : Becomes(q, r) /\ r.step \in {"adding", "deleting object", "deleting row"}
    BY <1>3, <2>3, ConfirmKinds
  <2>5. GoesOn(q)
    BY <1>1, <2>4 DEF GoesOn, Becomes, Keeps, InOrder
  <2>6. req' \in [Reqs -> Req] /\ Known'
    BY <1>1, <1>2, <2>2, <2>5, TypeGoesOn
  <2> QED BY <1>1, <1>2, <2>1, <2>2, <2>6 DEF TypeOK
<1>4. CASE DeleteRow(q) /\ i \in Rows
  <2>1. /\ row' = [row EXCEPT ![i] = NoRow] /\ tags' = [tags EXCEPT ![i] = {}]
        /\ asked' = [asked EXCEPT ![i] = {}] /\ attached' = LinksWithout(i)
        /\ UNCHANGED <<file, used>>
    BY <1>4 DEF DeleteRow
  <2>2. /\ row' \in [Ids -> Item \cup {NoRow}] /\ Rows' = Rows \ {i}
        /\ tags' \in [Ids -> SUBSET Tags] /\ asked' \in [Ids -> SUBSET Tags]
    BY <1>2, <2>1 DEF Rows, TypeOK
  <2>3. attached' \subseteq Rows' \X Rows'
    BY <1>2, <2>1, <2>2 DEF LinksWithout
  <2>4. GoesOn(q)
    <3>1. PICK r : Becomes(q, r) /\ (r.step = "unindexing" \/ CheckLimit(q) \/ DeleteObject(q))
      BY <1>4, ConfirmKinds
    <3>2. r.step = "unindexing"
      BY <1>4, <3>1 DEF CheckLimit, DeleteObject, DeleteRow, At
    <3> QED BY <1>1, <2>2, <3>1, <3>2 DEF GoesOn, Becomes, Keeps, InOrder
  <2>5. req' \in [Reqs -> Req] /\ Known'
    BY <1>1, <1>2, <2>2, <2>4, TypeGoesOn
  <2> QED BY <1>1, <1>2, <2>1, <2>2, <2>3, <2>5 DEF TypeOK
<1>5. CASE DeleteRow(q) /\ i \notin Rows
  <2>1. UNCHANGED <<row, tags, asked, attached, file, used>> /\ Answer(q)
    BY <1>5 DEF DeleteRow, tagVars
  <2>2. Rows' = Rows
    BY <2>1 DEF Rows
  <2>3. req' \in [Reqs -> Req] /\ Known'
    BY <1>1, <1>2, <2>1, <2>2, TypeGoesOn DEF GoesOn
  <2> QED BY <1>1, <1>2, <2>1, <2>2, <2>3 DEF TypeOK
<1>6. CASE AddBytes(q)
  <2>1. UNCHANGED <<tags, asked, attached, file>> /\ Answer(q)
    BY <1>6 DEF AddBytes
  <2>2. Rows' = Rows /\ row' \in [Ids -> Item \cup {NoRow}] /\ used' \in Nat
    <3>1. CASE i \in Rows
      <4>1. row' = [row EXCEPT ![i].bytes = req[q].size] /\ used' = used + req[q].size
        BY <1>6, <3>1 DEF AddBytes
      <4>2. req[q].size \in Sizes \cup {0} /\ row[i] \in Item /\ used \in Nat
        BY <3>1 DEF TypeOK, Req, Rows
      <4> DEFINE it == [row[i] EXCEPT !.bytes = req[q].size]
      <4>3. it \in Item
        BY <4>2 DEF Item
      <4>4. row' = [row EXCEPT ![i] = it]
        BY <4>1
      <4> HIDE DEF it
      <4>5. used' \in Nat
        BY <4>1, <4>2, ItemsAssumption
      <4> QED BY <3>1, <4>3, <4>4, <4>5, RowsKept
    <3>2. CASE i \notin Rows
      BY <1>2, <1>6, <3>2 DEF AddBytes, TypeOK, Rows
    <3> QED BY <3>1, <3>2
  <2>3. req' \in [Reqs -> Req] /\ Known'
    BY <1>1, <1>2, <2>1, <2>2, TypeGoesOn DEF GoesOn
  <2> QED BY <1>1, <1>2, <2>1, <2>2, <2>3 DEF TypeOK
<1> QED BY <1>3, <1>4, <1>5, <1>6

LEMMA TypeAnswers ==
  ASSUME TypeInv, NEW q \in Reqs, InsertAttachment(q) \/ IndexItem(q) \/ RemoveItem(q) \/ Fails(q)
  PROVE  TypeInv'
<1> DEFINE i == req[q].item
<1> USE DEF TypeInv
<1>1. /\ Answer(q) /\ UNCHANGED <<row, tags, asked, file, used, made, requests>>
      /\ UNCHANGED <<pressed, overlapped, crossed, reconfirmed>>
  BY DEF InsertAttachment, IndexItem, RemoveItem, Fails, boundVars, stores, tagVars, fileVars
<1>2. Rows' = Rows /\ pressed \subseteq 1..made /\ req[q] \in Req
  BY <1>1 DEF Rows, Known, TypeOK
<1>3. req' \in [Reqs -> Req] /\ Known'
  BY <1>1, <1>2, TypeGoesOn DEF GoesOn
<1>4. attached' \subseteq Rows' \X Rows'
  <2>1. attached' = attached \/ \E a, b \in Rows : attached' = attached \cup {<<a, b>>}
    <3>1. CASE InsertAttachment(q)
      BY <3>1 DEF InsertAttachment
    <3>2. CASE IndexItem(q) \/ RemoveItem(q) \/ Fails(q)
      BY <3>2 DEF IndexItem, RemoveItem, Fails, stores
    <3> QED BY <3>1, <3>2
  <2> QED BY <1>2, <2>1 DEF TypeOK
<1>5. index' \in [Ids -> Slots \cup {Unindexed}]
  <2>1. CASE IndexItem(q)
    <3>1. index' = [index EXCEPT ![i] = req[q].doc] /\ req[q].doc \in Slots
      BY <1>2, <2>1 DEF IndexItem, Upserted, Req
    <3> QED BY <3>1 DEF TypeOK
  <2>2. CASE RemoveItem(q)
    BY <2>2 DEF RemoveItem, TypeOK
  <2>3. CASE InsertAttachment(q) \/ Fails(q)
    BY <2>3 DEF InsertAttachment, Fails, stores, TypeOK
  <2> QED BY <2>1, <2>2, <2>3
<1>6. astray' \subseteq Ids /\ faults' \in 0..MaxFaults
  <2>1. CASE Fails(q)
    <3>1. faults' \in 0..MaxFaults
      BY <2>1, ItemsAssumption DEF Fails, TypeOK
    <3>2. req[q].op # "none"
      BY <2>1 DEF Fails, Known, InOrder
    <3>3. i \in Ids
      BY <3>2 DEF Known
    <3>4. astray' \subseteq Ids
      BY <2>1, <3>3 DEF Fails, TypeOK
    <3> QED BY <3>1, <3>4
  <2>2. CASE InsertAttachment(q) \/ IndexItem(q) \/ RemoveItem(q)
    BY <2>2 DEF InsertAttachment, IndexItem, RemoveItem, boundVars, TypeOK
  <2> QED BY <2>1, <2>2
<1> QED BY <1>1, <1>2, <1>3, <1>4, <1>5, <1>6 DEF TypeOK

LEMMA TypeBoot ==
  ASSUME TypeInv, NEW reachable \in BOOLEAN, Boot(reachable)
  PROVE  TypeInv'
<1> USE DEF TypeInv
<1>1. /\ UNCHANGED <<row, tags, asked, attached, file, used, made, requests>>
      /\ UNCHANGED <<pressed, overlapped, crossed, reconfirmed>> /\ req' = [q \in Reqs |-> NoReq]
  BY DEF Boot, tagVars, fileVars
<1>2. Rows' = Rows /\ Rows \subseteq Ids
  BY <1>1 DEF Rows
<1>3. \A i \in Rows : row[i].place.loc \in Slots
  BY DEF TypeOK, Rows, Item, Place
<1>4. index' \in [Ids -> Slots \cup {Unindexed}]
  BY <1>3 DEF Boot, TypeOK
<1>5. faults' \in 0..MaxFaults /\ astray' \subseteq Ids
  BY <1>2, ItemsAssumption DEF Boot, TypeOK
<1>6. TypeOK'
  BY <1>1, <1>2, <1>4, <1>5, Idle DEF TypeOK
<1>7. Known'
  <2>1. made \in Nat
    BY ItemsAssumption DEF TypeOK
  <2> QED BY <1>1, <1>2, <2>1, Idle DEF Known
<1> QED BY <1>6, <1>7

LEMMA TypeNext == TypeInv /\ [Next]_vars => TypeInv'
<1> SUFFICES ASSUME TypeInv, [Next]_vars PROVE TypeInv'
  OBVIOUS
<1>1. ASSUME NEW q \in Reqs, Statement(q) PROVE TypeInv'
  BY <1>1, TypeWriteFiling, TypeWriteRow, TypeTags, TypeConfirm, TypeAnswers DEF Statement
<1>2. CASE UNCHANGED vars
  BY <1>2 DEF vars, TypeInv, TypeOK, Known, Rows
<1> QED BY <1>1, <1>2, TypeRequest, TypeAnswers, TypeBoot DEF Next

(* Rows, files, index and requests keep their types; a request's statements     *)
(* come in the order of its handler, and an item number stands for one row that *)
(* is never given out again.                                                    *)
THEOREM ItemsTypeCorrect == Spec => []TypeOK
<1>1. TypeInv => TypeOK
  BY DEF TypeInv
<1> QED BY <1>1, TypeInit, TypeNext, PTL DEF Spec

-----------------------------------------------------------------------------
(* What a statement, or its failure, changes: the requests and the rows *)

(* How the request of a statement goes on, when it does. *)
Advances(q) ==
  LET r == req[q]
      s == req'[q]
  IN /\ Keeps(s, r)
     /\ \/ WriteFiling(q) /\ r.item \in Rows /\ s.step = "indexing" /\ s.doc = r.filing.loc
        \/ /\ WriteFavorite(q) \/ WriteStamps(q)
           /\ r.item \in Rows /\ s.step = "indexing" /\ s.doc = row[r.item].place.loc
        \/ DeleteTags(q) /\ s.step = "tagging" /\ s.doc = r.doc /\ s.old = tags[r.item]
        \/ CommitTags(q) /\ s.step = "indexing" /\ s.doc = r.doc
        \/ CheckLimit(q) /\ s.step = "adding" /\ used + r.size <= Limit
        \/ CheckLimit(q) /\ s.step = "deleting object"
        \/ DeleteObject(q) /\ s.step = "deleting row"
        \/ DeleteRow(q) /\ r.item \in Rows /\ s.step = "unindexing"

(* The others stay where they are; a transaction may see that tags are gone. *)
Stays(q, p) ==
  /\ Keeps(req'[p], req[p]) /\ req'[p].step = req[p].step /\ req'[p].doc = req[p].doc
  /\ req'[p].old = req[p].old \/ (CommitTags(q) /\ p \in OtherTagging(q))

LEMMA RequestsAfter ==
  ASSUME TypeInv, NEW q \in Reqs, Statement(q) \/ Fails(q)
  PROVE  /\ \A p \in Reqs \ {q} : Stays(q, p)
         /\ req'[q] = NoReq \/ Advances(q)
<1> USE DEF TypeInv
<1>1. req \in [Reqs -> Req]
  BY DEF TypeOK
<1>2. ASSUME NEW p \in Reqs, req'[p] = req[p]
      PROVE  Stays(q, p)
  BY <1>1, <1>2 DEF Stays, Keeps
<1>3. ASSUME Answer(q)
      PROVE  req'[q] = NoReq /\ \A p \in Reqs \ {q} : Stays(q, p)
  BY <1>2, <1>3, Answered
<1>4. ASSUME NEW r, Becomes(q, r)
      PROVE  req'[q] = r /\ Keeps(req'[q], req[q]) /\ \A p \in Reqs \ {q} : Stays(q, p)
  <2>1. req'[q] = r /\ \A p \in Reqs \ {q} : req'[p] = req[p]
    BY <1>4, BecomesOne
  <2> QED BY <1>2, <1>4, <2>1 DEF Becomes
<1>5. CASE WriteFiling(q)
  <2>1. CASE Answer(q)
    BY <1>3, <2>1
  <2>2. CASE ~Answer(q)
    <3>1. PICK r : Becomes(q, r) /\ r.step = "indexing" /\ r.doc = req[q].filing.loc /\ req[q].item \in Rows
      BY <1>5, <2>2, WriteFilingKinds
    <3> QED BY <1>4, <1>5, <3>1 DEF Advances
  <2> QED BY <2>1, <2>2
<1>6. CASE WriteFavorite(q) \/ WriteStamps(q)
  <2>1. CASE Answer(q)
    BY <1>3, <2>1
  <2>2. CASE ~Answer(q)
    <3>1. PICK r : /\ Becomes(q, r) /\ r.step = "indexing"
                   /\ r.doc = row[req[q].item].place.loc /\ req[q].item \in Rows
      BY <1>6, <2>2, WriteRowKinds
    <3> QED BY <1>4, <1>6, <3>1 DEF Advances
  <2> QED BY <2>1, <2>2
<1>7. CASE DeleteTags(q)
  <2>1. PICK r : Becomes(q, r) /\ r.step = "tagging" /\ r.old = tags[req[q].item] /\ r.doc = req[q].doc
    BY <1>7, DeleteTagsKinds
  <2> QED BY <1>4, <1>7, <2>1 DEF Advances
<1>8. CASE CheckLimit(q) \/ DeleteObject(q) \/ DeleteRow(q)
  <2>1. CASE Answer(q)
    BY <1>3, <2>1
  <2>2. CASE ~Answer(q)
    <3>1. PICK r : /\ Becomes(q, r)
                   /\ \/ CheckLimit(q) /\ r.step = "adding" /\ used + req[q].size <= Limit
                      \/ CheckLimit(q) /\ r.step = "deleting object"
                      \/ DeleteObject(q) /\ r.step = "deleting row"
                      \/ DeleteRow(q) /\ r.step = "unindexing" /\ req[q].item \in Rows
      BY <1>8, <2>2, ConfirmKinds
    <3> QED BY <1>4, <3>1 DEF Advances
  <2> QED BY <2>1, <2>2
<1>9. CASE CommitTags(q)
  <2>1. CASE Answer(q)
    BY <1>3, <2>1
  <2>2. CASE ~Answer(q)
    <3>1. /\ req'[q] = [req[q] EXCEPT !.step = "indexing"]
          /\ \A p \in Reqs \ {q} :
                \/ req'[p] = req[p]
                \/ p \in OtherTagging(q) /\ req'[p] = [req[p] EXCEPT !.old = @ \ req[q].old]
      BY <1>9, <2>2, CommitTagsKinds
    <3>2. Keeps(req'[q], req[q]) /\ req'[q].step = "indexing" /\ req'[q].doc = req[q].doc
      <4>1. "indexing" \in Steps
        BY DEF Steps
      <4> QED BY <1>1, <3>1, <4>1, Onward
    <3>3. ASSUME NEW p \in Reqs \ {q} PROVE Stays(q, p)
      <4>1. LET s == [req[p] EXCEPT !.old = @ \ req[q].old]
            IN Keeps(s, req[p]) /\ s.step = req[p].step /\ s.doc = req[p].doc
        BY <1>1, SameButOld DEF Keeps
      <4> QED BY <1>2, <1>9, <3>1, <4>1 DEF Stays
    <3> QED BY <1>9, <3>2, <3>3 DEF Advances
  <2> QED BY <2>1, <2>2
<1>10. CASE InsertAttachment(q) \/ AddBytes(q) \/ IndexItem(q) \/ RemoveItem(q) \/ Fails(q)
  <2>1. Answer(q)
    BY <1>10 DEF InsertAttachment, AddBytes, IndexItem, RemoveItem, Fails
  <2> QED BY <1>3, <2>1
<1> QED BY <1>5, <1>6, <1>7, <1>8, <1>9, <1>10 DEF Statement

(* A statement writes one field of the row of its item, or deletes it. *)
RowAfter(q, i) ==
  /\ i \in Rows /\ row[i] \in Item
  /\ row'[i].place = IF WriteFiling(q) /\ req[q].item = i
                       THEN Filed(row[i].place, req[q].filing) ELSE row[i].place
  /\ row'[i].fav = IF WriteFavorite(q) /\ req[q].item = i THEN ~req[q].fav ELSE row[i].fav
  /\ row'[i].bytes = IF AddBytes(q) /\ req[q].item = i THEN req[q].size ELSE row[i].bytes

LEMMA RowsAfter ==
  ASSUME TypeInv, NEW q \in Reqs, Statement(q) \/ Fails(q)
  PROVE  /\ \A i \in Rows' : RowAfter(q, i)
         /\ Rows' = IF DeleteRow(q) THEN Rows \ {req[q].item} ELSE Rows
<1> DEFINE j == req[q].item
<1> USE DEF TypeInv
<1>1. /\ row \in [Ids -> Item \cup {NoRow}] /\ Rows \subseteq Ids /\ NoRow \notin Item
      /\ \A i \in Rows : row[i] \in Item
  BY DEF TypeOK, Rows, Item, NoRow
<1>0. /\ WriteFiling(q) => ~WriteFavorite(q) /\ ~AddBytes(q)
      /\ WriteFavorite(q) => ~WriteFiling(q) /\ ~AddBytes(q)
      /\ DeleteRow(q) => ~WriteFiling(q) /\ ~WriteFavorite(q) /\ ~AddBytes(q)
  BY DEF WriteFiling, WriteFavorite, AddBytes, DeleteRow, At
<1>2. CASE /\ UNCHANGED row
         /\ ~(j \in Rows /\ (WriteFiling(q) \/ WriteFavorite(q) \/ AddBytes(q) \/ DeleteRow(q)))
  <2>1. Rows' = Rows
    BY <1>2 DEF Rows
  <2> QED BY <1>1, <1>2, <2>1 DEF RowAfter
<1>3. CASE WriteFiling(q) /\ j \in Rows
  <2>1. row' = [row EXCEPT ![j].place = Filed(@, req[q].filing)]
    BY <1>3, WriteFilingKinds
  <2>2. req[q].filing \in Filing /\ row[j] \in Item
    BY <1>1, <1>3 DEF TypeOK, Req
  <2> DEFINE it == [row[j] EXCEPT !.place = Filed(row[j].place, req[q].filing)]
  <2>3. /\ it \in Item /\ row' = [row EXCEPT ![j] = it] /\ it.fav = row[j].fav
        /\ it.bytes = row[j].bytes /\ it.place = Filed(row[j].place, req[q].filing)
    <3>1. Filed(row[j].place, req[q].filing) \in Place
      BY <2>2, FiledIsPlace DEF Item
    <3>2. it \in Item
      BY <2>2, <3>1, ItemWritten
    <3>3. it.fav = row[j].fav /\ it.bytes = row[j].bytes /\ it.place = Filed(row[j].place, req[q].filing)
      BY <2>2 DEF Item
    <3> QED BY <2>1, <3>2, <3>3
  <2> HIDE DEF it
  <2>4. Rows' = Rows /\ row'[j] = it /\ \A i \in Rows \ {j} : row'[i] = row[i]
    BY <1>1, <1>3, <2>3, RowsKept
  <2> QED BY <1>0, <1>1, <1>3, <2>3, <2>4 DEF RowAfter
<1>4. CASE WriteFavorite(q) /\ j \in Rows
  <2>1. row' = [row EXCEPT ![j].fav = Toggled(req[q].fav)]
    BY <1>4 DEF WriteFavorite
  <2>2. row[j] \in Item
    BY <1>1, <1>4
  <2> DEFINE it == [row[j] EXCEPT !.fav = Toggled(req[q].fav)]
  <2>3. /\ it \in Item /\ row' = [row EXCEPT ![j] = it] /\ it.fav = ~req[q].fav
        /\ it.bytes = row[j].bytes /\ it.place = row[j].place
    BY <2>1, <2>2 DEF Item, Toggled
  <2> HIDE DEF it
  <2>4. Rows' = Rows /\ row'[j] = it /\ \A i \in Rows \ {j} : row'[i] = row[i]
    BY <1>1, <1>4, <2>3, RowsKept
  <2> QED BY <1>0, <1>1, <1>4, <2>3, <2>4 DEF RowAfter
<1>5. CASE AddBytes(q) /\ j \in Rows
  <2>1. row' = [row EXCEPT ![j].bytes = req[q].size]
    BY <1>5 DEF AddBytes
  <2>2. row[j] \in Item /\ req[q].size \in Sizes \cup {0}
    BY <1>1, <1>5 DEF TypeOK, Req
  <2> DEFINE it == [row[j] EXCEPT !.bytes = req[q].size]
  <2>3. /\ it \in Item /\ row' = [row EXCEPT ![j] = it] /\ it.bytes = req[q].size
        /\ it.fav = row[j].fav /\ it.place = row[j].place
    BY <2>1, <2>2 DEF Item
  <2> HIDE DEF it
  <2>4. Rows' = Rows /\ row'[j] = it /\ \A i \in Rows \ {j} : row'[i] = row[i]
    BY <1>1, <1>5, <2>3, RowsKept
  <2> QED BY <1>0, <1>1, <1>5, <2>3, <2>4 DEF RowAfter
<1>6. CASE DeleteRow(q) /\ j \in Rows
  <2>1. row' = [row EXCEPT ![j] = NoRow]
    BY <1>6 DEF DeleteRow
  <2>2. Rows' = Rows \ {j} /\ \A i \in Rows \ {j} : row'[i] = row[i]
    BY <1>1, <2>1 DEF Rows
  <2> QED BY <1>0, <1>1, <1>6, <2>2 DEF RowAfter
<1>7. CASE j \notin Rows \/ ~(WriteFiling(q) \/ WriteFavorite(q) \/ AddBytes(q) \/ DeleteRow(q))
  <2>1. UNCHANGED row
    BY <1>7 DEF Statement, WriteFiling, WriteFavorite, AddBytes, DeleteRow, DeleteTags, CommitTags, WriteStamps, InsertAttachment, CheckLimit,
                DeleteObject, IndexItem, RemoveItem, Fails, stores
  <2> QED BY <1>2, <1>7, <2>1
<1> QED BY <1>3, <1>4, <1>5, <1>6, <1>7

(* A request that is taken in finds the others where they are, and at most adds a row. *)
Adds(i, r) ==
  /\ Creates(r, i) /\ i \notin Rows /\ Rows' = Rows \cup {i} /\ \A j \in Rows : row'[j] = row[j]
  /\ \A p \in Reqs : req[p].item # i
  /\ \E new \in NewItems : /\ row'[i].place = new.place /\ r.doc = new.place.loc
                           /\ row'[i].fav = FALSE /\ row'[i].bytes = 0
                           /\ Placed(i, Elsewhere(new.place))

LEMMA RequestsArrive ==
  ASSUME TypeInv, NEW q \in Reqs, Request(q)
  PROVE  \E i \in Ids, r \in Req :
            /\ Arrives(q, i, r) /\ req'[q] = r /\ \A p \in Reqs \ {q} : req'[p] = req[p]
            /\ req[q].op = "none"
            /\ \/ Adds(i, r)
               \/ (Confirms(r, i) \/ Asks(r, i)) /\ UNCHANGED row /\ Rows' = Rows
<1> USE DEF TypeInv
<1>1. PICK i \in Ids, r \in Req : Arrives(q, i, r) /\ (Creates(r, i) \/ Confirms(r, i) \/ Asks(r, i))
  BY RequestKinds
<1>2. /\ req'[q] = r /\ (\A p \in Reqs \ {q} : req'[p] = req[p]) /\ req[q].op = "none"
  BY <1>1 DEF Arrives, TypeOK, Known, InOrder
<1>3. CASE Confirms(r, i) \/ Asks(r, i)
  <2>1. UNCHANGED row
    BY <1>3 DEF Confirms, Asks
  <2>2. Rows' = Rows
    BY <2>1 DEF Rows
  <2> QED BY <1>1, <1>2, <1>3, <2>1, <2>2
<1>4. CASE Creates(r, i)
  <2>1. /\ row \in [Ids -> Item \cup {NoRow}] /\ Rows \subseteq 1..made /\ made \in 0..MaxItems
        /\ MaxItems \in Nat /\ i = made + 1
    BY <1>4, ItemsAssumption DEF TypeOK, Known, Creates
  <2>2. i \notin Rows /\ \A p \in Reqs : req[p].item # i
    BY <2>1 DEF Known, TypeOK, Req
  <2>3. PICK type \in Types, new \in NewItems :
           /\ r.doc = new.place.loc
           /\ row' = [row EXCEPT ![i] = [type |-> type, place |-> new.place, fav |-> FALSE, bytes |-> 0]]
           /\ Placed(i, Elsewhere(new.place))
    BY <1>4 DEF Creates
  <2> DEFINE it == [type |-> type, place |-> new.place, fav |-> FALSE, bytes |-> 0]
  <2>4. it.place = new.place /\ it.fav = FALSE /\ it.bytes = 0 /\ it # NoRow
    <3>1. it \in Item /\ NoRow \notin Item
      BY BodiesAssumption DEF Item, NoRow
    <3> QED BY <3>1
  <2> HIDE DEF it
  <2>5. row' = [row EXCEPT ![i] = it]
    BY <2>3 DEF it
  <2>6. row'[i] = it /\ Rows' = Rows \cup {i} /\ \A j \in Rows : row'[j] = row[j]
    BY <2>1, <2>2, <2>4, <2>5 DEF Rows
  <2>7. Adds(i, r)
    BY <1>4, <2>2, <2>3, <2>4, <2>6 DEF Adds
  <2> QED BY <1>1, <1>2, <2>7
<1> QED BY <1>1, <1>3, <1>4

-----------------------------------------------------------------------------
(* Every item is on some page *)

(* No folder of another location, unless create or a filing left it there; and *)
(* filings that were looked at.                                                 *)
FolderThere(i) == ~Elsewhere(row[i].place)

SightInv == /\ \A i \in Rows \ crossed : FolderThere(i)
            /\ \A q \in Reqs : req[q].op = "file" => Fits(req[q].filing)

LEMMA FolderFound ==
  ASSUME TypeInv, NEW i \in Rows, FolderThere(i)
  PROVE  i \in InSight
<1>1. row[i] \in Item
  BY DEF TypeInv, TypeOK, Rows
<1> DEFINE p == row[i].place
<1>2. /\ p.loc \in Slots /\ p.spot \in Slots
      /\ p.loc # None => p.folder \in {None, p.loc}
  BY <1>1 DEF Item, Place, FolderThere, Elsewhere
<1>3. CASE p.loc = None
  BY <1>3 DEF InSight, ListInbox
<1>4. CASE p.loc \in Locs /\ p.folder = p.loc
  <2>1. p.folder # None
    BY <1>4, ItemsAssumption
  <2>2. i \in ListByFolder(p.loc, p.loc)
    BY <1>4, <2>1 DEF ListByFolder
  <2> QED BY <1>4, <2>2 DEF InSight
<1>5. CASE p.loc \in Locs /\ p.folder = None /\ p.spot = None
  <2>1. i \in ListByFolder(p.loc, None)
    BY <1>5 DEF ListByFolder
  <2> QED BY <1>5, <2>1 DEF InSight
<1>6. CASE p.spot \in Locs
  <2>1. i \in ListBySpot(p.spot)
    BY DEF ListBySpot
  <2> QED BY <1>6, <2>1 DEF InSight
<1>7. \/ p.loc = None
      \/ p.loc \in Locs /\ p.folder = p.loc
      \/ p.loc \in Locs /\ p.folder = None /\ p.spot = None
      \/ p.spot \in Locs
  BY <1>2 DEF Slots
<1> QED BY <1>3, <1>4, <1>5, <1>6, <1>7

LEMMA SightNext ==
  ASSUME TypeInv, SightInv, [Next]_vars
  PROVE  SightInv'
<1> USE DEF TypeInv
<1>1. CASE UNCHANGED vars
  BY <1>1 DEF vars, SightInv, FolderThere, Elsewhere, Rows
<1>2. ASSUME NEW q \in Reqs, Request(q) PROVE SightInv'
  <2>1. PICK i \in Ids, r \in Req :
           /\ Arrives(q, i, r) /\ req'[q] = r /\ \A p \in Reqs \ {q} : req'[p] = req[p]
           /\ req[q].op = "none"
           /\ \/ Adds(i, r)
              \/ (Confirms(r, i) \/ Asks(r, i)) /\ UNCHANGED row /\ Rows' = Rows
    BY <1>2, RequestsArrive
  <2>2. r.op = "file" => Fits(r.filing)
    BY <2>1 DEF Adds, Creates, Confirms, Asks
  <2>3. \A p \in Reqs : req'[p].op = "file" => Fits(req'[p].filing)
    BY <2>1, <2>2 DEF SightInv
  <2>4. CASE Adds(i, r)
    <3>1. PICK new \in NewItems : /\ row'[i].place = new.place
                                  /\ Placed(i, Elsewhere(new.place))
      BY <2>4 DEF Adds
    <3>2. i \in crossed' <=> Elsewhere(row'[i].place)
      BY <3>1 DEF Placed
    <3>3. \A j \in Rows : row'[j] = row[j] /\ (j \in crossed' <=> j \in crossed)
      BY <2>4, <3>1 DEF Adds, Placed
    <3>4. Rows' = Rows \cup {i}
      BY <2>4 DEF Adds
    <3>5. \A j \in Rows' \ crossed' : ~Elsewhere(row'[j].place)
      BY <3>2, <3>3, <3>4 DEF SightInv, FolderThere
    <3> QED BY <2>3, <3>5 DEF SightInv, FolderThere, Elsewhere
  <2>5. CASE ~Adds(i, r)
    <3>1. UNCHANGED <<row, crossed>> /\ Rows' = Rows
      BY <2>1, <2>5 DEF Confirms, Asks
    <3> QED BY <2>3, <3>1 DEF SightInv, FolderThere, Elsewhere
  <2> QED BY <2>4, <2>5
<1>3. ASSUME NEW q \in Reqs, Statement(q) \/ Fails(q) PROVE SightInv'
  <2>1. \A p \in Reqs : req'[p] = NoReq \/ Keeps(req'[p], req[p])
    BY <1>3, RequestsAfter DEF Stays, Advances
  <2>2. \A p \in Reqs : req'[p].op = "file" => Fits(req'[p].filing)
    BY <2>1, Idle DEF SightInv, Keeps
  <2>3. CASE ~WriteFiling(q)
    <3>1. crossed' = crossed
      BY <1>3, <2>3 DEF Statement, DeleteTags, CommitTags, WriteFavorite, WriteStamps,
                InsertAttachment, CheckLimit, AddBytes, DeleteObject, DeleteRow, IndexItem,
                RemoveItem, Fails
    <3>2. \A j \in Rows' : j \in Rows /\ row'[j].place = row[j].place
      BY <1>3, <2>3, RowsAfter DEF RowAfter
    <3> QED BY <2>2, <3>1, <3>2 DEF SightInv, FolderThere, Elsewhere
  <2>4. CASE WriteFiling(q)
    <3> DEFINE i == req[q].item
               f == req[q].filing
    <3>1. f.folder \in {Omit, None, f.loc}
      BY <2>4 DEF WriteFiling, At, SightInv, Fits
    <3>2. ASSUME NEW j \in Rows', j \notin crossed', row'[j].place = row[j].place, j # i \/ i \notin Rows
          PROVE  ~Elsewhere(row'[j].place)
      <4>1. j \in Rows
        BY <1>3, RowsAfter DEF RowAfter
      <4>2. j \notin crossed
        BY <2>4, <3>2, <4>1, WriteFilingKinds DEF Placed
      <4> QED BY <3>2, <4>1, <4>2 DEF SightInv, FolderThere
    <3>3. ASSUME i \in Rows, i \notin crossed'
          PROVE  ~Elsewhere(row'[i].place)
      <4>1. /\ row' = [row EXCEPT ![i].place = Filed(@, f)]
            /\ Placed(i, f.folder = Omit /\ Elsewhere(Filed(row[i].place, f)))
        BY <2>4, <3>3, WriteFilingKinds
      <4>2. row[i] \in Item /\ row \in [Ids -> Item \cup {NoRow}] /\ i \in Ids
        BY <3>3 DEF TypeOK, Rows
      <4>3. row'[i].place = Filed(row[i].place, f)
        BY <4>1, <4>2 DEF Item
      <4>4. ~(f.folder = Omit /\ Elsewhere(Filed(row[i].place, f)))
        BY <3>3, <4>1 DEF Placed
      <4>5. f.folder # Omit => ~Elsewhere(Filed(row[i].place, f))
        BY <3>1 DEF Filed, Given, Elsewhere
      <4> QED BY <4>3, <4>4, <4>5
    <3>4. \A j \in Rows' : (j = i /\ i \in Rows) \/ row'[j].place = row[j].place
      BY <1>3, RowsAfter DEF RowAfter
    <3>5. \A j \in Rows' \ crossed' : ~Elsewhere(row'[j].place)
      BY <3>2, <3>3, <3>4
    <3> QED BY <2>2, <3>5 DEF SightInv, FolderThere, Elsewhere
  <2> QED BY <2>3, <2>4
<1>4. ASSUME NEW reachable \in BOOLEAN, Boot(reachable) PROVE SightInv'
  <2>1. UNCHANGED <<row, crossed>> /\ \A q \in Reqs : req'[q] = NoReq
    BY <1>4 DEF Boot
  <2> QED BY <2>1, Idle DEF SightInv, FolderThere, Elsewhere, Rows
<1> QED BY <1>1, <1>2, <1>3, <1>4 DEF Next

(* Whatever requests interleave, fail or are cut off, and whatever a capture    *)
(* names, an item is on a page, unless it was captured with a folder of another *)
(* location, or moved to another location and kept its folder, and no filing    *)
(* has named its folder since.                                                  *)
THEOREM EveryItemInSight == Spec => []NothingOutOfSight
<1>1. Init => SightInv
  <2>1. Init => Rows = {} /\ \A q \in Reqs : req[q] = NoReq
    BY DEF Init, Rows
  <2> QED BY <2>1, Idle DEF SightInv
<1>2. TypeInv /\ SightInv => NothingOutOfSight
  BY FolderFound DEF SightInv, NothingOutOfSight
<1>3. (TypeInv /\ SightInv) /\ [Next]_vars => (TypeInv /\ SightInv)'
  BY TypeNext, SightNext
<1> QED BY <1>1, <1>2, <1>3, TypeInit, PTL DEF Spec

-----------------------------------------------------------------------------
(* Search agrees with the rows *)

ToIndex(q) == req[q].op = "create" \/ req[q].step = "indexing"

(* One handler at most, which holds the location of the row if it will index   *)
(* without reading the row again; and the document is there, or on its way.    *)
FoundAt(i, loc) ==
  /\ \A p, q \in Handling(i) : p = q
  /\ \A q \in Handling(i) :
        req[q].op \in {"create", "tags"} \/ req[q].step = "indexing" => req[q].doc = loc
  /\ index[i] = loc \/ \E q \in Handling(i) : ToIndex(q)

SearchInv == \A i \in Rows \ astray : FoundAt(i, row[i].place.loc)

LEMMA SearchFound == TypeInv /\ SearchInv => SearchTruth
<1> SUFFICES ASSUME TypeInv, SearchInv, NEW i \in Rows, Handling(i) = {}, i \notin astray
             PROVE  /\ i \in Hits(Slots)
                    /\ \A l \in Locs : i \in Hits({l}) <=> row[i].place.loc = l
  BY DEF SearchTruth
<1>1. index[i] = row[i].place.loc
  BY DEF SearchInv, FoundAt
<1>2. row[i].place.loc \in Slots
  BY DEF TypeInv, TypeOK, Rows, Item, Place
<1> QED BY <1>1, <1>2 DEF Hits

LEMMA SearchRequest ==
  ASSUME TypeInv, SearchInv, NEW q \in Reqs, Request(q)
  PROVE  SearchInv'
<1> USE DEF TypeInv
<1>1. PICK i \in Ids, r \in Req :
         /\ Arrives(q, i, r) /\ req'[q] = r /\ \A p \in Reqs \ {q} : req'[p] = req[p]
         /\ req[q].op = "none"
         /\ \/ Adds(i, r)
            \/ (Confirms(r, i) \/ Asks(r, i)) /\ UNCHANGED row /\ Rows' = Rows
  BY RequestsArrive
<1>2. /\ req[q].step = "idle" /\ index' = index /\ r.item = i
      /\ astray' = IF r.op # "attach" /\ Handling(i) # {} THEN astray \cup {i} ELSE astray
  BY <1>1 DEF Arrives
<1>3. ASSUME NEW j \in Rows', j \notin astray'
      PROVE  FoundAt(j, row[j].place.loc)'
  <2>1. CASE j # i \/ r.op = "attach"
    <3>1. Handling(j)' = Handling(j) /\ \A p \in Handling(j) : req'[p] = req[p]
      BY <1>1, <1>2, <2>1 DEF Handling
    <3>2. j \in Rows /\ row'[j] = row[j]
      BY <1>1, <2>1 DEF Adds, Creates
    <3>3. FoundAt(j, row[j].place.loc)
      BY <1>2, <1>3, <3>2 DEF SearchInv
    <3> QED BY <1>2, <3>1, <3>2, <3>3 DEF FoundAt, ToIndex
  <2>2. CASE j = i /\ r.op # "attach"
    <3>1. Handling(i) = {}
      BY <1>2, <1>3, <2>2
    <3>2. Handling(i)' \subseteq {q}
      BY <1>1, <3>1 DEF Handling
    <3>3. CASE Adds(i, r)
      <4>1. r.op = "create" /\ r.doc = row'[i].place.loc /\ r.step # "idle"
        BY <3>3 DEF Adds, Creates
      <4>2. q \in Handling(i)'
        BY <1>1, <1>2, <4>1 DEF Handling
      <4> QED BY <1>1, <2>2, <3>2, <4>1, <4>2 DEF FoundAt, ToIndex
    <3>4. CASE (Confirms(r, i) \/ Asks(r, i)) /\ UNCHANGED row /\ Rows' = Rows
      <4>1. FoundAt(i, row[i].place.loc)
        BY <1>2, <1>3, <2>2, <3>1, <3>4 DEF SearchInv
      <4>2. index'[i] = row'[i].place.loc
        BY <1>2, <3>1, <3>4, <4>1 DEF FoundAt
      <4>3. r.op \in {"create", "tags"} \/ r.step = "indexing" => r.doc = row'[i].place.loc
        BY <1>1, <2>2, <3>4 DEF Confirms, Asks, Arrives, Ops
      <4> QED BY <1>1, <2>2, <3>2, <4>2, <4>3 DEF FoundAt
    <3> QED BY <1>1, <3>3, <3>4
  <2> QED BY <2>1, <2>2
<1> QED BY <1>3 DEF SearchInv

LEMMA SearchStatement ==
  ASSUME TypeInv, SearchInv, NEW q \in Reqs, Statement(q) \/ Fails(q)
  PROVE  SearchInv'
<1> DEFINE j == req[q].item
<1> USE DEF TypeInv
<1>1. /\ \A p \in Reqs \ {q} : Stays(q, p)
      /\ req'[q] = NoReq \/ Advances(q)
  BY RequestsAfter
<1>2. /\ req[q].step # "idle" /\ InOrder(req[q]) /\ j \in Ids
      /\ req[q].step = "unindexing" => j \notin Rows
  <2>1. req[q].step # "idle"
    BY DEF Statement, Fails, WriteFiling, DeleteTags, CommitTags, WriteFavorite, WriteStamps, Tagging,
           InsertAttachment, CheckLimit, AddBytes, DeleteObject, DeleteRow, IndexItem, RemoveItem, At
  <2> QED BY <2>1 DEF Known, InOrder
<1>3. index' = IF IndexItem(q) THEN [index EXCEPT ![j] = req[q].doc]
               ELSE IF RemoveItem(q) THEN [index EXCEPT ![j] = Unindexed] ELSE index
  <2>1. CASE IndexItem(q) \/ RemoveItem(q)
    BY <2>1 DEF IndexItem, RemoveItem, Upserted
  <2>2. CASE ~(IndexItem(q) \/ RemoveItem(q))
    BY <2>2 DEF Statement, Fails, WriteFiling, DeleteTags, CommitTags, WriteFavorite, WriteStamps,
                InsertAttachment, CheckLimit, AddBytes, DeleteObject, DeleteRow, stores
  <2> QED BY <2>1, <2>2
<1>4. astray \subseteq astray'
  BY DEF Statement, Fails, WriteFiling, DeleteTags, CommitTags, WriteFavorite, WriteStamps,
         InsertAttachment, CheckLimit, AddBytes, DeleteObject, DeleteRow, IndexItem, RemoveItem
<1>5. ASSUME NEW i \in Rows', i \notin astray'
      PROVE  FoundAt(i, row[i].place.loc)'
  <2>1. i \in Rows /\ RowAfter(q, i) /\ FoundAt(i, row[i].place.loc)
    BY <1>4, <1>5, RowsAfter DEF SearchInv, RowAfter
  <2>2. /\ Handling(i)' \subseteq Handling(i) /\ Handling(i) \ {q} \subseteq Handling(i)'
        /\ q \in Handling(i)' => Advances(q)
    BY <1>1, <1>2, Idle DEF Handling, Stays, Advances, Keeps
  <2>3. ASSUME NEW p \in Reqs \ {q}
        PROVE  /\ req'[p].op = req[p].op /\ req'[p].step = req[p].step /\ req'[p].doc = req[p].doc
    BY <1>1 DEF Stays, Keeps
  <2>4. CASE q \notin Handling(i)
    <3>1. ~(WriteFiling(q) /\ j = i) /\ ~(IndexItem(q) /\ j = i) /\ ~(RemoveItem(q) /\ j = i)
      BY <1>2, <2>4 DEF Handling, WriteFiling, IndexItem, RemoveItem, At, InOrder
    <3>2. row'[i].place = row[i].place /\ index'[i] = index[i]
      BY <1>2, <1>3, <2>1, <3>1 DEF RowAfter, TypeOK
    <3>3. Handling(i)' = Handling(i)
      BY <2>2, <2>4
    <3>4. \A p \in Handling(i) : p \in Reqs \ {q}
      BY <2>4 DEF Handling
    <3> QED BY <2>1, <2>3, <3>2, <3>3, <3>4 DEF FoundAt, ToIndex
  <2>5. CASE q \in Handling(i)
    <3>1. Handling(i) = {q} /\ j = i /\ req[q].op # "attach" /\ Handling(i)' \subseteq {q}
      BY <2>1, <2>2, <2>5 DEF FoundAt, Handling
    <3>2. /\ req[q].op \in {"create", "tags"} \/ req[q].step = "indexing" => req[q].doc = row[i].place.loc
          /\ index[i] = row[i].place.loc \/ ToIndex(q)
      BY <2>1, <3>1 DEF FoundAt
    <3>3. CASE req'[q] = NoReq
      <4>1. q \notin Handling(i)'
        BY <3>3, Idle DEF Handling
      <4>2. index'[i] = row'[i].place.loc
        <5>1. CASE IndexItem(q)
          <6>1. ~WriteFiling(q) /\ req[q].step = "indexing"
            BY <5>1 DEF IndexItem, WriteFiling, At
          <6> QED BY <1>2, <1>3, <2>1, <3>1, <3>2, <5>1, <6>1 DEF RowAfter, TypeOK
        <5>2. CASE ~IndexItem(q) /\ ToIndex(q)
          <6>1. req[q].op = "create" \/ req[q].step = "indexing"
            BY <5>2 DEF ToIndex
          <6>2. ~Fails(q) /\ Statement(q)
            BY <1>5, <3>1, <6>1 DEF Fails
          <6>3. req[q].op = "create" /\ (DeleteTags(q) \/ CommitTags(q))
            BY <1>2, <5>2, <6>1, <6>2 DEF Statement, WriteFiling, WriteFavorite, WriteStamps, Tagging,
                   InsertAttachment, CheckLimit, AddBytes, DeleteObject, DeleteRow, RemoveItem, At,
                   DeleteTags, CommitTags, InOrder
          <6>4. CASE DeleteTags(q)
            <7>1. req'[q].step = "tagging"
              BY <6>4, DeleteTagsKinds, BecomesOne
            <7> QED BY <3>3, <7>1, Idle
          <6>5. CASE CommitTags(q)
            <7>1. req'[q] # [req[q] EXCEPT !.step = "indexing"]
              <8>1. req[q] \in Req
                BY DEF TypeOK
              <8>2. [req[q] EXCEPT !.step = "indexing"].step = "indexing"
                BY <8>1 DEF Req
              <8> QED BY <3>3, <8>2, Idle
            <7>2. astray' = astray \cup {j}
              BY <6>3, <6>5, <7>1, CommitTagsKinds
            <7> QED BY <1>5, <3>1, <7>2
          <6> QED BY <6>3, <6>4, <6>5
        <5>3. CASE ~ToIndex(q)
          <6>1. ~IndexItem(q) /\ ~RemoveItem(q)
            BY <1>2, <2>1, <3>1, <5>3 DEF ToIndex, IndexItem, RemoveItem
          <6>2. ~WriteFiling(q)
            <7>1. SUFFICES ASSUME WriteFiling(q) PROVE FALSE
              OBVIOUS
            <7>2. \E r : Becomes(q, r) /\ r.step = "indexing"
              BY <2>1, <3>1, <7>1, WriteFilingKinds
            <7> QED BY <3>3, <7>2, BecomesOne, Idle
          <6> QED BY <1>3, <2>1, <3>2, <5>3, <6>1, <6>2 DEF RowAfter
        <5> QED BY <5>1, <5>2, <5>3
      <4> QED BY <3>1, <4>1, <4>2 DEF FoundAt
    <3>4. CASE req'[q] # NoReq
      <4> DEFINE s == req'[q]
      <4>1. Advances(q) /\ s.op = req[q].op /\ s.item = i
        BY <1>1, <3>1, <3>4 DEF Advances, Keeps
      <4>2. ~IndexItem(q) /\ ~RemoveItem(q)
        BY <1>2, <4>1 DEF Advances, IndexItem, RemoveItem, WriteFiling, WriteFavorite, WriteStamps, At,
                          DeleteTags, CommitTags, Tagging, CheckLimit, DeleteObject, DeleteRow
      <4>3. index'[i] = index[i]
        BY <1>3, <4>2
      <4>4. CASE WriteFiling(q) \/ WriteFavorite(q) \/ WriteStamps(q)
        <5>1. s.step = "indexing" /\ s.doc = row'[i].place.loc
          <6>1. CASE WriteFiling(q)
            <7>1. s.step = "indexing" /\ s.doc = req[q].filing.loc
              BY <4>1, <6>1 DEF Advances, WriteFiling, WriteFavorite, WriteStamps, At, DeleteTags,
                                CommitTags, Tagging, CheckLimit, DeleteObject, DeleteRow
            <7>2. row'[i].place.loc = req[q].filing.loc
              BY <2>1, <3>1, <6>1 DEF RowAfter, Filed
            <7> QED BY <7>1, <7>2
          <6>2. CASE WriteFavorite(q) \/ WriteStamps(q)
            <7>1. s.step = "indexing" /\ s.doc = row[i].place.loc /\ ~WriteFiling(q)
              BY <3>1, <4>1, <6>2 DEF Advances, WriteFiling, WriteFavorite, WriteStamps, At, DeleteTags,
                                CommitTags, Tagging, CheckLimit, DeleteObject, DeleteRow
            <7> QED BY <2>1, <7>1 DEF RowAfter
          <6> QED BY <4>4, <6>1, <6>2
        <5>2. q \in Handling(i)'
          BY <3>1, <4>1, <5>1 DEF Handling
        <5> QED BY <3>1, <5>1, <5>2 DEF FoundAt, ToIndex
      <4>5. CASE DeleteTags(q) \/ CommitTags(q)
        <5>1. /\ req[q].op \in {"create", "tags"} /\ s.doc = req[q].doc /\ s.step \in {"tagging", "indexing"}
              /\ req[q].step \in {"untagging", "tagging"} /\ ~WriteFiling(q)
          BY <4>1, <4>5 DEF Advances, WriteFiling, WriteFavorite, WriteStamps, At, DeleteTags,
                            CommitTags, Tagging, CheckLimit, DeleteObject, DeleteRow
        <5>2. s.doc = row'[i].place.loc
          BY <2>1, <3>2, <5>1 DEF RowAfter
        <5>3. q \in Handling(i)'
          BY <3>1, <4>1, <5>1 DEF Handling
        <5>4. index'[i] = row'[i].place.loc \/ s.op = "create"
          BY <2>1, <3>2, <4>1, <4>3, <5>1 DEF RowAfter, ToIndex
        <5> QED BY <3>1, <5>2, <5>3, <5>4 DEF FoundAt, ToIndex
      <4>6. CASE CheckLimit(q) \/ DeleteObject(q) \/ DeleteRow(q)
        <5>1. /\ s.op = "confirm" /\ s.step # "indexing" /\ ~ToIndex(q) /\ ~WriteFiling(q)
          BY <4>1, <4>6 DEF Advances, WriteFiling, WriteFavorite, WriteStamps, At, DeleteTags,
                            CommitTags, Tagging, CheckLimit, DeleteObject, DeleteRow, ToIndex
        <5>2. index'[i] = row'[i].place.loc
          BY <2>1, <3>2, <4>3, <5>1 DEF RowAfter
        <5> QED BY <3>1, <5>1, <5>2 DEF FoundAt
      <4> QED BY <4>1, <4>4, <4>5, <4>6 DEF Advances
    <3> QED BY <3>3, <3>4
  <2> QED BY <2>4, <2>5
<1> QED BY <1>5 DEF SearchInv

LEMMA SearchBoot ==
  ASSUME TypeInv, SearchInv, NEW reachable \in BOOLEAN, Boot(reachable)
  PROVE  SearchInv'
<1> USE DEF TypeInv
<1>1. UNCHANGED row /\ \A q \in Reqs : req'[q] = NoReq
  BY DEF Boot
<1>2. Rows' = Rows /\ Rows \subseteq Ids /\ \A i \in Ids : Handling(i)' = {}
  BY <1>1, Idle DEF Rows, Handling
<1>3. ASSUME NEW i \in Rows, i \notin astray'
      PROVE  index'[i] = row[i].place.loc
  <2>1. CASE reachable
    BY <1>2, <2>1 DEF Boot
  <2>2. CASE ~reachable
    <3>1. index' = index /\ i \notin astray /\ Handling(i) = {}
      BY <1>3, <2>2 DEF Boot
    <3> QED BY <3>1 DEF SearchInv, FoundAt
  <2> QED BY <2>1, <2>2
<1> QED BY <1>1, <1>2, <1>3 DEF SearchInv, FoundAt

(* A settled item is found by search where it is, and nowhere else, as long as no *)
(* index task for it was lost and no two handlers indexed it at once: the item a  *)
(* handler read is still the item it indexes.                                     *)
THEOREM SearchAgrees == Spec => []SearchTruth
<1>1. Init => SearchInv
  BY DEF Init, Rows, SearchInv
<1>2. (TypeInv /\ SearchInv) /\ [Next]_vars => (TypeInv /\ SearchInv)'
  <2> SUFFICES ASSUME TypeInv, SearchInv, [Next]_vars PROVE SearchInv'
    BY TypeNext
  <2>1. CASE UNCHANGED vars
    BY <2>1 DEF vars, SearchInv, FoundAt, Rows, Handling, ToIndex
  <2> QED BY <2>1, SearchRequest, SearchStatement, SearchBoot DEF Next
<1> QED BY <1>1, <1>2, SearchFound, TypeInit, PTL DEF Spec

-----------------------------------------------------------------------------
(* The plan's limit *)

(* One confirmation at a time adds no more than it checked. *)
PlanInv ==
  \/ <<"confirm", 0>> \in overlapped
  \/ /\ used <= Limit
     /\ \A p, q \in Reqs : req[p].op = "confirm" /\ req[q].op = "confirm" => p = q
     /\ \A q \in Reqs : req[q].step = "adding" => used + req[q].size <= Limit

LEMMA OverlapsStay ==
  ASSUME NEW q \in Reqs, Statement(q) \/ Fails(q)
  PROVE  overlapped \subseteq overlapped'
BY DEF Statement, Fails, WriteFiling, DeleteTags, CommitTags, WriteFavorite, WriteStamps, NoteOverlap,
       InsertAttachment, CheckLimit, AddBytes, DeleteObject, DeleteRow, IndexItem, RemoveItem

LEMMA PlanRequest ==
  ASSUME TypeInv, PlanInv, NEW q \in Reqs, Request(q)
  PROVE  PlanInv'
<1> USE DEF TypeInv
<1>1. PICK i \in Ids, r \in Req :
         /\ Arrives(q, i, r) /\ req'[q] = r /\ \A p \in Reqs \ {q} : req'[p] = req[p]
         /\ req[q].op = "none"
         /\ \/ Adds(i, r)
            \/ (Confirms(r, i) \/ Asks(r, i)) /\ UNCHANGED row /\ Rows' = Rows
  BY RequestsArrive
<1>2. used' = used /\ r.step # "adding"
  BY <1>1 DEF Arrives, Adds, Creates, Confirms, Asks, InOrder
<1>3. CASE r.op = "confirm"
  <2>1. overlapped' = IF \E p \in Reqs : req[p].op = "confirm"
                        THEN overlapped \cup {<<"confirm", 0>>} ELSE overlapped
    BY <1>1, <1>3 DEF Adds, Creates, Confirms, Asks
  <2>2. CASE \E p \in Reqs : req[p].op = "confirm"
    BY <2>1, <2>2 DEF PlanInv
  <2>3. CASE ~ \E p \in Reqs : req[p].op = "confirm"
    BY <1>1, <1>2, <2>1, <2>3 DEF PlanInv
  <2> QED BY <2>2, <2>3
<1>4. CASE r.op # "confirm"
  <2>1. overlapped' = overlapped
    BY <1>1, <1>4 DEF Adds, Creates, Confirms, Asks
  <2> QED BY <1>1, <1>2, <1>4, <2>1 DEF PlanInv
<1> QED BY <1>3, <1>4

LEMMA PlanStatement ==
  ASSUME TypeInv, PlanInv, NEW q \in Reqs, Statement(q) \/ Fails(q)
  PROVE  PlanInv'
<1> USE DEF TypeInv
<1> SUFFICES ASSUME <<"confirm", 0>> \notin overlapped' PROVE PlanInv'
  BY DEF PlanInv
<1>1. /\ used <= Limit
      /\ \A p1, p2 \in Reqs : req[p1].op = "confirm" /\ req[p2].op = "confirm" => p1 = p2
      /\ \A p \in Reqs : req[p].step = "adding" => used + req[p].size <= Limit
  BY OverlapsStay DEF PlanInv
<1>2. /\ \A p \in Reqs \ {q} : Stays(q, p)
      /\ req'[q] = NoReq \/ Advances(q)
  BY RequestsAfter
<1>3. \A p \in Reqs : req'[p].op = "confirm" => req[p].op = "confirm"
  BY <1>2, Idle DEF Stays, Advances, Keeps
<1>4. \A p \in Reqs : InOrder(req[p])
  BY DEF Known
<1>5. CASE AddBytes(q) /\ req[q].item \in Rows
  <2>1. used' = used + req[q].size /\ req[q].step = "adding" /\ req[q].op = "confirm" /\ req'[q] = NoReq
    BY <1>5, Answered DEF AddBytes, At
  <2>2. used' <= Limit
    BY <1>1, <2>1
  <2>3. \A p \in Reqs : req'[p].step # "adding"
    BY <1>1, <1>2, <1>4, <2>1, Idle DEF Stays, InOrder
  <2> QED BY <1>1, <1>3, <2>2, <2>3 DEF PlanInv
<1>6. CASE ~(AddBytes(q) /\ req[q].item \in Rows)
  <2>1. used' = used
    BY <1>6 DEF Statement, Fails, WriteFiling, DeleteTags, CommitTags, WriteFavorite, WriteStamps,
                InsertAttachment, CheckLimit, AddBytes, DeleteObject, DeleteRow, IndexItem, RemoveItem,
                stores, fileVars
  <2>2. ASSUME NEW p \in Reqs, req'[p].step = "adding"
        PROVE  used + req'[p].size <= Limit
    <3>1. CASE p # q
      BY <1>1, <1>2, <2>2, <3>1 DEF Stays, Keeps
    <3>2. CASE p = q
      <4>1. Advances(q)
        BY <1>2, <2>2, <3>2, Idle
      <4> QED BY <2>2, <3>2, <4>1 DEF Advances, Keeps
    <3> QED BY <3>1, <3>2
  <2> QED BY <1>1, <1>3, <2>1, <2>2 DEF PlanInv
<1> QED BY <1>5, <1>6

(* The account is over its limit only if two confirmations overlapped: what one *)
(* checked is still true when it adds.                                          *)
LEMMA StaysWithinPlan == Spec => []WithinPlan
<1>1. Init => PlanInv
  <2> SUFFICES ASSUME Init PROVE PlanInv
    OBVIOUS
  <2>1. used = 0 /\ \A q \in Reqs : req[q] = NoReq
    BY DEF Init
  <2>2. used <= Limit
    BY <2>1, ItemsAssumption
  <2> QED BY <2>1, <2>2, Idle DEF PlanInv
<1>2. (TypeInv /\ PlanInv) /\ [Next]_vars => (TypeInv /\ PlanInv)'
  <2> SUFFICES ASSUME TypeInv, PlanInv, [Next]_vars PROVE PlanInv'
    BY TypeNext
  <2>1. CASE UNCHANGED vars
    BY <2>1 DEF vars, PlanInv
  <2>2. ASSUME NEW reachable \in BOOLEAN, Boot(reachable) PROVE PlanInv'
    BY <2>2, Idle DEF Boot, fileVars, PlanInv
  <2> QED BY <2>1, <2>2, PlanRequest, PlanStatement DEF Next
<1>3. PlanInv => WithinPlan
  BY DEF PlanInv, WithinPlan
<1> QED BY <1>1, <1>2, <1>3, TypeInit, PTL DEF Spec

-----------------------------------------------------------------------------
(* Files and rows *)

Confirming(i) == {q \in Reqs : req[q].op = "confirm" /\ req[q].item = i}
Paid(i) == i \in Rows /\ row[i].bytes > 0

(* The object goes before its row; and until an upload is confirmed again, its *)
(* one confirmation finds the object there and the row without bytes.          *)
ConfirmedOnce(i) ==
  /\ \A p, q \in Confirming(i) : p = q
  /\ Confirming(i) # {} => ~Paid(i)
  /\ \A q \in Confirming(i) : req[q].step \in {"checking", "adding"} => file[i] = "stored"
  /\ Paid(i) => file[i] = "stored"

FilesInv ==
  /\ \A i \in Ids : /\ file[i] = "stored" => i \in Rows
                    /\ file[i] = "none" => Confirming(i) = {} /\ ~Paid(i)
  /\ \A q \in Reqs : req[q].step = "deleting row" => file[req[q].item] = "deleted"
  /\ \A i \in Ids \ reconfirmed : ConfirmedOnce(i)

LEMMA FilesRequest ==
  ASSUME TypeInv, FilesInv, NEW q \in Reqs, Request(q)
  PROVE  FilesInv'
<1> USE DEF TypeInv
<1>1. PICK i \in Ids, r \in Req :
         /\ Arrives(q, i, r) /\ req'[q] = r /\ \A p \in Reqs \ {q} : req'[p] = req[p]
         /\ req[q].op = "none"
         /\ \/ Adds(i, r)
            \/ (Confirms(r, i) \/ Asks(r, i)) /\ UNCHANGED row /\ Rows' = Rows
  BY RequestsArrive
<1>2. r.item = i /\ r.step # "deleting row"
  BY <1>1 DEF Arrives, Adds, Creates, Confirms, Asks, InOrder
<1>3. CASE Confirms(r, i)
  <2>1. /\ r.op = "confirm" /\ r.step = "checking" /\ i \in Rows /\ UNCHANGED row /\ Rows' = Rows
        /\ file' = [file EXCEPT ![i] = IF @ = "none" THEN "stored" ELSE @]
        /\ reconfirmed' = IF file[i] # "none" THEN reconfirmed \cup {i} ELSE reconfirmed
    BY <1>1, <1>3 DEF Confirms, Adds, Creates
  <2>2. /\ file'[i] = IF file[i] = "none" THEN "stored" ELSE file[i]
        /\ \A j \in Ids \ {i} : file'[j] = file[j]
    BY <2>1 DEF TypeOK
  <2>3. Confirming(i)' = Confirming(i) \cup {q} /\ \A j \in Ids \ {i} : Confirming(j)' = Confirming(j)
    BY <1>1, <1>2, <2>1 DEF Confirming
  <2>4. \A j \in Ids : Paid(j)' <=> Paid(j)
    BY <2>1 DEF Paid
  <2>5. ASSUME NEW j \in Ids
        PROVE  /\ file'[j] = "stored" => j \in Rows'
               /\ file'[j] = "none" => Confirming(j)' = {} /\ ~Paid(j)'
    <3>1. CASE j = i
      BY <2>1, <2>2, <3>1
    <3>2. CASE j # i
      <4>1. file'[j] = file[j] /\ Confirming(j)' = Confirming(j) /\ (Paid(j)' <=> Paid(j))
        BY <2>2, <2>3, <2>4, <3>2
      <4> QED BY <2>1, <4>1 DEF FilesInv
    <3> QED BY <3>1, <3>2
  <2>6. ASSUME NEW p \in Reqs, req'[p].step = "deleting row" PROVE file'[req'[p].item] = "deleted"
    <3>1. p # q /\ req'[p] = req[p] /\ file[req[p].item] = "deleted"
      BY <1>1, <1>2, <2>6 DEF FilesInv
    <3>2. req[p].item \in Ids
      BY <2>6, <3>1 DEF Known, InOrder
    <3> QED BY <2>2, <3>1, <3>2
  <2>7. ASSUME NEW j \in Ids, j \notin reconfirmed' PROVE ConfirmedOnce(j)'
    <3>1. CASE j # i
      <4>1. ConfirmedOnce(j)
        BY <2>1, <2>7 DEF FilesInv
      <4>2. \A p \in Confirming(j) : req'[p] = req[p]
        BY <1>1 DEF Confirming
      <4> QED BY <2>2, <2>3, <2>4, <3>1, <4>1, <4>2 DEF ConfirmedOnce
    <3>2. CASE j = i
      <4>1. file[i] = "none"
        BY <2>1, <2>7, <3>2
      <4>2. Confirming(i) = {} /\ ~Paid(i) /\ file'[i] = "stored"
        BY <2>2, <4>1 DEF FilesInv
      <4> QED BY <2>3, <2>4, <3>2, <4>2 DEF ConfirmedOnce
    <3> QED BY <3>1, <3>2
  <2> QED BY <2>5, <2>6, <2>7 DEF FilesInv
<1>4. CASE Adds(i, r) \/ Asks(r, i)
  <2>1. r.op # "confirm" /\ UNCHANGED <<file, reconfirmed>> /\ Rows \subseteq Rows'
    BY <1>1, <1>4 DEF Adds, Creates, Asks, Confirms
  <2>2. \A j \in Ids : Confirming(j)' = Confirming(j)
    BY <1>1, <2>1 DEF Confirming
  <2>3. \A j \in Ids : Paid(j)' <=> Paid(j)
    <3>1. CASE Adds(i, r)
      <4>1. Rows' = Rows \cup {i} /\ row'[i].bytes = 0 /\ i \notin Rows /\ \A j \in Rows : row'[j] = row[j]
        BY <3>1 DEF Adds
      <4> QED BY <4>1 DEF Paid
    <3>2. CASE Asks(r, i)
      BY <1>1, <3>2 DEF Paid, Asks, Adds, Creates
    <3> QED BY <1>4, <3>1, <3>2
  <2>4. \A p \in Reqs : req'[p].step = "deleting row" => file'[req'[p].item] = "deleted"
    BY <1>1, <1>2, <2>1 DEF FilesInv
  <2>5. ASSUME NEW j \in Ids, j \notin reconfirmed' PROVE ConfirmedOnce(j)'
    <3>1. ConfirmedOnce(j)
      BY <2>1, <2>5 DEF FilesInv
    <3>2. \A p \in Confirming(j) : req'[p] = req[p]
      BY <1>1 DEF Confirming
    <3> QED BY <2>1, <2>2, <2>3, <3>1, <3>2 DEF ConfirmedOnce
  <2>6. \A j \in Ids : /\ file'[j] = "stored" => j \in Rows'
                       /\ file'[j] = "none" => Confirming(j)' = {} /\ ~Paid(j)'
    BY <2>1, <2>2, <2>3 DEF FilesInv
  <2> QED BY <2>4, <2>5, <2>6 DEF FilesInv
<1> QED BY <1>1, <1>3, <1>4

LEMMA FilesStatement ==
  ASSUME TypeInv, FilesInv, NEW q \in Reqs, Statement(q) \/ Fails(q)
  PROVE  FilesInv'
<1> DEFINE i == req[q].item
<1> USE DEF TypeInv
<1>1. /\ \A p \in Reqs \ {q} : Stays(q, p)
      /\ req'[q] = NoReq \/ Advances(q)
  BY RequestsAfter
<1>2. /\ \A j \in Rows' : RowAfter(q, j)
      /\ Rows' = IF DeleteRow(q) THEN Rows \ {i} ELSE Rows
  BY RowsAfter
<1>3. file' = IF DeleteObject(q) THEN [file EXCEPT ![i] = "deleted"] ELSE file
  <2>1. CASE DeleteObject(q)
    BY <2>1 DEF DeleteObject
  <2>2. CASE ~DeleteObject(q)
    BY <2>2 DEF Statement, Fails, WriteFiling, DeleteTags, CommitTags, WriteFavorite, WriteStamps,
                InsertAttachment, CheckLimit, AddBytes, DeleteRow, IndexItem, RemoveItem, stores, fileVars
  <2> QED BY <2>1, <2>2
<1>4. reconfirmed' = reconfirmed
  BY DEF Statement, Fails, WriteFiling, DeleteTags, CommitTags, WriteFavorite, WriteStamps,
         InsertAttachment, CheckLimit, AddBytes, DeleteObject, DeleteRow, IndexItem, RemoveItem, fileVars
<1>5. /\ \A p \in Reqs : InOrder(req[p]) /\ (req[p].op # "none" => req[p].item \in Ids)
      /\ file \in [Ids -> {"none", "stored", "deleted"}]
  BY DEF Known, TypeOK
<1>6. \A j \in Ids : Confirming(j)' \subseteq Confirming(j)
  BY <1>1, Idle DEF Confirming, Stays, Advances, Keeps
<1>7. \A p \in Reqs \ {q} : req'[p].step = req[p].step /\ req'[p].item = req[p].item /\ req'[p].op = req[p].op
  BY <1>1 DEF Stays, Keeps
<1>8. ASSUME NEW j \in Ids, Paid(j)'
      PROVE  Paid(j) \/ (AddBytes(q) /\ i = j)
  BY <1>2, <1>8 DEF Paid, RowAfter
<1>9. AddBytes(q) => req[q].op = "confirm" /\ req[q].step = "adding" /\ q \in Confirming(i) /\ req'[q] = NoReq
  BY Answered DEF AddBytes, At, Confirming
<1>10. DeleteObject(q) => /\ req[q].op = "confirm" /\ q \in Confirming(i) /\ i \in Ids /\ file'[i] = "deleted"
                          /\ ~DeleteRow(q) /\ ~AddBytes(q)
  BY <1>3, <1>5 DEF DeleteObject, DeleteRow, AddBytes, At, Confirming
<1>11. \A j \in Ids : file'[j] = file[j] \/ (DeleteObject(q) /\ j = i /\ file'[j] = "deleted")
  BY <1>3, <1>5, <1>10
<1>12. ASSUME NEW j \in Ids
       PROVE  /\ file'[j] = "stored" => j \in Rows'
              /\ file'[j] = "none" => Confirming(j)' = {} /\ ~Paid(j)'
  <2>1. file'[j] = "stored" => j \in Rows'
    <3>1. SUFFICES ASSUME file'[j] = "stored" PROVE j \in Rows'
      OBVIOUS
    <3>2. file[j] = "stored" /\ j \in Rows
      BY <1>11, <3>1 DEF FilesInv
    <3>3. ~(DeleteRow(q) /\ i = j)
      BY <3>2 DEF DeleteRow, At, FilesInv
    <3> QED BY <1>2, <3>2, <3>3
  <2>2. file'[j] = "none" => Confirming(j)' = {} /\ ~Paid(j)'
    <3>1. SUFFICES ASSUME file'[j] = "none" PROVE Confirming(j)' = {} /\ ~Paid(j)'
      OBVIOUS
    <3>2. file[j] = "none" /\ Confirming(j) = {} /\ ~Paid(j)
      BY <1>11, <3>1 DEF FilesInv
    <3> QED BY <1>6, <1>8, <1>9, <3>2
  <2> QED BY <2>1, <2>2
<1>13. ASSUME NEW p \in Reqs, req'[p].step = "deleting row" PROVE file'[req'[p].item] = "deleted"
  <2>1. CASE p = q
    <3>1. Advances(q) /\ req'[q].item = i
      BY <1>1, <1>13, <2>1, Idle DEF Advances, Keeps
    <3>2. DeleteObject(q)
      BY <1>13, <2>1, <3>1 DEF Advances
    <3> QED BY <1>10, <2>1, <3>1, <3>2
  <2>2. CASE p # q
    <3>1. req[p].step = "deleting row" /\ req'[p].item = req[p].item
      BY <1>7, <1>13, <2>2
    <3>2. file[req[p].item] = "deleted" /\ req[p].item \in Ids
      BY <1>5, <3>1 DEF FilesInv, InOrder
    <3> QED BY <1>11, <3>1, <3>2
  <2> QED BY <2>1, <2>2
<1>14. ASSUME NEW j \in Ids, j \notin reconfirmed' PROVE ConfirmedOnce(j)'
  <2>1. ConfirmedOnce(j)
    BY <1>4, <1>14 DEF FilesInv
  <2>2. Confirming(j)' \subseteq Confirming(j) /\ \A p1, p2 \in Confirming(j)' : p1 = p2
    BY <1>6, <2>1 DEF ConfirmedOnce
  <2>3. AddBytes(q) /\ i = j => Confirming(j)' = {} /\ file'[j] = "stored"
    <3>1. SUFFICES ASSUME AddBytes(q), i = j PROVE Confirming(j)' = {} /\ file'[j] = "stored"
      OBVIOUS
    <3>2. Confirming(j) = {q} /\ file[j] = "stored"
      BY <1>9, <2>1, <3>1 DEF ConfirmedOnce
    <3>3. q \notin Confirming(j)'
      BY <1>9, <3>1, Idle DEF Confirming
    <3> QED BY <1>10, <1>11, <2>2, <3>1, <3>2, <3>3
  <2>4. Confirming(j)' # {} => ~Paid(j)'
    BY <1>8, <2>1, <2>2, <2>3 DEF ConfirmedOnce
  <2>5. DeleteObject(q) /\ i = j => ~Paid(j)' /\ Confirming(j) = {q} /\ req'[q].step \notin {"checking", "adding"}
    <3>1. SUFFICES ASSUME DeleteObject(q), i = j
                   PROVE  ~Paid(j)' /\ Confirming(j) = {q} /\ req'[q].step \notin {"checking", "adding"}
      OBVIOUS
    <3>2. Confirming(j) = {q} /\ ~Paid(j)
      BY <1>10, <2>1, <3>1 DEF ConfirmedOnce
    <3>3. req'[q].step \notin {"checking", "adding"}
      BY <1>1, <3>1, Idle DEF Advances, WriteFiling, WriteFavorite, WriteStamps, At, DeleteTags,
                        CommitTags, Tagging, CheckLimit, DeleteObject, DeleteRow
    <3> QED BY <1>8, <1>10, <3>1, <3>2, <3>3
  <2>6. Paid(j)' => file'[j] = "stored"
    BY <1>8, <1>11, <2>1, <2>3, <2>5 DEF ConfirmedOnce
  <2>7. ASSUME NEW p \in Confirming(j)', req'[p].step \in {"checking", "adding"}
        PROVE  file'[j] = "stored"
    <3>1. p \in Confirming(j) /\ p \in Reqs
      BY <2>2 DEF Confirming
    <3>2. req[p].step \in {"checking", "adding"}
      <4>1. CASE p # q
        BY <1>7, <2>7, <3>1, <4>1
      <4>2. CASE p = q
        <5>1. Advances(q)
          BY <1>1, <2>7, <4>2, Idle
        <5> QED BY <2>7, <4>2, <5>1 DEF Advances, CheckLimit, At
      <4> QED BY <4>1, <4>2
    <3>3. file[j] = "stored"
      BY <2>1, <3>1, <3>2 DEF ConfirmedOnce
    <3>4. ~(DeleteObject(q) /\ i = j)
      BY <2>5, <2>7, <3>1
    <3> QED BY <1>11, <3>3, <3>4
  <2> QED BY <2>2, <2>4, <2>6, <2>7 DEF ConfirmedOnce
<1> QED BY <1>12, <1>13, <1>14 DEF FilesInv

LEMMA FilesAlways == Spec => [](TypeInv /\ FilesInv)
<1>1. Init => FilesInv
  <2> SUFFICES ASSUME Init PROVE FilesInv
    OBVIOUS
  <2>1. Rows = {} /\ (\A q \in Reqs : req[q] = NoReq) /\ \A i \in Ids : file[i] = "none"
    BY DEF Init, Rows
  <2> QED BY <2>1, Idle DEF FilesInv, Confirming, Paid, ConfirmedOnce
<1>2. (TypeInv /\ FilesInv) /\ [Next]_vars => (TypeInv /\ FilesInv)'
  <2> SUFFICES ASSUME TypeInv, FilesInv, [Next]_vars PROVE FilesInv'
    BY TypeNext
  <2>1. CASE UNCHANGED vars
    <3>1. UNCHANGED <<row, file, req, reconfirmed>>
      BY <2>1 DEF vars
    <3>2. Rows' = Rows /\ \A i \in Ids : Confirming(i)' = Confirming(i) /\ (Paid(i)' <=> Paid(i))
      BY <3>1 DEF Rows, Confirming, Paid
    <3>3. ASSUME NEW i \in Ids, ConfirmedOnce(i) PROVE ConfirmedOnce(i)'
      BY <3>1, <3>2, <3>3 DEF ConfirmedOnce
    <3> QED BY <3>1, <3>2, <3>3 DEF FilesInv
  <2>2. ASSUME NEW reachable \in BOOLEAN, Boot(reachable) PROVE FilesInv'
    <3>1. UNCHANGED <<row, file, reconfirmed>> /\ \A q \in Reqs : req'[q] = NoReq
      BY <2>2 DEF Boot, fileVars
    <3>2. Rows' = Rows /\ \A i \in Ids : Confirming(i)' = {} /\ (Paid(i)' <=> Paid(i))
      BY <3>1, Idle DEF Rows, Confirming, Paid
    <3> QED BY <3>1, <3>2, Idle DEF FilesInv, ConfirmedOnce
  <2> QED BY <2>1, <2>2, FilesRequest, FilesStatement DEF Next
<1> QED BY <1>1, <1>2, TypeInit, PTL DEF Spec

(* No file is left without its row, wherever a refused upload is cut off; and an *)
(* item that is paid for has its file, unless it was confirmed again.            *)
THEOREM FilesAndRows == Spec => []FilesKept
<1>1. FilesInv => FilesKept
  BY DEF FilesInv, FilesKept, ConfirmedOnce, Paid
<1> QED BY <1>1, FilesAlways, PTL

-----------------------------------------------------------------------------
(* Sums of sizes.  The sum is an iteration over a set; it counts the units of *)
(* all rows, one pair for each, and what is counted can be taken apart.       *)

Units(rows, S) == {u \in S \X (Nat \ {0}) : u[2] <= rows[u[1]].bytes}
Total(rows, S) == Cardinality(Units(rows, S))
Sized(rows, S) == IsFiniteSet(S) /\ \A i \in S : rows[i].bytes \in Nat

LEMMA UnitsOfOne ==
  ASSUME NEW rows, NEW i, rows[i].bytes \in Nat
  PROVE  IsFiniteSet(Units(rows, {i})) /\ Total(rows, {i}) = rows[i].bytes
<1> DEFINE n == rows[i].bytes
           f == [k \in 1..n |-> <<i, k>>]
<1>1. Units(rows, {i}) = {i} \X (1..n) /\ n \in Nat
  BY DEF Units
<1> HIDE DEF n
<1>2. f \in Bijection(1..n, Units(rows, {i}))
  <2>1. f \in [1..n -> Units(rows, {i})]
    BY <1>1
  <2>2. \A u \in Units(rows, {i}) : \E k \in 1..n : f[k] = u
    BY <1>1
  <2>3. \A k, l \in 1..n : f[k] = f[l] => k = l
    OBVIOUS
  <2> HIDE DEF f
  <2> QED BY <2>1, <2>2, <2>3 DEF Bijection, Injection, Surjection, IsInjective
<1>3. ExistsBijection(1..n, Units(rows, {i}))
  BY <1>2 DEF ExistsBijection
<1>4. IsFiniteSet(1..n) /\ Cardinality(1..n) = n
  <2>1. IsFiniteSet(1..n) /\ Cardinality(1..n) = IF 1 > n THEN 0 ELSE n - 1 + 1
    BY <1>1, FS_Interval
  <2> QED BY <1>1, <2>1
<1> QED BY <1>3, <1>4, FS_Bijection DEF Total, n

LEMMA UnitsFinite ==
  ASSUME NEW rows, NEW S, Sized(rows, S)
  PROVE  IsFiniteSet(Units(rows, S)) /\ Total(rows, S) \in Nat
<1> DEFINE f == [i \in S |-> Units(rows, {i})]
           R == {Units(rows, {i}) : i \in S}
<1>1. f \in Surjection(S, R)
  BY DEF Surjection
<1>2. IsFiniteSet(R)
  BY <1>1, FS_Surjection DEF Sized
<1>3. \A T \in R : IsFiniteSet(T)
  BY UnitsOfOne DEF Sized
<1>4. Units(rows, S) \subseteq UNION R
  BY DEF Units
<1> HIDE DEF R
<1>5. IsFiniteSet(Units(rows, S))
  BY <1>2, <1>3, <1>4, FS_UNION, FS_Subset
<1> QED BY <1>5, FS_CardinalityType DEF Total

LEMMA TotalOfNone == ASSUME NEW rows PROVE Total(rows, {}) = 0
<1>1. Units(rows, {}) = {}
  BY DEF Units
<1> QED BY <1>1, FS_EmptySet DEF Total

LEMMA TotalAgrees ==
  ASSUME NEW rows, NEW others, NEW S, \A i \in S : rows[i].bytes = others[i].bytes
  PROVE  Total(rows, S) = Total(others, S)
<1>1. Units(rows, S) = Units(others, S)
  BY DEF Units
<1> QED BY <1>1 DEF Total

LEMMA TotalWithout ==
  ASSUME NEW rows, NEW S, Sized(rows, S), NEW x \in S
  PROVE  Total(rows, S) = rows[x].bytes + Total(rows, S \ {x})
<1> DEFINE X == Units(rows, {x})
           Y == Units(rows, S \ {x})
<1>1. Units(rows, S) = X \cup Y /\ X \cap Y = {}
  BY DEF Units
<1>2. IsFiniteSet(X) /\ Cardinality(X) = rows[x].bytes
  BY UnitsOfOne DEF Total, Sized
<1>3. Sized(rows, S \ {x})
  BY FS_RemoveElement DEF Sized
<1>4. IsFiniteSet(Y) /\ Cardinality(Y) \in Nat
  BY <1>3, UnitsFinite DEF Total
<1> HIDE DEF X, Y
<1>5. Cardinality(X \cup Y) = Cardinality(X) + Cardinality(Y) - Cardinality(X \cap Y)
  BY <1>2, <1>4, FS_Union
<1>6. Cardinality(X \cap Y) = 0
  BY <1>1, FS_EmptySet
<1> DEFINE y == Cardinality(Y)
           a == Cardinality(X \cup Y)
<1>7. a = rows[x].bytes + y - 0 /\ y \in Nat /\ rows[x].bytes \in Nat
  BY <1>2, <1>4, <1>5, <1>6 DEF Sized
<1> HIDE DEF y, a
<1>8. a = rows[x].bytes + y
  BY <1>7
<1> QED BY <1>1, <1>8 DEF Total, y, a, Y

(* How MapThenSumSet goes through a set. *)
Chosen(s) == CHOOSE x \in s : TRUE
Iterates(it, rows, S) ==
  it = [s \in SUBSET S |-> IF s = {} THEN 0 ELSE rows[Chosen(s)].bytes + it[s \ {Chosen(s)}]]

(* Of the sets it goes through, a smallest one with another sum would have a *)
(* smaller one inside.                                                       *)
LEMMA IterationCounts ==
  ASSUME NEW rows, NEW S, Sized(rows, S), NEW it, Iterates(it, rows, S)
  PROVE  \A s \in SUBSET S : it[s] = Total(rows, s)
<1> DEFINE bad == {s \in SUBSET S : it[s] # Total(rows, s)}
<1> SUFFICES ASSUME bad # {} PROVE FALSE
  OBVIOUS
<1>1. IsWellFoundedOn(StrictSubsetOrdering(S), SUBSET S)
  <2>1. FiniteSubsetsOf(S) = SUBSET S
    BY FS_FiniteSubsetsOfFinite DEF Sized
  <2>2. IsWellFoundedOn(StrictSubsetOrdering(S), FiniteSubsetsOf(S))
    BY FS_StrictSubsetOrderingWellFounded
  <2> QED BY <2>1, <2>2
<1>2. PICK s \in bad : \A t \in bad : <<t, s>> \notin StrictSubsetOrdering(S)
  BY <1>1, WFMin
<1>3. s # {}
  <2>1. it[{}] = 0 /\ Total(rows, {}) = 0
    BY TotalOfNone DEF Iterates
  <2> QED BY <1>2, <2>1
<1> DEFINE x == Chosen(s)
           t == s \ {x}
<1>4. x \in s /\ s \in SUBSET S
  BY <1>2, <1>3 DEF Chosen
<1>5. it[s] = rows[x].bytes + it[t]
  BY <1>2, <1>3 DEF Iterates
<1>6. <<t, s>> \in StrictSubsetOrdering(S)
  BY <1>4 DEF StrictSubsetOrdering
<1>7. it[t] = Total(rows, t)
  BY <1>2, <1>4, <1>6
<1>8. Total(rows, s) = rows[x].bytes + Total(rows, t)
  <2>1. Sized(rows, s)
    BY <1>4, FS_Subset DEF Sized
  <2> QED BY <1>4, <2>1, TotalWithout
<1> QED BY <1>2, <1>5, <1>7, <1>8

LEMMA SumCounts ==
  ASSUME NEW rows, NEW S, Sized(rows, S)
  PROVE  MapThenSumSet(LAMBDA i : rows[i].bytes, S) = Total(rows, S)
<1> DEFINE it == CHOOSE f : Iterates(f, rows, S)
<1>1. Iterates([s \in SUBSET S |-> Total(rows, s)], rows, S)
  <2>1. ASSUME NEW s \in SUBSET S, s # {}
        PROVE  Total(rows, s) = rows[Chosen(s)].bytes + Total(rows, s \ {Chosen(s)})
    <3>1. Sized(rows, s) /\ Chosen(s) \in s
      BY <2>1, FS_Subset DEF Chosen, Sized
    <3> QED BY <3>1, TotalWithout
  <2>2. \A s \in SUBSET S : s # {} => s \ {Chosen(s)} \in SUBSET S
    OBVIOUS
  <2>3. Total(rows, {}) = 0
    BY TotalOfNone
  <2> QED BY <2>1, <2>2, <2>3 DEF Iterates
<1>2. Iterates(it, rows, S)
  BY <1>1
<1>3. MapThenSumSet(LAMBDA i : rows[i].bytes, S) = it[S]
  BY DEF MapThenSumSet, MapThenFoldSet, Iterates, Chosen
<1> HIDE DEF it
<1> QED BY <1>2, <1>3, IterationCounts

-----------------------------------------------------------------------------
(* The counter of the account *)

LEMMA SizesAreNumbers == \A n \in Sizes \cup {0} : n \in Nat
BY ItemsAssumption

LEMMA RowsAreSized ==
  ASSUME NEW rows \in [Ids -> Item \cup {NoRow}]
  PROVE  Sized(rows, {i \in Ids : rows[i] # NoRow})
<1> DEFINE S == {i \in Ids : rows[i] # NoRow}
<1>1. \A i \in S : rows[i].bytes \in Nat
  <2>1. \A i \in S : rows[i] \in Item
    OBVIOUS
  <2>2. \A it \in Item : it.bytes \in Sizes \cup {0}
    BY DEF Item
  <2> QED BY <2>1, <2>2, SizesAreNumbers
<1>2. IsFiniteSet(Ids) /\ S \in SUBSET Ids
  BY ItemsAssumption, FS_Interval DEF Ids
<1> HIDE DEF S
<1>3. IsFiniteSet(S)
  BY <1>2, FS_Subset
<1> QED BY <1>1, <1>3 DEF Sized, S

(* What the counter is held against, in units. *)
PaidInv == /\ used >= Total(row, Rows)
           /\ reconfirmed = {} => used = Total(row, Rows)

LEMMA PaidStatement ==
  ASSUME TypeInv, TypeInv', FilesInv, PaidInv, NEW q \in Reqs, Statement(q) \/ Fails(q)
  PROVE  PaidInv'
<1> DEFINE i == req[q].item
           rest == Total(row, Rows \ {i})
<1> USE DEF TypeInv
<1>1. Sized(row, Rows) /\ Sized(row', Rows') /\ used \in Nat
  BY RowsAreSized DEF TypeOK, Rows
<1>2. /\ \A j \in Rows' : RowAfter(q, j)
      /\ Rows' = IF DeleteRow(q) THEN Rows \ {i} ELSE Rows
  BY RowsAfter
<1>3. reconfirmed' = reconfirmed
  BY DEF Statement, Fails, WriteFiling, DeleteTags, CommitTags, WriteFavorite, WriteStamps,
         InsertAttachment, CheckLimit, AddBytes, DeleteObject, DeleteRow, IndexItem, RemoveItem,
         stores, fileVars
<1>4. ASSUME AddBytes(q) \/ DeleteRow(q), i \in Rows, reconfirmed = {} PROVE row[i].bytes = 0
  <2>1. q \in Confirming(i) /\ i \in Ids
    BY <1>4 DEF AddBytes, DeleteRow, At, Confirming, Rows
  <2>2. ~Paid(i)
    BY <1>4, <2>1 DEF FilesInv, ConfirmedOnce
  <2> QED BY <1>1, <1>4, <2>2 DEF Paid, Sized
<1>5. ASSUME i \in Rows
      PROVE  rest \in Nat /\ row[i].bytes \in Nat /\ Total(row, Rows) = row[i].bytes + rest
  <2>1. Sized(row, Rows \ {i})
    BY <1>1, FS_RemoveElement DEF Sized
  <2> QED BY <1>1, <1>5, <2>1, UnitsFinite, TotalWithout DEF Sized
<1>6. CASE AddBytes(q) /\ i \in Rows
  <2>1. used' = used + req[q].size /\ Rows' = Rows /\ row'[i].bytes = req[q].size
    BY <1>2, <1>6 DEF AddBytes, DeleteRow, At, RowAfter
  <2>2. \A j \in Rows \ {i} : row'[j].bytes = row[j].bytes
    BY <1>2, <2>1 DEF RowAfter
  <2>3. Total(row', Rows \ {i}) = rest
    BY <2>2, TotalAgrees
  <2>4. Total(row', Rows) = req[q].size + Total(row', Rows \ {i})
    BY <1>1, <1>6, <2>1, TotalWithout
  <2>5. req[q].size \in Nat
    <3>1. req[q] \in Req
      BY DEF TypeOK
    <3>2. \A r \in Req : r.size \in Sizes \cup {0}
      BY DEF Req
    <3> QED BY <3>1, <3>2, SizesAreNumbers
  <2> DEFINE all == Total(row, Rows)
             new == Total(row', Rows)
  <2>6. new = req[q].size + rest /\ all = row[i].bytes + rest /\ rest \in Nat /\ row[i].bytes \in Nat
    BY <1>5, <1>6, <2>3, <2>4
  <2>7. used >= all /\ (reconfirmed = {} => used = all /\ row[i].bytes = 0)
    BY <1>4, <1>6 DEF PaidInv
  <2> HIDE DEF all, new, rest
  <2>8. used' >= new /\ (reconfirmed = {} => used' = new)
    BY <1>1, <2>1, <2>5, <2>6, <2>7
  <2> QED BY <1>3, <2>1, <2>8 DEF PaidInv, new
<1>7. CASE DeleteRow(q) /\ i \in Rows
  <2>1. used' = used /\ Rows' = Rows \ {i}
    BY <1>2, <1>7 DEF DeleteRow
  <2>2. \A j \in Rows \ {i} : row'[j].bytes = row[j].bytes
    BY <1>2, <1>7, <2>1 DEF RowAfter, DeleteRow, AddBytes, At
  <2>3. Total(row', Rows \ {i}) = rest
    BY <2>2, TotalAgrees
  <2> DEFINE all == Total(row, Rows)
  <2>4. all = row[i].bytes + rest /\ rest \in Nat /\ row[i].bytes \in Nat
    BY <1>5, <1>7
  <2>5. used >= all /\ (reconfirmed = {} => used = all /\ row[i].bytes = 0)
    BY <1>4, <1>7 DEF PaidInv
  <2> HIDE DEF all, rest
  <2>6. used >= rest /\ (reconfirmed = {} => used = rest)
    BY <1>1, <2>4, <2>5
  <2> QED BY <1>3, <2>1, <2>3, <2>6 DEF PaidInv
<1>8. CASE ~((AddBytes(q) \/ DeleteRow(q)) /\ i \in Rows)
  <2>1. used' = used
    BY <1>8 DEF Statement, Fails, WriteFiling, DeleteTags, CommitTags, WriteFavorite, WriteStamps,
                InsertAttachment, CheckLimit, AddBytes, DeleteObject, DeleteRow, IndexItem, RemoveItem,
                stores, fileVars
  <2>2. Rows' = Rows /\ \A j \in Rows : row'[j].bytes = row[j].bytes
    BY <1>2, <1>8 DEF RowAfter
  <2>3. Total(row', Rows) = Total(row, Rows)
    BY <2>2, TotalAgrees
  <2> QED BY <1>3, <2>1, <2>2, <2>3 DEF PaidInv
<1> QED BY <1>6, <1>7, <1>8

LEMMA PaidRequest ==
  ASSUME TypeInv, TypeInv', PaidInv, NEW q \in Reqs, Request(q)
  PROVE  PaidInv'
<1>1. PICK i \in Ids, r \in Req :
         /\ Arrives(q, i, r) /\ req'[q] = r /\ \A p \in Reqs \ {q} : req'[p] = req[p]
         /\ req[q].op = "none"
         /\ \/ Adds(i, r)
            \/ (Confirms(r, i) \/ Asks(r, i)) /\ UNCHANGED row /\ Rows' = Rows
  BY RequestsArrive
<1>2. used' = used /\ (reconfirmed' = {} => reconfirmed = {})
  BY <1>1 DEF Arrives, Adds, Creates, Confirms, Asks
<1>3. Total(row', Rows') = Total(row, Rows)
  <2>1. CASE Adds(i, r)
    <3>1. /\ i \notin Rows /\ Rows' = Rows \cup {i} /\ (\A j \in Rows : row'[j] = row[j])
          /\ row'[i].bytes = 0
      BY <2>1 DEF Adds
    <3>2. Sized(row', Rows') /\ Sized(row, Rows) /\ Rows' \ {i} = Rows
      BY <3>1, RowsAreSized DEF TypeInv, TypeOK, Rows
    <3>3. Total(row', Rows') = 0 + Total(row', Rows)
      BY <3>1, <3>2, TotalWithout
    <3>4. Total(row', Rows) = Total(row, Rows)
      BY <3>1, TotalAgrees
    <3>5. Total(row, Rows) \in Nat
      BY <3>2, UnitsFinite
    <3> QED BY <3>3, <3>4, <3>5
  <2> QED BY <1>1, <2>1
<1> QED BY <1>2, <1>3 DEF PaidInv

(* The account pays for what it stores: the counter is the sum of the sizes of *)
(* its items, more only when an upload was confirmed twice, and never less; it *)
(* is over the limit only when two confirmations overlapped.                   *)
THEOREM StorageIsPaidFor == Spec => []StoragePaidFor
<1>1. Init => PaidInv
  <2> SUFFICES ASSUME Init PROVE PaidInv
    OBVIOUS
  <2>1. used = 0 /\ Rows = {}
    BY DEF Init, Rows
  <2> QED BY <2>1, TotalOfNone DEF PaidInv
<1>2. (TypeInv /\ FilesInv) /\ (TypeInv /\ FilesInv)' /\ PaidInv /\ [Next]_vars => PaidInv'
  <2> SUFFICES ASSUME TypeInv, FilesInv, TypeInv', PaidInv, [Next]_vars PROVE PaidInv'
    OBVIOUS
  <2>1. CASE UNCHANGED vars
    <3>1. UNCHANGED <<row, used, reconfirmed>> /\ Rows' = Rows
      BY <2>1 DEF vars, Rows
    <3> QED BY <3>1 DEF PaidInv
  <2>2. ASSUME NEW reachable \in BOOLEAN, Boot(reachable) PROVE PaidInv'
    <3>1. UNCHANGED <<row, used, reconfirmed>> /\ Rows' = Rows
      BY <2>2 DEF Boot, fileVars, Rows
    <3> QED BY <3>1 DEF PaidInv
  <2> QED BY <2>1, <2>2, PaidRequest, PaidStatement DEF Next
<1>3. TypeInv /\ PaidInv /\ WithinPlan => StoragePaidFor
  <2> SUFFICES ASSUME TypeInv, PaidInv, WithinPlan PROVE StoragePaidFor
    OBVIOUS
  <2>1. Stored = Total(row, Rows)
    BY RowsAreSized, SumCounts DEF Stored, TypeInv, TypeOK, Rows
  <2> QED BY <2>1 DEF StoragePaidFor, PaidInv
<1> QED BY <1>1, <1>2, <1>3, FilesAlways, StaysWithinPlan, PTL DEF Spec

-----------------------------------------------------------------------------
(* Tags *)

InTransaction(i) == {q \in Reqs : Tagging(q, "tagging") /\ req[q].item = i}

(* The one transaction on an item's tags has deleted all there are. *)
TaggedAlone(i) ==
  /\ tags[i] = asked[i]
  /\ \A p, q \in InTransaction(i) : p = q
  /\ \A q \in InTransaction(i) : tags[i] \subseteq req[q].old

TagsInv == \A i \in Ids : <<"tags", i>> \in overlapped \/ TaggedAlone(i)

LEMMA TagsRequest ==
  ASSUME TypeInv, TagsInv, NEW q \in Reqs, Request(q)
  PROVE  TagsInv'
<1> USE DEF TypeInv
<1>1. PICK i \in Ids, r \in Req :
         /\ Arrives(q, i, r) /\ req'[q] = r /\ \A p \in Reqs \ {q} : req'[p] = req[p]
         /\ req[q].op = "none"
         /\ \/ Adds(i, r)
            \/ (Confirms(r, i) \/ Asks(r, i)) /\ UNCHANGED row /\ Rows' = Rows
  BY RequestsArrive
<1>2. /\ UNCHANGED <<tags, asked>> /\ overlapped \subseteq overlapped'
      /\ r.op \in {"create", "tags"} => r.step # "tagging"
  BY <1>1 DEF Arrives, Adds, Creates, Confirms, Asks
<1>3. ASSUME NEW j \in Ids, TaggedAlone(j) PROVE TaggedAlone(j)'
  <2>1. InTransaction(j)' = InTransaction(j) /\ \A p \in InTransaction(j) : req'[p] = req[p]
    BY <1>1, <1>2 DEF InTransaction, Tagging
  <2> QED BY <1>2, <1>3, <2>1 DEF TaggedAlone
<1> QED BY <1>2, <1>3 DEF TagsInv

LEMMA TagsStatement ==
  ASSUME TypeInv, TagsInv, NEW q \in Reqs, Statement(q) \/ Fails(q)
  PROVE  TagsInv'
<1> DEFINE j == req[q].item
<1> USE DEF TypeInv
<1>1. /\ \A p \in Reqs \ {q} : Stays(q, p)
      /\ req'[q] = NoReq \/ Advances(q)
  BY RequestsAfter
<1>2. /\ tags \in [Ids -> SUBSET Tags] /\ asked \in [Ids -> SUBSET Tags]
      /\ req[q].op # "none" => j \in Ids
  BY DEF TypeOK, Known
<1>3. SUFFICES ASSUME NEW i \in Ids, <<"tags", i>> \notin overlapped' PROVE TaggedAlone(i)'
  BY DEF TagsInv
<1>4. TaggedAlone(i)
  BY <1>3, OverlapsStay DEF TagsInv
<1>5. InTransaction(i)' \ {q} = InTransaction(i) \ {q}
  BY <1>1 DEF InTransaction, Tagging, Stays, Keeps
<1>6. ASSUME q \in InTransaction(i)'
      PROVE  DeleteTags(q) /\ req'[q].old = tags[j] /\ j = i
  <2>1. Advances(q) /\ req'[q].step = "tagging" /\ req'[q].item = i
    BY <1>1, <1>6, Idle DEF InTransaction, Tagging
  <2> QED BY <2>1 DEF Advances, Keeps
<1>7. CASE DeleteTags(q)
  <2>1. UNCHANGED <<tags, asked>> /\ ~CommitTags(q)
    BY <1>7 DEF DeleteTags, CommitTags, Tagging, stores
  <2>2. \A p \in InTransaction(i) \ {q} : req'[p].old = req[p].old
    BY <1>1, <2>1 DEF InTransaction, Stays
  <2>3. CASE j = i
    <3>1. OtherTagging(q) = {} /\ q \notin InTransaction(i)
      BY <1>3, <1>7, <2>3 DEF DeleteTags, InTransaction, Tagging
    <3>2. InTransaction(i) = {}
      BY <2>3, <3>1 DEF OtherTagging, InTransaction
    <3>3. InTransaction(i)' \subseteq {q}
      BY <1>5, <3>2
    <3> QED BY <1>4, <1>6, <2>1, <3>3 DEF TaggedAlone
  <2>4. CASE j # i
    <3>1. q \notin InTransaction(i)' /\ q \notin InTransaction(i)
      BY <1>6, <2>4 DEF InTransaction
    <3>2. InTransaction(i)' = InTransaction(i)
      BY <1>5, <3>1
    <3> QED BY <1>4, <2>1, <2>2, <3>1, <3>2 DEF TaggedAlone
  <2> QED BY <2>3, <2>4
<1>8. CASE CommitTags(q)
  <2>1. q \notin InTransaction(i)' /\ q \in InTransaction(j) /\ j \in Ids /\ ~DeleteTags(q)
    BY <1>2, <1>6, <1>8 DEF CommitTags, DeleteTags, InTransaction, Tagging
  <2>2. CASE j = i
    <3>1. InTransaction(i) = {q} /\ tags[i] \ req[q].old = {}
      BY <1>4, <2>1, <2>2 DEF TaggedAlone
    <3>2. InTransaction(i)' = {}
      BY <1>5, <2>1, <3>1
    <3>3. tags'[i] = asked'[i]
      <4>1. CASE UNCHANGED tagVars
        BY <1>4, <4>1 DEF TaggedAlone, tagVars
      <4>2. CASE ~UNCHANGED tagVars
        <5>1. /\ tags' = [tags EXCEPT ![j] = IF j \in Rows THEN (tags[j] \ req[q].old) \cup req[q].tags ELSE {}]
              /\ asked' = [asked EXCEPT ![j] = IF j \in Rows THEN req[q].tags ELSE {}]
          BY <1>8, <4>2, CommitTagsKinds
        <5> QED BY <1>2, <2>2, <3>1, <5>1
      <4> QED BY <4>1, <4>2
    <3> QED BY <3>2, <3>3 DEF TaggedAlone
  <2>3. CASE j # i
    <3>1. q \notin InTransaction(i)
      BY <2>3 DEF InTransaction
    <3>2. InTransaction(i)' = InTransaction(i)
      BY <1>5, <2>1, <3>1
    <3>3. \A p \in InTransaction(i) : req'[p].old = req[p].old
      BY <1>1, <2>3, <3>1 DEF InTransaction, Stays, OtherTagging
    <3>4. tags'[i] = tags[i] /\ asked'[i] = asked[i]
      <4>1. CASE UNCHANGED tagVars
        BY <4>1 DEF tagVars
      <4>2. CASE ~UNCHANGED tagVars
        <5>1. /\ tags' = [tags EXCEPT ![j] = IF j \in Rows THEN (tags[j] \ req[q].old) \cup req[q].tags ELSE {}]
              /\ asked' = [asked EXCEPT ![j] = IF j \in Rows THEN req[q].tags ELSE {}]
          BY <1>8, <4>2, CommitTagsKinds
        <5> QED BY <1>2, <2>3, <5>1
      <4> QED BY <4>1, <4>2
    <3> QED BY <1>4, <3>2, <3>3, <3>4 DEF TaggedAlone
  <2> QED BY <2>2, <2>3
<1>9. CASE ~DeleteTags(q) /\ ~CommitTags(q)
  <2>1. InTransaction(i)' \subseteq InTransaction(i)
    BY <1>5, <1>6, <1>9
  <2>2. \A p \in InTransaction(i)' : req'[p].old = req[p].old
    <3>1. q \notin InTransaction(i)'
      BY <1>6, <1>9
    <3> QED BY <1>1, <1>9, <3>1 DEF InTransaction, Stays
  <2>3. \/ tags'[i] = tags[i] /\ asked'[i] = asked[i]
        \/ tags'[i] = {} /\ asked'[i] = {}
    <3>1. CASE DeleteRow(q)
      BY <1>2, <3>1 DEF DeleteRow, At, tagVars
    <3>2. CASE ~DeleteRow(q)
      <4>1. UNCHANGED <<tags, asked>>
        BY <1>9, <3>2 DEF Statement, Fails, WriteFiling, WriteFavorite, WriteStamps, InsertAttachment,
                          CheckLimit, AddBytes, DeleteObject, IndexItem, RemoveItem, stores, tagVars
      <4> QED BY <4>1
    <3> QED BY <3>1, <3>2
  <2> QED BY <1>4, <2>1, <2>2, <2>3 DEF TaggedAlone
<1> QED BY <1>7, <1>8, <1>9

(* An item bears the tags of the last request that set them, whichever requests *)
(* and restarts come between, unless two such transactions overlapped.          *)
THEOREM TagsOfTheLast == Spec => []TagsAsAsked
<1>1. Init => TagsInv
  <2> SUFFICES ASSUME Init PROVE TagsInv
    OBVIOUS
  <2>1. asked = tags /\ \A q \in Reqs : req[q] = NoReq
    BY DEF Init
  <2>2. \A i \in Ids : InTransaction(i) = {}
    BY <2>1, Idle DEF InTransaction, Tagging
  <2> QED BY <2>1, <2>2 DEF TagsInv, TaggedAlone
<1>2. (TypeInv /\ TagsInv) /\ [Next]_vars => (TypeInv /\ TagsInv)'
  <2> SUFFICES ASSUME TypeInv, TagsInv, [Next]_vars PROVE TagsInv'
    BY TypeNext
  <2>1. CASE UNCHANGED vars
    <3>1. UNCHANGED <<tags, asked, req, overlapped>>
      BY <2>1 DEF vars
    <3>2. \A i \in Ids : InTransaction(i)' = InTransaction(i)
      BY <3>1 DEF InTransaction, Tagging
    <3>3. ASSUME NEW i \in Ids, TaggedAlone(i) PROVE TaggedAlone(i)'
      BY <3>1, <3>2, <3>3 DEF TaggedAlone
    <3> QED BY <3>1, <3>3 DEF TagsInv
  <2>2. ASSUME NEW reachable \in BOOLEAN, Boot(reachable) PROVE TagsInv'
    <3>1. UNCHANGED <<tags, asked, overlapped>> /\ \A q \in Reqs : req'[q] = NoReq
      BY <2>2 DEF Boot, tagVars
    <3>2. \A i \in Ids : InTransaction(i)' = {}
      BY <3>1, Idle DEF InTransaction, Tagging
    <3> QED BY <3>1, <3>2 DEF TagsInv, TaggedAlone
  <2> QED BY <2>1, <2>2, TagsRequest, TagsStatement DEF Next
<1>3. TagsInv => TagsAsAsked
  BY DEF TagsInv, TaggedAlone, TagsAsAsked
<1> QED BY <1>1, <1>2, <1>3, TypeInit, PTL DEF Spec

-----------------------------------------------------------------------------
(* Favourites *)

Toggling(i) == {q \in Reqs : At(q, "favorite", "writing") /\ req[q].item = i}

(* What the toggles at work have read is what the row still says. *)
ParityAt(i) ==
  /\ row[i].fav <=> i \in pressed
  /\ \A q \in Toggling(i) : req[q].fav <=> row[i].fav

ParityInv == \A i \in Rows : <<"favorite", i>> \in overlapped \/ ParityAt(i)

LEMMA ParityRequest ==
  ASSUME TypeInv, ParityInv, NEW q \in Reqs, Request(q)
  PROVE  ParityInv'
<1> USE DEF TypeInv
<1>1. PICK i \in Ids, r \in Req :
         /\ Arrives(q, i, r) /\ req'[q] = r /\ \A p \in Reqs \ {q} : req'[p] = req[p]
         /\ req[q].op = "none"
         /\ \/ Adds(i, r)
            \/ (Confirms(r, i) \/ Asks(r, i)) /\ UNCHANGED row /\ Rows' = Rows
  BY RequestsArrive
<1>2. pressed' = pressed /\ r.item = i /\ overlapped \subseteq overlapped'
  BY <1>1 DEF Arrives, Adds, Creates, Confirms, Asks
<1>3. ASSUME NEW j \in Rows', <<"favorite", j>> \notin overlapped' PROVE ParityAt(j)'
  <2>1. CASE j \in Rows
    <3>1. ParityAt(j) /\ row'[j] = row[j]
      BY <1>1, <1>2, <1>3, <2>1 DEF ParityInv, Adds
    <3>2. ASSUME NEW p \in Toggling(j)' PROVE req'[p].fav <=> row[j].fav
      <4>1. CASE p = q
        BY <1>1, <1>2, <3>2, <4>1 DEF Toggling, At, Adds, Creates, Confirms, Asks
      <4>2. CASE p # q
        <5>1. req'[p] = req[p] /\ p \in Toggling(j)
          BY <1>1, <3>2, <4>2 DEF Toggling, At
        <5> QED BY <3>1, <5>1 DEF ParityAt
      <4> QED BY <4>1, <4>2
    <3> QED BY <1>2, <3>1, <3>2 DEF ParityAt
  <2>2. CASE j \notin Rows
    <3>1. Adds(i, r) /\ j = i
      BY <1>1, <1>3, <2>2 DEF Adds
    <3>2. row'[i].fav = FALSE /\ r.op = "create" /\ i = made + 1 /\ \A p \in Reqs : req[p].item # i
      BY <3>1 DEF Adds, Creates
    <3>3. i \notin pressed
      BY <3>2, ItemsAssumption DEF Known, TypeOK
    <3>4. Toggling(i)' = {}
      BY <1>1, <3>2 DEF Toggling, At
    <3> QED BY <1>2, <3>1, <3>2, <3>3, <3>4 DEF ParityAt
  <2> QED BY <2>1, <2>2
<1> QED BY <1>3 DEF ParityInv

LEMMA ParityStatement ==
  ASSUME TypeInv, ParityInv, NEW q \in Reqs, Statement(q) \/ Fails(q)
  PROVE  ParityInv'
<1> DEFINE j == req[q].item
<1> USE DEF TypeInv
<1>1. /\ \A p \in Reqs \ {q} : Stays(q, p)
      /\ req'[q] = NoReq \/ Advances(q)
  BY RequestsAfter
<1>2. SUFFICES ASSUME NEW i \in Rows', <<"favorite", i>> \notin overlapped' PROVE ParityAt(i)'
  BY DEF ParityInv
<1>3. RowAfter(q, i) /\ i \in Rows
  BY RowsAfter DEF RowAfter
<1>4. ParityAt(i)
  BY <1>2, <1>3, OverlapsStay DEF ParityInv
<1>5. q \notin Toggling(i)'
  <2>1. req'[q].step # "writing"
    BY <1>1, Idle DEF Advances
  <2> QED BY <2>1 DEF Toggling, At
<1>6. \A p \in Toggling(i)' : p \in Toggling(i) \ {q} /\ req'[p].fav = req[p].fav
  BY <1>1, <1>5 DEF Toggling, At, Stays, Keeps
<1>7. CASE WriteFavorite(q) /\ j = i
  <2>1. /\ row'[i].fav = ~req[q].fav /\ pressed' = Flip(pressed, i) /\ ~Meets(q, "favorite", "writing")
        /\ q \in Toggling(i)
    BY <1>2, <1>3, <1>7 DEF RowAfter, WriteFavorite, NoteOverlap, Toggling
  <2>2. Toggling(i)' = {}
    BY <1>6, <1>7, <2>1 DEF Meets, Toggling
  <2>3. i \in pressed' <=> i \notin pressed
    BY <2>1 DEF Flip
  <2>4. (req[q].fav <=> row[i].fav) /\ (row[i].fav <=> i \in pressed)
    BY <1>4, <2>1 DEF ParityAt
  <2>5. row'[i].fav <=> i \in pressed'
    BY <2>1, <2>3, <2>4
  <2> QED BY <2>2, <2>5 DEF ParityAt
<1>8. CASE ~(WriteFavorite(q) /\ j = i)
  <2>1. row'[i].fav = row[i].fav
    BY <1>3, <1>8 DEF RowAfter
  <2>2. i \in pressed' <=> i \in pressed
    <3>1. CASE WriteFavorite(q)
      BY <1>8, <3>1 DEF WriteFavorite, Flip
    <3>2. CASE ~WriteFavorite(q)
      BY <3>2 DEF Statement, Fails, WriteFiling, DeleteTags, CommitTags, WriteStamps, InsertAttachment,
                  CheckLimit, AddBytes, DeleteObject, DeleteRow, IndexItem, RemoveItem
    <3> QED BY <3>1, <3>2
  <2> QED BY <1>4, <1>6, <2>1, <2>2 DEF ParityAt
<1> QED BY <1>7, <1>8

(* An item is a favourite exactly when it was toggled an odd number of times, *)
(* unless two toggles read the same value: no other write to the row undoes   *)
(* one.                                                                       *)
THEOREM ToggledTwiceIsBack == Spec => []FavouriteParity
<1>1. Init => ParityInv
  BY DEF Init, Rows, ParityInv
<1>2. (TypeInv /\ ParityInv) /\ [Next]_vars => (TypeInv /\ ParityInv)'
  <2> SUFFICES ASSUME TypeInv, ParityInv, [Next]_vars PROVE ParityInv'
    BY TypeNext
  <2>1. CASE UNCHANGED vars
    <3>1. UNCHANGED <<row, pressed, req, overlapped>>
      BY <2>1 DEF vars
    <3> QED BY <3>1 DEF ParityInv, ParityAt, Toggling, At, Rows
  <2>2. ASSUME NEW reachable \in BOOLEAN, Boot(reachable) PROVE ParityInv'
    <3>1. UNCHANGED <<row, pressed, overlapped>> /\ \A q \in Reqs : req'[q] = NoReq
      BY <2>2 DEF Boot
    <3>2. Rows' = Rows /\ \A i \in Ids : Toggling(i)' = {}
      BY <3>1, Idle DEF Rows, Toggling, At
    <3> QED BY <3>1, <3>2 DEF ParityInv, ParityAt, Rows
  <2> QED BY <2>1, <2>2, ParityRequest, ParityStatement DEF Next
<1>3. TypeInv /\ ParityInv => FavouriteParity
  <2> SUFFICES ASSUME TypeInv, ParityInv, NEW i \in Rows, <<"favorite", i>> \notin overlapped
               PROVE  row[i].fav = (i \in pressed)
    BY DEF FavouriteParity
  <2>1. row[i].fav <=> i \in pressed
    BY DEF ParityInv, ParityAt
  <2>2. row[i].fav \in BOOLEAN
    BY DEF TypeInv, TypeOK, Rows, Item
  <2> QED BY <2>1, <2>2
<1> QED BY <1>1, <1>2, <1>3, TypeInit, PTL DEF Spec
================================================================================
