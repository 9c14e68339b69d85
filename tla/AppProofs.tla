------------------------------- MODULE AppProofs -------------------------------
(***************************************************************************)
(* Theorems about the pages of App that talk to nobody but the API: the    *)
(* search page and the note page, with the dictation on it.                *)
(***************************************************************************)
EXTENDS App, SequenceTheorems, TLAPS

-----------------------------------------------------------------------------
(* The search page *)

Call == [query : Queries, step : {"sent", "answered", "failed"}]

(* The query in the field waits for its timer, or it is what the last request  *)
(* asked for; that request's answer, once it is there, is what the page shows. *)
Asked ==
  LET last == searchCalls[Len(searchCalls)] IN
  /\ Len(searchCalls) # 0 /\ last.query = searchQuery
  /\ last.step = "answered" => ~searchLoading /\ ~searchError /\ searchShown = searchQuery
  /\ last.step = "failed" => ~searchLoading /\ searchError

SearchInv ==
  /\ searchCalls \in Seq(Call)
  /\ searchQuery \in Queries \cup {None} /\ searchTimer \in {searchQuery, None}
  /\ searchError \in BOOLEAN /\ searchLoading \in BOOLEAN /\ searchShown \in Queries \cup {None}
  /\ searchTyped \in 0..MaxTyped
  /\ searchQuery # None => searchTimer = searchQuery \/ (searchTimer = None /\ Asked)

LEMMA SearchInit == Search!Init => SearchInv
<1> SUFFICES ASSUME Search!Init PROVE SearchInv
  OBVIOUS
<1>1. /\ searchQuery = None /\ searchShown = None /\ searchTimer = None /\ searchCalls = << >>
      /\ searchLoading = FALSE /\ searchError = FALSE /\ searchTyped = 0
  BY DEF Search!Init
<1>2. << >> \in Seq(Call) /\ 0 \in 0..MaxTyped
  BY AppAssumption
<1> QED BY <1>1, <1>2 DEF SearchInv

LEMMA SearchNext == SearchInv /\ [Search!Next]_searchVars => SearchInv'
<1> SUFFICES ASSUME SearchInv, [Search!Next]_searchVars PROVE SearchInv'
  OBVIOUS
<1> USE AppAssumption DEF SearchInv
<1>1. ASSUME NEW q \in Queries \cup {None}, Search!Type(q) PROVE SearchInv'
  <2>1. searchTyped' \in 0..MaxTyped
    BY <1>1 DEF Search!Type
  <2>2. /\ searchCalls' = searchCalls /\ searchQuery' = q /\ searchTimer' = q
        /\ searchLoading' \in BOOLEAN /\ searchError' \in BOOLEAN
        /\ searchShown' \in Queries \cup {None}
    BY <1>1, Zenon DEF Search!Type, Search!TimerAfter
  <2> QED BY <2>1, <2>2
<1>2. CASE Search!TimerFires
  <2> DEFINE call == [query |-> searchTimer, step |-> "sent"]
  <2>1. searchTimer \in Queries /\ searchTimer = searchQuery /\ call \in Call
    BY <1>2 DEF Search!TimerFires, Call
  <2>2. searchCalls' = Append(searchCalls, call)
    BY <1>2 DEF Search!TimerFires
  <2>3. searchCalls' \in Seq(Call) /\ Len(searchCalls') # 0 /\ searchCalls'[Len(searchCalls')] = call
    BY <2>1, <2>2
  <2>4. call.query = searchTimer /\ call.step = "sent"
    OBVIOUS
  <2> HIDE DEF call
  <2>5. Asked'
    BY <1>2, <2>1, <2>3, <2>4 DEF Asked, Search!TimerFires
  <2> QED BY <1>2, <2>3, <2>5 DEF Search!TimerFires
<1>3. ASSUME NEW n \in DOMAIN searchCalls, NEW step \in {"answered", "failed"},
             searchCalls' = [searchCalls EXCEPT ![n].step = step]
      PROVE  /\ searchCalls' \in Seq(Call) /\ Len(searchCalls') = Len(searchCalls)
             /\ \A m \in DOMAIN searchCalls : m # n => searchCalls'[m] = searchCalls[m]
             /\ searchCalls'[n].query = searchCalls[n].query /\ searchCalls'[n].step = step
  <2>1. searchCalls[n] \in Call /\ n \in 1..Len(searchCalls)
    OBVIOUS
  <2> DEFINE call == [searchCalls[n] EXCEPT !.step = step]
  <2>2. call \in Call /\ call.query = searchCalls[n].query /\ call.step = step
    BY <2>1 DEF Call
  <2>3. searchCalls' = [searchCalls EXCEPT ![n] = call]
    BY <1>3
  <2> HIDE DEF call
  <2> QED BY <2>1, <2>2, <2>3
<1>4. ASSUME NEW n \in DOMAIN searchCalls, Search!Results(n) PROVE SearchInv'
  <2>1. /\ searchCalls' \in Seq(Call) /\ Len(searchCalls') = Len(searchCalls)
        /\ \A m \in DOMAIN searchCalls : m # n => searchCalls'[m] = searchCalls[m]
        /\ searchCalls'[n].query = searchCalls[n].query /\ searchCalls'[n].step = "answered"
    BY <1>3, <1>4 DEF Search!Results
  <2>2. searchCalls[n].query \in Queries
    <3>1. searchCalls[n] \in Call
      OBVIOUS
    <3> QED BY <3>1 DEF Call
  <2>3. Len(searchCalls) # 0 => Len(searchCalls) \in DOMAIN searchCalls
    OBVIOUS
  <2>4. Asked => Asked'
    BY <1>4, <2>1, <2>3 DEF Asked, Search!Results, Search!Current, Search!LastRequest
  <2> QED BY <1>4, <2>1, <2>2, <2>4 DEF Search!Results
<1>5. ASSUME NEW n \in DOMAIN searchCalls, Search!SearchFails(n) PROVE SearchInv'
  <2>1. /\ searchCalls' \in Seq(Call) /\ Len(searchCalls') = Len(searchCalls)
        /\ \A m \in DOMAIN searchCalls : m # n => searchCalls'[m] = searchCalls[m]
        /\ searchCalls'[n].query = searchCalls[n].query /\ searchCalls'[n].step = "failed"
    BY <1>3, <1>5 DEF Search!SearchFails
  <2>2. Len(searchCalls) # 0 => Len(searchCalls) \in DOMAIN searchCalls
    OBVIOUS
  <2>3. Asked => Asked'
    BY <1>5, <2>1, <2>2 DEF Asked, Search!SearchFails, Search!Current, Search!LastRequest
  <2> QED BY <1>5, <2>1, <2>3 DEF Search!SearchFails
<1>6. CASE UNCHANGED searchVars
  BY <1>6 DEF searchVars, Asked
<1> QED BY <1>1, <1>2, <1>4, <1>5, <1>6 DEF Search!Next

LEMMA SearchOnly == [Next]_vars => [Search!Next]_searchVars
BY DEF Next, vars, GateOpens, GateRedirects, ItemStep, NoteStep, SearchStep, InboxStep, PlacesStep, TeamStep

(* When the timer and the requests have settled, the page shows the results of *)
(* the query in the field, or an error exactly when the last request failed,   *)
(* in whatever order the answers came.                                         *)
THEOREM SearchShowsTheLast == Spec => []SearchSettled
<1>1. Init => SearchInv
  BY SearchInit DEF Init
<1>2. SearchInv /\ [Next]_vars => SearchInv'
  BY SearchNext, SearchOnly
<1>3. SearchInv => SearchSettled
  <2> SUFFICES ASSUME SearchInv, Search!Settled, searchQuery # None
               PROVE  /\ ~searchLoading
                      /\ searchError = (searchCalls[Len(searchCalls)].step = "failed")
                      /\ searchShown = searchQuery \/ searchError
    BY DEF SearchSettled, Search!SearchSettled, Search!LastRequest
  <2>1. Asked /\ searchCalls \in Seq(Call)
    BY DEF Search!Settled, SearchInv
  <2>2. Len(searchCalls) \in DOMAIN searchCalls
    BY <2>1 DEF Asked
  <2>3. searchCalls[Len(searchCalls)].step \in {"answered", "failed"}
    <3>1. searchCalls[Len(searchCalls)] \in Call
      BY <2>1, <2>2
    <3> QED BY <2>2, <3>1 DEF Search!Settled, Call
  <2> QED BY <2>1, <2>3 DEF Asked, SearchInv
<1> QED BY <1>1, <1>2, <1>3, PTL DEF Spec

-----------------------------------------------------------------------------
(* Dictation *)

Said == 1..MaxWords
Dictating == [state : {"off", "on", "stopping"}, final : 0..MaxWords, heard : 0..MaxWords,
              interim : 1..(MaxWords + 1)]

LEMMA WordsSpoken ==
  ASSUME NEW from \in Nat \ {0}, NEW to \in Nat, from <= to + 1, to <= MaxWords
  PROVE  /\ NotePage!Words(from, to) \in Seq(Said) /\ Len(NotePage!Words(from, to)) = to - from + 1
         /\ \A k \in 1..(to - from + 1) : NotePage!Words(from, to)[k] = from + k - 1
<1> DEFINE n == to - from + 1
<1>1. n \in Nat /\ \A k \in 1..n : from + k - 1 \in Said
  BY AppAssumption DEF Said
<1>2. NotePage!Words(from, to) = [k \in 1..n |-> from + k - 1]
  BY DEF NotePage!Words
<1> HIDE DEF n
<1>3. [k \in 1..n |-> from + k - 1] \in Seq(Said)
  BY <1>1
<1>4. Len([k \in 1..n |-> from + k - 1]) = n
  BY <1>1, <1>3
<1> QED BY <1>1, <1>2, <1>3, <1>4 DEF n

(* What was passed on and what is committed next make up what was heard. *)
LEMMA WordsJoined ==
  ASSUME NEW a \in Nat, NEW b \in Nat, a <= b, b <= MaxWords
  PROVE  NotePage!Words(1, a) \o NotePage!Words(a + 1, b) = NotePage!Words(1, b)
<1> DEFINE s == NotePage!Words(1, a)
           t == NotePage!Words(a + 1, b)
           u == NotePage!Words(1, b)
<1>1. s \in Seq(Said) /\ Len(s) = a /\ \A k \in 1..a : s[k] = k
  <2>1. /\ 1 \in Nat \ {0} /\ 1 <= a + 1 /\ a <= MaxWords /\ a - 1 + 1 = a
        /\ \A k \in 1..a : 1 + k - 1 = k
    BY AppAssumption
  <2> QED BY <2>1, WordsSpoken
<1>2. t \in Seq(Said) /\ Len(t) = b - a /\ \A k \in 1..(b - a) : t[k] = a + k
  <2>1. a + 1 \in Nat \ {0} /\ a + 1 <= b + 1 /\ b - (a + 1) + 1 = b - a
        /\ \A k \in 1..(b - a) : a + 1 + k - 1 = a + k
    OBVIOUS
  <2> QED BY <2>1, WordsSpoken
<1>3. u \in Seq(Said) /\ Len(u) = b /\ \A k \in 1..b : u[k] = k
  <2>1. 1 \in Nat \ {0} /\ 1 <= b + 1 /\ b - 1 + 1 = b /\ \A k \in 1..b : 1 + k - 1 = k
    OBVIOUS
  <2> QED BY <2>1, WordsSpoken
<1> HIDE DEF s, t, u
<1>4. s \o t \in Seq(Said) /\ Len(s \o t) = b
  <2>1. s \o t \in Seq(Said) /\ Len(s \o t) = Len(s) + Len(t)
    BY <1>1, <1>2, ConcatProperties
  <2>2. a + (b - a) = b
    OBVIOUS
  <2> QED BY <1>1, <1>2, <2>1, <2>2
<1>5. ASSUME NEW k \in 1..b PROVE (s \o t)[k] = u[k]
  <2>1. (s \o t)[k] = IF k <= a THEN s[k] ELSE t[k - a]
    BY <1>1, <1>2
  <2>2. k > a => k - a \in 1..(b - a)
    OBVIOUS
  <2> QED BY <1>1, <1>2, <1>3, <2>1, <2>2
<1>6. s \o t = u
  BY <1>3, <1>4, <1>5, SeqEqual
<1> QED BY <1>6 DEF s, t, u

(* Until an event leaves interim words out, exactly the final words are passed *)
(* on, and all the others are interim.                                         *)
DictationInv ==
  /\ dictation \in Dictating /\ dictated \in Seq(Said) /\ dropped \in BOOLEAN
  /\ dictation.final <= dictation.heard /\ dictation.final < dictation.interim
  /\ dictation.interim <= dictation.heard + 1
  /\ dictation.state = "off" => dictation.final = dictation.heard
  /\ ~dropped => dictated = NotePage!Words(1, dictation.final) /\ dictation.interim = dictation.final + 1

LEMMA DictationInit == NotePage!DictationInit => DictationInv
<1> SUFFICES ASSUME NotePage!DictationInit PROVE DictationInv
  OBVIOUS
<1>1. /\ dictation = [state |-> "off", final |-> 0, heard |-> 0, interim |-> 1]
      /\ dictated = << >> /\ dropped = FALSE
  BY DEF NotePage!DictationInit, NotePage!Silent
<1>2. /\ dictation \in Dictating /\ dictation.final = 0 /\ dictation.heard = 0 /\ dictation.interim = 1
  BY <1>1, AppAssumption DEF Dictating
<1>3. 1 - 1 + 0 = 0 /\ 0 - 1 + 1 = 0 /\ 1 \in Nat \ {0} /\ 1 <= 0 + 1 /\ 0 <= MaxWords
  BY AppAssumption
<1>4. NotePage!Words(1, 0) \in Seq(Said) /\ Len(NotePage!Words(1, 0)) = 0
  BY <1>3, WordsSpoken
<1>5. << >> \in Seq(Said) /\ Len(<< >>) = 0
  OBVIOUS
<1>6. NotePage!Words(1, 0) = << >>
  <2> DEFINE s == NotePage!Words(1, 0)
  <2> HIDE DEF s
  <2>1. s \in Seq(Said) /\ Len(s) = 0
    BY <1>4 DEF s
  <2>2. s = << >>
    BY <1>5, <2>1, EmptySeq
  <2> QED BY <2>2 DEF s
<1>7. dictated = NotePage!Words(1, dictation.final)
  BY <1>1, <1>2, <1>6, Zenon
<1>8. /\ dictation.final <= dictation.heard /\ dictation.final < dictation.interim
      /\ dictation.interim <= dictation.heard + 1 /\ dictation.interim = dictation.final + 1
  BY <1>2
<1> QED BY <1>1, <1>2, <1>5, <1>7, <1>8 DEF DictationInv

LEMMA DictationSteps ==
  ASSUME DictationInv, NotePage!DictationNext
  PROVE  DictationInv'
<1> DEFINE d == dictation
           e == dictation'
<1>1. /\ d \in Dictating /\ d.final \in Nat /\ d.heard \in Nat /\ d.interim \in Nat /\ d.heard <= MaxWords
      /\ d.state \in {"off", "on", "stopping"}
      /\ d.final <= d.heard /\ d.final < d.interim /\ d.interim <= d.heard + 1
      /\ dictated \in Seq(Said) /\ dropped \in BOOLEAN
      /\ d.state = "off" => d.final = d.heard
      /\ ~dropped => dictated = NotePage!Words(1, d.final) /\ d.interim = d.final + 1
  BY DEF DictationInv, Dictating
<1>2. ASSUME NEW state \in {"on", "stopping"}, e = [d EXCEPT !.state = state], UNCHANGED <<dictated, dropped>>
      PROVE  DictationInv'
  <2>1. e \in Dictating /\ e.state = state /\ e.final = d.final /\ e.heard = d.heard /\ e.interim = d.interim
    BY <1>1, <1>2 DEF Dictating
  <2> QED BY <1>1, <1>2, <2>1 DEF DictationInv
<1>3. CASE NotePage!StartDictation \/ NotePage!StopDictation
  BY <1>2, <1>3 DEF NotePage!StartDictation, NotePage!StopDictation
<1>4. CASE NotePage!OnEnd
  <2>1. /\ d.state # "off" /\ dictated' = dictated \o NotePage!Words(d.interim, d.heard) /\ dropped' = dropped
        /\ e = [[state |-> "off", final |-> 0, heard |-> 0, interim |-> 1]
                  EXCEPT !.final = d.heard, !.heard = d.heard, !.interim = d.heard + 1]
    BY <1>4 DEF NotePage!OnEnd, NotePage!Silent, NotePage!Listening
  <2>2. /\ e.state = "off" /\ e.final = d.heard /\ e.heard = d.heard /\ e.interim = d.heard + 1
        /\ e = [state |-> "off", final |-> d.heard, heard |-> d.heard, interim |-> d.heard + 1]
    BY <2>1
  <2>3. e \in Dictating
    <3>1. d.heard \in 0..MaxWords /\ d.heard + 1 \in 1..(MaxWords + 1)
      BY <1>1, AppAssumption
    <3> QED BY <2>2, <3>1 DEF Dictating
  <2>4. NotePage!Words(d.interim, d.heard) \in Seq(Said)
    <3>1. d.interim \in Nat \ {0}
      BY <1>1
    <3> QED BY <1>1, <3>1, WordsSpoken
  <2>5. dictated' \in Seq(Said)
    BY <1>1, <2>1, <2>4, ConcatProperties
  <2>6. ~dropped => dictated' = NotePage!Words(1, d.heard)
    BY <1>1, <2>1, WordsJoined
  <2>7. e.final <= e.heard /\ e.final < e.interim /\ e.interim <= e.heard + 1 /\ e.interim = e.final + 1
    BY <1>1, <2>2
  <2> QED BY <1>1, <2>1, <2>2, <2>3, <2>5, <2>6, <2>7 DEF DictationInv
<1>5. ASSUME NEW first \in Said, NEW heard \in Said, NEW final \in 0..MaxWords,
             NotePage!OnResult(first, final, heard)
      PROVE  DictationInv'
  <2> DEFINE interim == IF first > final THEN first ELSE final + 1
  <2>1. /\ d.state # "off" /\ first \in (d.final + 1)..heard /\ heard \in {d.heard, d.heard + 1}
        /\ heard <= MaxWords
        /\ final = d.final \/ (first = d.final + 1 /\ final \in first..heard)
        /\ e = [d EXCEPT !.final = final, !.heard = heard, !.interim = interim]
        /\ dictated' = dictated \o NotePage!Words(d.final + 1, final)
        /\ dropped' = (dropped \/ first > final + 1)
    BY <1>5 DEF NotePage!OnResult, NotePage!Listening, NotePage!Interim
  <2>2. final \in Nat /\ first \in Nat /\ heard \in Nat /\ d.final <= final /\ final <= heard /\ final <= MaxWords
        /\ first <= heard
    <3>1. /\ MaxWords \in Nat /\ first \in Nat /\ final \in Nat /\ d.final \in Nat /\ d.heard \in Nat
          /\ d.final <= d.heard
      BY <1>1, AppAssumption DEF Said
    <3>2. heard \in Nat /\ d.heard <= heard
      BY <2>1, <3>1
    <3>3. first \in (d.final + 1)..heard /\ heard <= MaxWords
          /\ (final = d.final \/ (first = d.final + 1 /\ final \in first..heard))
      BY <2>1
    <3> QED BY <3>1, <3>2, <3>3
  <2>3. interim \in 1..(MaxWords + 1) /\ final < interim /\ interim <= heard + 1
        /\ (~(first > final + 1) => interim = final + 1)
    <3>1. MaxWords \in Nat /\ first \in 1..MaxWords
      BY AppAssumption DEF Said
    <3>2. CASE first > final
      BY <2>2, <3>1, <3>2
    <3>3. CASE ~(first > final)
      BY <2>2, <3>1, <3>3
    <3> QED BY <3>2, <3>3
  <2> HIDE DEF interim
  <2>4. /\ e \in Dictating /\ e.state = d.state /\ e.final = final /\ e.heard = heard /\ e.interim = interim
    <3>1. heard \in 0..MaxWords
      BY <2>1, <2>2, AppAssumption
    <3> QED BY <1>1, <2>1, <2>3, <3>1 DEF Dictating
  <2>5. dictated' \in Seq(Said)
    <3>1. d.final + 1 \in Nat \ {0} /\ d.final + 1 <= final + 1
      BY <1>1, <2>2
    <3>2. NotePage!Words(d.final + 1, final) \in Seq(Said)
      BY <2>2, <3>1, WordsSpoken
    <3> QED BY <1>1, <2>1, <3>2, ConcatProperties
  <2>6. ~dropped => dictated' = NotePage!Words(1, final)
    BY <1>1, <2>1, <2>2, WordsJoined
  <2>7. ~dropped' => dictated' = NotePage!Words(1, final) /\ interim = final + 1
    BY <2>1, <2>3, <2>6
  <2>8. dropped' \in BOOLEAN
    BY <2>1
  <2> QED BY <2>1, <2>2, <2>3, <2>4, <2>5, <2>7, <2>8 DEF DictationInv
<1> QED BY <1>3, <1>4, <1>5 DEF NotePage!DictationNext, Said

-----------------------------------------------------------------------------
(* The note page *)

Place == Locs \cup {None}
Entered == [loc : Place, folder : Place, photos : 0..MaxPhotos, text : Seq(Said)]
Notes == [loc : Place, folder : Place, text : Seq(Said), attached : -1..MaxPhotos]
Saving == {"enqueue", "create note", "create photo", "put photo", "confirm photo", "attach photo",
           "navigate", "left"}
Uploading == {"create photo", "put photo", "confirm photo", "attach photo"}

NoteOf(form, attached) ==
  [loc |-> form.loc, folder |-> form.folder, text |-> form.text, attached |-> attached]

NoteTyped ==
  /\ noteLoc \in Place /\ noteFolder \in Place /\ noteLists \in Place /\ noteListing \subseteq Locs
  /\ notePhotos \in 0..MaxPhotos /\ noteRow \in Notes
  /\ noteSave = [step |-> "idle", photo |-> 0, form |-> << >>] \/
       noteSave \in [step : Saving, photo : 0..(MaxPhotos + 1), form : Entered]
  /\ noteSaves \in 0..MaxNotes /\ noteStrays \in 0..noteSaves
  /\ noteLate \in BOOLEAN /\ noteShaky \in BOOLEAN

(* What a save has made so far of the form it was called with; beside it, only *)
(* a save before it can have left a note.                                      *)
SaveInv ==
  LET step == noteSave.step
      form == noteSave.form IN
  /\ step # "idle" => noteStrays < noteSaves /\ (noteLate \/ form = NotePage!Form)
  /\ step = "enqueue" => form.photos = 0
  /\ step = "create note" => noteSave.photo = 1 /\ form.photos # 0
  /\ step \in Uploading => noteSave.photo \in 1..form.photos /\ noteRow = NoteOf(form, noteSave.photo - 1)
  /\ step \in {"navigate", "left"} => noteRow = NoteOf(form, form.photos)

Fits(loc, folder) == loc = None \/ folder \in {loc, None}

(* While nothing was crossed, the only lists under way are those of the        *)
(* location that is picked, and the lists on screen are its own.               *)
FolderInv ==
  ~noteShaky =>
    /\ noteListing \subseteq {noteLoc} /\ (noteListing = {} => noteLists = noteLoc)
    /\ Fits(noteLoc, noteFolder) /\ Fits(noteRow.loc, noteRow.folder)
    /\ noteSave.step # "idle" => Fits(noteSave.form.loc, noteSave.form.folder)

NoteInv == DictationInv /\ NoteTyped /\ SaveInv /\ FolderInv

LEMMA FormEntered == NoteInv => NotePage!Form \in Entered
BY DEF NoteInv, NoteTyped, DictationInv, NotePage!Form, Entered

LEMMA NoteInit == NotePage!Init => NoteInv
<1> SUFFICES ASSUME NotePage!Init PROVE NoteInv
  OBVIOUS
<1>1. /\ noteLoc = None /\ noteFolder = None /\ noteLists = None /\ noteListing = {}
      /\ notePhotos = 0 /\ noteSave = [step |-> "idle", photo |-> 0, form |-> << >>]
      /\ noteRow = [loc |-> None, folder |-> None, text |-> << >>, attached |-> -1]
      /\ noteStrays = 0 /\ noteSaves = 0 /\ noteLate = FALSE /\ noteShaky = FALSE
  BY DEF NotePage!Init, NotePage!NotSaving, NotePage!NoNote
<1>2. DictationInv
  BY DictationInit DEF NotePage!Init
<1>3. noteRow \in Notes /\ noteRow.loc = None
  <2>1. -1 \in -1..MaxPhotos /\ << >> \in Seq(Said)
    BY AppAssumption
  <2> QED BY <1>1, <2>1 DEF Notes, Place
<1>4. NoteTyped
  <2>1. 0 \in 0..MaxPhotos /\ 0 \in 0..MaxNotes /\ 0 \in 0..0
    BY AppAssumption
  <2> QED BY <1>1, <1>3, <2>1 DEF NoteTyped, Place
<1>5. SaveInv /\ FolderInv
  BY <1>1, <1>3 DEF SaveInv, FolderInv, Fits, Uploading
<1> QED BY <1>2, <1>4, <1>5 DEF NoteInv

(* What is entered while a save is under way is marked; the save goes on as it was. *)
LEMMA FormEdited ==
  ASSUME NoteTyped, SaveInv, noteSave.step # "left", NotePage!Late, UNCHANGED NotePage!saveVars
  PROVE  SaveInv' /\ noteLate' \in BOOLEAN
<1>1. noteLate' = (noteSave.step \notin {"idle", "left"})
  BY DEF NotePage!Late, NotePage!SavingNote
<1>2. noteSave' = noteSave /\ noteRow' = noteRow /\ noteStrays' = noteStrays /\ noteSaves' = noteSaves
  BY DEF NotePage!saveVars
<1> QED BY <1>1, <1>2 DEF SaveInv

LEMMA LocationPicked ==
  ASSUME NoteInv, NEW l \in Place, NotePage!PickLocation(l)
  PROVE  NoteInv'
<1>1. /\ noteSave.step # "left" /\ l # noteLoc /\ noteLoc' = l
      /\ noteFolder' = (IF l = None THEN noteFolder ELSE None)
      /\ noteLists' = (IF l = None THEN None ELSE noteLists)
      /\ noteListing' = noteListing \cup (Locs \cap {l})
      /\ noteShaky' = (noteShaky \/ noteListing # {})
      /\ NotePage!Late /\ notePhotos' = notePhotos /\ UNCHANGED NotePage!saveVars
      /\ UNCHANGED NotePage!dictationVars
  BY DEF NotePage!PickLocation, NotePage!FolderAfter
<1>2. noteSave' = noteSave /\ noteRow' = noteRow /\ noteStrays' = noteStrays /\ noteSaves' = noteSaves
  BY <1>1 DEF NotePage!saveVars
<1>3. SaveInv' /\ noteLate' \in BOOLEAN
  BY <1>1, FormEdited DEF NoteInv
<1>4. DictationInv'
  BY <1>1 DEF NoteInv, NotePage!dictationVars, DictationInv
<1>5. NoteTyped'
  BY <1>1, <1>2, <1>3 DEF NoteInv, NoteTyped, Place
<1>6. FolderInv'
  BY <1>1, <1>2, AppAssumption DEF NoteInv, FolderInv, Fits, Place
<1> QED BY <1>3, <1>4, <1>5, <1>6 DEF NoteInv

LEMMA ListsEnd ==
  ASSUME NoteInv, NEW l \in Place, NotePage!ListsAnswered(l) \/ NotePage!ListsFail(l)
  PROVE  NoteInv'
<1>1. /\ l \in noteListing /\ noteListing' = noteListing \ {l} /\ noteLoc' = noteLoc /\ noteFolder' = noteFolder
      /\ \/ noteLists' = l /\ noteShaky' = noteShaky
         \/ noteLists' = noteLists /\ noteShaky' = TRUE
      /\ notePhotos' = notePhotos /\ noteLate' = noteLate /\ UNCHANGED NotePage!saveVars
      /\ UNCHANGED NotePage!dictationVars
  BY DEF NotePage!ListsAnswered, NotePage!ListsFail
<1>2. noteSave' = noteSave /\ noteRow' = noteRow /\ noteStrays' = noteStrays /\ noteSaves' = noteSaves
  BY <1>1 DEF NotePage!saveVars
<1>3. DictationInv'
  BY <1>1 DEF NoteInv, NotePage!dictationVars, DictationInv
<1>4. NoteTyped'
  BY <1>1, <1>2 DEF NoteInv, NoteTyped, Place
<1>5. dictated' = dictated
  BY <1>1 DEF NotePage!dictationVars
<1>6. NotePage!Form' = NotePage!Form
  BY <1>1, <1>5 DEF NotePage!Form
<1>7. SaveInv'
  BY <1>1, <1>2, <1>6 DEF NoteInv, SaveInv
<1>8. FolderInv'
  BY <1>1, <1>2 DEF NoteInv, FolderInv, Fits
<1> QED BY <1>3, <1>4, <1>7, <1>8 DEF NoteInv

LEMMA FolderPicked ==
  ASSUME NoteInv, NEW f \in Place, NotePage!PickFolder(f)
  PROVE  NoteInv'
<1>1. /\ noteSave.step # "left" /\ noteLoc # None /\ f \in {noteLists, None} /\ noteFolder' = f
      /\ noteShaky' = (noteShaky \/ noteListing # {})
      /\ noteLoc' = noteLoc /\ noteLists' = noteLists /\ noteListing' = noteListing
      /\ NotePage!Late /\ notePhotos' = notePhotos /\ UNCHANGED NotePage!saveVars
      /\ UNCHANGED NotePage!dictationVars
  BY DEF NotePage!PickFolder
<1>2. noteSave' = noteSave /\ noteRow' = noteRow /\ noteStrays' = noteStrays /\ noteSaves' = noteSaves
  BY <1>1 DEF NotePage!saveVars
<1>3. SaveInv' /\ noteLate' \in BOOLEAN
  BY <1>1, FormEdited DEF NoteInv
<1>4. DictationInv'
  BY <1>1 DEF NoteInv, NotePage!dictationVars, DictationInv
<1>5. NoteTyped'
  BY <1>1, <1>2, <1>3 DEF NoteInv, NoteTyped, Place
<1>6. FolderInv'
  BY <1>1, <1>2 DEF NoteInv, FolderInv, Fits
<1> QED BY <1>3, <1>4, <1>5, <1>6 DEF NoteInv

LEMMA PhotosOrText ==
  ASSUME NoteInv, (\E n \in 0..MaxPhotos : NotePage!ChangePhotos(n)) \/ NotePage!Dictate
  PROVE  NoteInv'
<1>1. /\ noteSave.step # "left" /\ NotePage!Late /\ UNCHANGED NotePage!placeVars
      /\ UNCHANGED NotePage!saveVars /\ notePhotos' \in 0..MaxPhotos
  BY DEF NotePage!ChangePhotos, NotePage!Dictate, NoteInv, NoteTyped
<1>2. noteSave' = noteSave /\ noteRow' = noteRow /\ noteStrays' = noteStrays /\ noteSaves' = noteSaves
  BY <1>1 DEF NotePage!saveVars
<1>3. /\ noteLoc' = noteLoc /\ noteFolder' = noteFolder /\ noteLists' = noteLists
      /\ noteListing' = noteListing /\ noteShaky' = noteShaky
  BY <1>1 DEF NotePage!placeVars
<1>4. SaveInv' /\ noteLate' \in BOOLEAN
  BY <1>1, FormEdited DEF NoteInv
<1>5. DictationInv'
  <2>1. CASE UNCHANGED NotePage!dictationVars
    BY <2>1 DEF NoteInv, NotePage!dictationVars, DictationInv
  <2> QED BY <2>1, DictationSteps DEF NotePage!ChangePhotos, NotePage!Dictate, NoteInv
<1>6. NoteTyped'
  BY <1>1, <1>2, <1>3, <1>4 DEF NoteInv, NoteTyped
<1>7. FolderInv'
  BY <1>2, <1>3 DEF NoteInv, FolderInv, Fits
<1> QED BY <1>4, <1>5, <1>6, <1>7 DEF NoteInv

LEMMA SaveTapped ==
  ASSUME NoteInv, NEW online \in BOOLEAN, NotePage!TapSave(online)
  PROVE  NoteInv'
<1> DEFINE form == NotePage!Form
           save == [step |-> IF notePhotos > 0 THEN "create note" ELSE "enqueue", photo |-> 1, form |-> form]
<1>1. /\ noteSaves < MaxNotes /\ noteSaves' = noteSaves + 1 /\ noteSave' = save /\ noteLate' = FALSE
      /\ UNCHANGED NotePage!placeVars /\ notePhotos' = notePhotos /\ noteRow' = noteRow
      /\ noteStrays' = noteStrays /\ UNCHANGED NotePage!dictationVars
  BY DEF NotePage!TapSave
<1>2. /\ noteLoc' = noteLoc /\ noteFolder' = noteFolder /\ noteLists' = noteLists
      /\ noteListing' = noteListing /\ noteShaky' = noteShaky /\ dictated' = dictated
  BY <1>1 DEF NotePage!placeVars, NotePage!dictationVars
<1>3. DictationInv'
  BY <1>1 DEF NoteInv, NotePage!dictationVars, DictationInv
<1>4. /\ form \in Entered /\ form' = form /\ form.photos = notePhotos /\ form.loc = noteLoc
      /\ form.folder = noteFolder
  BY <1>1, <1>2, FormEntered DEF NotePage!Form
<1>5. /\ save.form = form /\ save.photo = 1
      /\ \/ save.step = "create note" /\ notePhotos # 0
         \/ save.step = "enqueue" /\ notePhotos = 0
  BY DEF NoteInv, NoteTyped
<1>6. save \in [step : Saving, photo : 0..(MaxPhotos + 1), form : Entered]
  <2>1. 1 \in 0..(MaxPhotos + 1)
    BY AppAssumption
  <2> QED BY <1>4, <2>1 DEF Saving
<1> HIDE DEF save, form
<1>7. noteSaves' \in 0..MaxNotes /\ noteStrays' \in 0..noteSaves' /\ noteStrays' < noteSaves'
  BY <1>1, AppAssumption DEF NoteInv, NoteTyped
<1>8. NoteTyped'
  BY <1>1, <1>2, <1>6, <1>7 DEF NoteInv, NoteTyped
<1>9. SaveInv'
  BY <1>1, <1>4, <1>5, <1>7 DEF form, SaveInv, Uploading
<1>10. FolderInv'
  BY <1>1, <1>2, <1>4, <1>5 DEF NoteInv, FolderInv
<1> QED BY <1>3, <1>8, <1>9, <1>10 DEF NoteInv

LEMMA SaveSteps ==
  ASSUME NoteInv, NotePage!SaveStep \/ NotePage!Navigate
  PROVE  NoteInv'
<1> DEFINE step == noteSave.step
           form == noteSave.form
           photo == noteSave.photo
<1>1. /\ step # "idle" /\ noteSave \in [step : Saving, photo : 0..(MaxPhotos + 1), form : Entered]
      /\ form \in Entered /\ photo \in 0..(MaxPhotos + 1) /\ form.photos \in 0..MaxPhotos
  <2>1. step # "idle"
    BY DEF NotePage!SaveStep, NotePage!Navigate, NotePage!PhotoSteps
  <2>2. noteSave \in [step : Saving, photo : 0..(MaxPhotos + 1), form : Entered]
    BY <2>1 DEF NoteInv, NoteTyped
  <2>3. form \in Entered /\ photo \in 0..(MaxPhotos + 1)
    BY <2>2
  <2> QED BY <2>1, <2>2, <2>3 DEF Entered
<1>2. /\ UNCHANGED NotePage!placeVars /\ notePhotos' = notePhotos /\ UNCHANGED NotePage!dictationVars
      /\ noteStrays' = noteStrays /\ noteSaves' = noteSaves /\ noteLate' = noteLate
  BY DEF NotePage!SaveStep, NotePage!Navigate
<1>3. /\ noteLoc' = noteLoc /\ noteFolder' = noteFolder /\ noteLists' = noteLists
      /\ noteListing' = noteListing /\ noteShaky' = noteShaky /\ dictated' = dictated
  BY <1>2 DEF NotePage!placeVars, NotePage!dictationVars
<1>4. DictationInv'
  BY <1>2 DEF NoteInv, NotePage!dictationVars, DictationInv
<1>5. NotePage!Form' = NotePage!Form
  BY <1>2, <1>3 DEF NotePage!Form
<1>6. ASSUME NEW next \in Saving, NEW n \in 0..(MaxPhotos + 1),
             noteSave' = [noteSave EXCEPT !.step = next, !.photo = n], noteRow' \in Notes,
             next = "create note" => n = 1 /\ form.photos # 0,
             next = "enqueue" => form.photos = 0,
             next \in Uploading => n \in 1..form.photos /\ noteRow' = NoteOf(form, n - 1),
             next \in {"navigate", "left"} => noteRow' = NoteOf(form, form.photos),
             \/ noteRow' = noteRow
             \/ noteRow'.loc = form.loc /\ noteRow'.folder = form.folder
      PROVE  NoteInv'
  <2>1. /\ noteSave' \in [step : Saving, photo : 0..(MaxPhotos + 1), form : Entered]
        /\ noteSave'.step = next /\ noteSave'.photo = n /\ noteSave'.form = form
    BY <1>1, <1>6
  <2>2. NoteTyped'
    BY <1>2, <1>3, <1>6, <2>1 DEF NoteInv, NoteTyped
  <2>3. SaveInv'
    BY <1>1, <1>2, <1>5, <1>6, <2>1 DEF NoteInv, SaveInv
  <2>4. FolderInv'
    BY <1>1, <1>3, <1>6, <2>1 DEF NoteInv, FolderInv
  <2> QED BY <1>4, <2>2, <2>3, <2>4 DEF NoteInv
<1>7. ASSUME NEW n \in 0..MaxPhotos
      PROVE  NoteOf(form, n) \in Notes /\ NoteOf(form, n).loc = form.loc /\ NoteOf(form, n).folder = form.folder
  BY <1>1, AppAssumption DEF NoteOf, Notes, Entered
<1>8. CASE NotePage!Navigate
  <2>1. noteSave' = [noteSave EXCEPT !.step = "left", !.photo = photo]
    BY <1>1, <1>8 DEF NotePage!Navigate
  <2>2. noteRow' = noteRow /\ noteRow = NoteOf(form, form.photos) /\ noteRow \in Notes
    BY <1>8 DEF NotePage!Navigate, NoteInv, SaveInv, NoteTyped
  <2> QED BY <1>1, <1>6, <2>1, <2>2 DEF Saving, Uploading
<1>9. CASE NotePage!SaveStep
  <2>1. /\ step \in {"create photo", "put photo", "confirm photo", "attach photo", "enqueue", "create note"}
        /\ noteRow' = NotePage!Effect(step)
        /\ noteSave' = [noteSave EXCEPT !.step = NotePage!Following(step),
                                        !.photo = IF step = "attach photo" THEN photo + 1 ELSE photo]
    BY <1>9 DEF NotePage!SaveStep, NotePage!PhotoSteps
  <2>2. noteRow \in Notes
    BY DEF NoteInv, NoteTyped
  <2>3. CASE step = "enqueue"
    <3>1. /\ noteRow' = NoteOf(form, 0) /\ form.photos = 0
          /\ noteSave' = [noteSave EXCEPT !.step = "navigate", !.photo = photo]
      BY <2>1, <2>3 DEF NotePage!Effect, NotePage!Following, NotePage!NewNote, NoteOf, NoteInv, SaveInv
    <3>2. 0 \in 0..MaxPhotos
      BY AppAssumption
    <3> QED BY <1>1, <1>6, <1>7, <3>1, <3>2 DEF Saving, Uploading
  <2>4. CASE step = "create note"
    <3>1. /\ noteRow' = NoteOf(form, 0) /\ form.photos # 0 /\ photo = 1
          /\ noteSave' = [noteSave EXCEPT !.step = "create photo", !.photo = photo]
      BY <2>1, <2>4 DEF NotePage!Effect, NotePage!Following, NotePage!NewNote, NoteOf, NoteInv, SaveInv
    <3>2. 0 \in 0..MaxPhotos /\ photo \in 1..form.photos /\ photo - 1 = 0
      BY <1>1, <3>1, AppAssumption
    <3> QED BY <1>1, <1>6, <1>7, <3>1, <3>2 DEF Saving, Uploading
  <2>5. CASE step \in {"create photo", "put photo", "confirm photo"}
    <3>1. /\ noteRow' = noteRow /\ photo \in 1..form.photos /\ noteRow = NoteOf(form, photo - 1)
      BY <2>1, <2>5 DEF NotePage!Effect, NoteInv, SaveInv, Uploading
    <3>2. PICK next \in {"put photo", "confirm photo", "attach photo"} :
            noteSave' = [noteSave EXCEPT !.step = next, !.photo = photo]
      BY <2>1, <2>5 DEF NotePage!Following
    <3> QED BY <1>1, <1>6, <2>2, <3>1, <3>2 DEF Saving, Uploading
  <2>6. CASE step = "attach photo"
    <3>1. photo \in 1..form.photos /\ noteRow = NoteOf(form, photo - 1)
      BY <2>6 DEF NoteInv, SaveInv, Uploading
    <3>2. noteRow' = [noteRow EXCEPT !.attached = noteRow.attached + 1]
      BY <2>1, <2>6 DEF NotePage!Effect
    <3>3. noteRow' = NoteOf(form, photo) /\ photo \in 0..MaxPhotos /\ photo + 1 \in 0..(MaxPhotos + 1)
      <4>1. photo - 1 + 1 = photo /\ photo \in 0..MaxPhotos /\ photo + 1 \in 0..(MaxPhotos + 1)
        BY <1>1, <3>1, AppAssumption
      <4> QED BY <3>1, <3>2, <4>1 DEF NoteOf
    <3>4. noteSave' = [noteSave EXCEPT !.step = IF photo = form.photos THEN "navigate" ELSE "create photo",
                                       !.photo = photo + 1]
      BY <2>1, <2>6 DEF NotePage!Following, NotePage!LastPhoto
    <3>5. CASE photo = form.photos
      BY <1>1, <1>6, <1>7, <3>3, <3>4, <3>5 DEF Saving, Uploading
    <3>6. CASE photo # form.photos
      <4>1. photo + 1 \in 1..form.photos /\ photo + 1 - 1 = photo
        BY <1>1, <3>1, <3>6
      <4>2. noteSave' = [noteSave EXCEPT !.step = "create photo", !.photo = photo + 1]
        BY <3>4, <3>6
      <4>3. noteRow' \in Notes /\ noteRow'.loc = form.loc /\ noteRow'.folder = form.folder
        BY <1>7, <3>3
      <4> DEFINE n == photo + 1
      <4>4. noteRow' = NoteOf(form, n - 1) /\ n \in 0..(MaxPhotos + 1) /\ n \in 1..form.photos
        BY <3>3, <4>1
      <4>5. noteSave' = [noteSave EXCEPT !.step = "create photo", !.photo = n]
        BY <4>2
      <4> HIDE DEF form, photo, n
      <4>6. "create photo" \in Saving /\ "create photo" \notin {"enqueue", "create note", "navigate", "left"}
        BY DEF Saving
      <4> QED BY <1>6, <4>3, <4>4, <4>5, <4>6
    <3> QED BY <3>5, <3>6
  <2> QED BY <2>1, <2>3, <2>4, <2>5, <2>6
<1> QED BY <1>8, <1>9

LEMMA SaveEndsBadly ==
  ASSUME NoteInv, NEW ran \in BOOLEAN, NotePage!SaveFails(ran)
  PROVE  NoteInv'
<1>1. /\ noteRow' = NotePage!NoNote /\ noteSave' = NotePage!NotSaving /\ noteLate' = FALSE
      /\ noteSave.step # "idle" /\ noteStrays' \in {noteStrays, noteStrays + 1}
      /\ UNCHANGED NotePage!placeVars /\ notePhotos' = notePhotos /\ noteSaves' = noteSaves
      /\ UNCHANGED NotePage!dictationVars
  BY DEF NotePage!SaveFails, NotePage!PhotoSteps
<1>2. /\ noteLoc' = noteLoc /\ noteFolder' = noteFolder /\ noteLists' = noteLists
      /\ noteListing' = noteListing /\ noteShaky' = noteShaky
  BY <1>1 DEF NotePage!placeVars
<1>3. DictationInv'
  BY <1>1 DEF NoteInv, NotePage!dictationVars, DictationInv
<1>4. /\ noteSave' = [step |-> "idle", photo |-> 0, form |-> << >>] /\ noteSave'.step = "idle"
      /\ noteRow' = [loc |-> None, folder |-> None, text |-> << >>, attached |-> -1]
      /\ noteRow'.loc = None
  BY <1>1 DEF NotePage!NotSaving, NotePage!NoNote
<1>5. noteRow' \in Notes
  <2>1. -1 \in -1..MaxPhotos /\ << >> \in Seq(Said)
    BY AppAssumption
  <2> QED BY <1>4, <2>1 DEF Notes, Place
<1>6. noteStrays' \in 0..noteSaves'
  <2>1. noteSaves \in Nat /\ noteStrays \in Nat
    BY AppAssumption DEF NoteInv, NoteTyped
  <2>2. noteStrays < noteSaves
    BY <1>1 DEF NoteInv, SaveInv
  <2> QED BY <1>1, <2>1, <2>2
<1>7. NoteTyped'
  BY <1>1, <1>2, <1>4, <1>5, <1>6 DEF NoteInv, NoteTyped
<1>8. SaveInv' /\ FolderInv'
  BY <1>1, <1>2, <1>4 DEF NoteInv, SaveInv, FolderInv, Fits, Uploading
<1> QED BY <1>3, <1>7, <1>8 DEF NoteInv

LEMMA NoteNext == NoteInv /\ [NotePage!Next]_noteVars => NoteInv'
<1> SUFFICES ASSUME NoteInv, [NotePage!Next]_noteVars PROVE NoteInv'
  OBVIOUS
<1>1. CASE NotePage!Next
  <2>1. NotePage!Choices = Place
    BY DEF NotePage!Choices, Place
  <2> QED BY <1>1, <2>1, LocationPicked, ListsEnd, FolderPicked, PhotosOrText, SaveTapped, SaveSteps,
             SaveEndsBadly DEF NotePage!Next
<1>2. CASE UNCHANGED noteVars
  BY <1>2 DEF noteVars, NoteInv, DictationInv, NoteTyped, SaveInv, FolderInv, NotePage!Form
<1> QED BY <1>1, <1>2

LEMMA NoteOnly == [Next]_vars => [NotePage!Next]_noteVars
BY DEF Next, vars, GateOpens, GateRedirects, ItemStep, NoteStep, SearchStep, InboxStep, PlacesStep, TeamStep

LEMMA NoteAlways == Spec => []NoteInv
<1>1. Init => NoteInv
  BY NoteInit DEF Init
<1>2. NoteInv /\ [Next]_vars => NoteInv'
  BY NoteNext, NoteOnly
<1> QED BY <1>1, <1>2, PTL DEF Spec

(* When the dictation has ended, every word that was heard was passed on once  *)
(* and in order, by a final result or by onend, unless an event left out       *)
(* interim words.                                                              *)
THEOREM EveryWordOnce == Spec => []DictatedOnce
<1>1. NoteInv => DictatedOnce
  BY DEF NoteInv, DictationInv, DictatedOnce, NotePage!DictatedOnce, NotePage!Listening
<1> QED BY <1>1, NoteAlways, PTL

(* save() leaves the page only for a note with the place, the text and all the *)
(* photos of the form, and what else the saves left is fewer than the saves.   *)
THEOREM SaveIsWhole == Spec => []NoteSavedWhole
<1>1. NoteInv => NoteSavedWhole
  <2> SUFFICES ASSUME NoteInv, noteSave.step = "left"
               PROVE  /\ noteStrays < noteSaves
                      /\ noteRow.attached = noteSave.form.photos
                      /\ noteLate \/ noteRow = [NotePage!NewNote(NotePage!Form) EXCEPT !.attached = notePhotos]
    BY DEF NoteSavedWhole, NotePage!NoteSavedWhole
  <2>1. /\ noteStrays < noteSaves /\ noteRow = NoteOf(noteSave.form, noteSave.form.photos)
        /\ noteLate \/ noteSave.form = NotePage!Form
    BY DEF NoteInv, SaveInv
  <2> QED BY <2>1 DEF NoteOf, NotePage!NewNote, NotePage!Form
<1> QED BY <1>1, NoteAlways, PTL

(* A note filed at a location is in a folder of that location or in none, while *)
(* no folder was picked under lists that were late, failed or crossed.          *)
THEOREM FolderIsOfThePlace == Spec => []NoteFolderFits
<1>1. NoteInv => NoteFolderFits
  BY DEF NoteInv, FolderInv, Fits, NoteTyped, NoteFolderFits, NotePage!NoteFolderFits
<1> QED BY <1>1, NoteAlways, PTL
================================================================================
