------------------------------- MODULE NoteForm -------------------------------
(***************************************************************************)
(* The form of a new note (NotePage.tsx): the place it is filed to, its    *)
(* dictated text, its photos, and save(), which goes to the outbox or,     *)
(* with photos, to the API in many requests.  The fields stay editable     *)
(* while it saves.  A location's folder bears its name; spots are picked   *)
(* and listed like folders and are left out, as are title and tags.        *)
(***************************************************************************)
EXTENDS Dictation

CONSTANTS NoteLocs,   \* locations
          MaxPhotos,  \* bound: photos in the form
          MaxNotes,   \* bound: taps on Save
          NoPlace     \* the empty choice

Choices == NoteLocs \cup {NoPlace}

VARIABLES noteLoc, noteFolder,  \* locationId, folderId
          noteLists,    \* the location whose folders are offered
          noteListing,  \* locations whose lists are under way
          notePhotos,   \* photos in the form
          noteSave,     \* save(): the statement it is at, the photo, what it was called with
          noteRow,      \* the note of this save, with its photos attached, once it is there
          noteStrays,   \* notes that saves which failed left behind
          noteSaves,    \* taps on Save
          noteLate,     \* history: something was entered during the save
          noteShaky     \* history: a folder was picked while lists were under way, after one
                        \* failed, or after two were under way at once

noteVars == <<noteLoc, noteFolder, noteLists, noteListing, notePhotos, noteSave, noteRow, noteStrays,
              noteSaves, noteLate, noteShaky, dictationVars>>

Form == [loc |-> noteLoc, folder |-> noteFolder, photos |-> notePhotos, text |-> dictated]
NoNote == [loc |-> NoPlace, folder |-> NoPlace, text |-> << >>, attached |-> -1]
NotSaving == [step |-> "idle", photo |-> 0, form |-> <<>>]
SavingNote == noteSave.step \notin {"idle", "left"}

(* What is entered during a save; bound: one thing. *)
Late == ~noteLate /\ noteLate' = SavingNote


Init == /\ noteLoc = NoPlace /\ noteFolder = NoPlace /\ noteLists = NoPlace /\ noteListing = {}
        /\ notePhotos = 0 /\ noteSave = NotSaving /\ noteRow = NoNote
        /\ noteStrays = 0 /\ noteSaves = 0 /\ noteLate = FALSE /\ noteShaky = FALSE
        /\ DictationInit

placeVars == <<noteLoc, noteFolder, noteLists, noteListing, noteShaky>>
saveVars == <<noteSave, noteRow, noteStrays, noteSaves>>

-----------------------------------------------------------------------------
(* The pickers.  Choosing a location clears the folder and asks for lists; the *)
(* lists of the last answer stay until the next one.  The empty choice takes   *)
(* the lists away, and leaves the folder.                                      *)

(* Mutant: the folder is not cleared. *)
FolderKept(l) == noteFolder

FolderAfter(l) == IF l = NoPlace THEN noteFolder ELSE NoPlace

PickLocation(l) ==
  /\ noteSave.step # "left" /\ l # noteLoc
  /\ noteLoc' = l
  /\ noteFolder' = FolderAfter(l)
  /\ noteLists' = IF l = NoPlace THEN NoPlace ELSE noteLists
  /\ noteListing' = noteListing \cup (NoteLocs \cap {l})
  /\ noteShaky' = (noteShaky \/ noteListing # {})
  /\ Late
  /\ UNCHANGED <<notePhotos, saveVars, dictationVars>>

ListsAnswered(l) ==
  /\ noteSave.step # "left" /\ l \in noteListing
  /\ noteListing' = noteListing \ {l}
  /\ noteLists' = l
  /\ UNCHANGED <<noteLoc, noteFolder, noteShaky, notePhotos, saveVars, noteLate, dictationVars>>

ListsFail(l) ==
  /\ noteSave.step # "left" /\ l \in noteListing
  /\ noteListing' = noteListing \ {l}
  /\ noteShaky' = TRUE
  /\ UNCHANGED <<noteLoc, noteFolder, noteLists, notePhotos, saveVars, noteLate, dictationVars>>

PickFolder(f) ==
  /\ noteSave.step # "left" /\ noteLoc # NoPlace
  /\ f # noteFolder /\ f \in {noteLists, NoPlace}
  /\ noteFolder' = f
  /\ noteShaky' = (noteShaky \/ noteListing # {})
  /\ Late
  /\ UNCHANGED <<noteLoc, noteLists, noteListing, notePhotos, saveVars, dictationVars>>

-----------------------------------------------------------------------------
(* addPhoto, removePendingPhoto; dictation adds to the text. *)

ChangePhotos(n) == /\ noteSave.step # "left"
                   /\ n \in {notePhotos - 1, notePhotos + 1} \cap 0..MaxPhotos
                   /\ notePhotos' = n
                   /\ Late
                   /\ UNCHANGED <<placeVars, saveVars, dictationVars>>

Dictate == /\ noteSave.step # "left"
           /\ DictationNext
           /\ Late
           /\ UNCHANGED <<placeVars, notePhotos, saveVars>>

-----------------------------------------------------------------------------
(* save().  For each photo: create, PUT, confirmUpload, attach. *)

PhotoSteps == {"create photo", "put photo", "confirm photo", "attach photo"}
SaveSteps == PhotoSteps \cup {"idle", "enqueue", "create note", "navigate", "left"}

CanSave == noteSave.step = "idle" /\ ~Listening

(* The photos need a connection; offline, save() says so and stops. *)
TapSave(online) ==
  /\ CanSave /\ noteSaves < MaxNotes
  /\ notePhotos > 0 => online
  /\ noteSaves' = noteSaves + 1
  /\ noteSave' = [step |-> IF notePhotos > 0 THEN "create note" ELSE "enqueue",
                  photo |-> 1, form |-> Form]
  /\ noteLate' = FALSE
  /\ UNCHANGED <<placeVars, notePhotos, noteRow, noteStrays, dictationVars>>

NewNote(form) == [loc |-> form.loc, folder |-> form.folder, text |-> form.text, attached |-> 0]

(* What a statement does when it runs. *)
Effect(step) ==
  CASE step \in {"enqueue", "create note"} -> NewNote(noteSave.form)
    [] step = "attach photo" -> [noteRow EXCEPT !.attached = @ + 1]
    [] OTHER -> noteRow

(* Mutant: the loop ends one photo early. *)
AllButOne == noteSave.photo + 1 >= noteSave.form.photos

LastPhoto == noteSave.photo = noteSave.form.photos

Following(step) ==
  CASE step = "create note" -> "create photo"
    [] step = "create photo" -> "put photo"
    [] step = "put photo" -> "confirm photo"
    [] step = "confirm photo" -> "attach photo"
    [] step = "attach photo" -> IF LastPhoto THEN "navigate" ELSE "create photo"
    [] step = "enqueue" -> "navigate"

SaveStep ==
  LET step == noteSave.step IN
  /\ step \in PhotoSteps \cup {"enqueue", "create note"}
  /\ noteRow' = Effect(step)
  /\ noteSave' = [noteSave EXCEPT !.step = Following(step),
                                  !.photo = IF step = "attach photo" THEN @ + 1 ELSE @]
  /\ UNCHANGED <<placeVars, notePhotos, noteStrays, noteSaves, noteLate, dictationVars>>

(* A statement throws, before or after it took effect: a note that is there *)
(* stays, and the user may tap Save again, which makes another.             *)
SaveFails(ran) ==
  LET step == noteSave.step IN
  /\ step \in PhotoSteps \cup {"enqueue", "create note"}
  /\ noteRow' = NoNote
  /\ noteStrays' = IF ran \/ noteRow # NoNote THEN noteStrays + 1 ELSE noteStrays
  /\ noteSave' = NotSaving
  /\ noteLate' = FALSE
  /\ UNCHANGED <<placeVars, notePhotos, noteSaves, dictationVars>>

(* To the location's page or the inbox: this page is gone. *)
Navigate == /\ noteSave.step = "navigate"
            /\ noteSave' = [noteSave EXCEPT !.step = "left"]
            /\ UNCHANGED <<placeVars, notePhotos, noteRow, noteStrays, noteSaves, noteLate, dictationVars>>

-----------------------------------------------------------------------------
Next == \/ \E l \in Choices : PickLocation(l) \/ ListsAnswered(l) \/ ListsFail(l) \/ PickFolder(l)
        \/ \E n \in 0..MaxPhotos : ChangePhotos(n)
        \/ Dictate
        \/ \E online \in BOOLEAN : TapSave(online)
        \/ SaveStep \/ Navigate
        \/ \E ran \in BOOLEAN : SaveFails(ran)

TypeOK == /\ noteLoc \in Choices /\ noteFolder \in Choices /\ noteLists \in Choices
          /\ noteListing \subseteq NoteLocs /\ notePhotos \in 0..MaxPhotos
          /\ noteSave.step \in SaveSteps /\ noteSave.photo \in 0..(MaxPhotos + 1)
          /\ noteSaves \in 0..MaxNotes /\ noteStrays \in 0..noteSaves
          /\ noteRow \in [loc : Choices, folder : Choices, text : Seq(1..MaxWords),
                         attached : -1..MaxPhotos]
          /\ noteLate \in BOOLEAN /\ noteShaky \in BOOLEAN

(* When the page leaves for the list, there is a note with everything the form *)
(* holds: place, dictated text and every photo attached.  Beside it there may  *)
(* be one note for each save before that failed, with some photos or none;     *)
(* what is entered while the save is under way is lost with the page.          *)
NoteSavedWhole ==
  noteSave.step = "left" =>
    /\ noteStrays < noteSaves
    /\ noteRow.attached = noteSave.form.photos
    /\ noteLate \/ noteRow = [NewNote(Form) EXCEPT !.attached = notePhotos]

(* A note filed at a location is in a folder of that location, or in none:     *)
(* create does not check it, so the form has to.  It fails to when the folder  *)
(* is picked from lists of another location, which stay on screen while the    *)
(* new ones are under way, when they fail, and when answers cross.             *)
NoteFolderFits ==
  noteRow.loc # NoPlace => noteRow.folder \in {noteRow.loc, NoPlace} \/ noteShaky
=============================================================================
