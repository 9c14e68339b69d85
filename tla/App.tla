---------------------------------- MODULE App ----------------------------------
(***************************************************************************)
(* A tab of the client (App.tsx): a route is opened, AuthGate looks for a  *)
(* token, and the page of the route is mounted and runs against the API.   *)
(* A page keeps nothing when it is left, and pages share no state but the  *)
(* tier cache, which Places follows from page to page; so one page is      *)
(* opened and stays, and another visit is another behaviour.  The outbox,  *)
(* the tokens and the settings page have models of their own.              *)
(***************************************************************************)
EXTENDS Naturals, Sequences

CONSTANTS Locs, None,
          Note, Photo, Optimistic, MaxLoads, MaxSaves,
          MaxWords, MaxPhotos, MaxNotes,
          Queries, MaxTyped,
          InboxItems, MaxReads, MaxFilings,
          Plans, MaxRows,
          People, TeamSeats, MaxActs

ASSUME AppAssumption == /\ None \notin Locs \cup Queries \cup InboxItems
                        /\ MaxTyped \in Nat /\ MaxWords \in Nat /\ MaxPhotos \in Nat /\ MaxNotes \in Nat
                        /\ Plans \subseteq Nat /\ MaxRows \in Nat
                        /\ "tags" \notin Optimistic
                        /\ MaxLoads \in Nat \ {0} /\ MaxSaves \in Nat /\ MaxActs \in Nat \ {0}

VARIABLES appPage, appGate,
          itemRows, itemUrl, itemShown, itemLoads, itemSaves, itemSaved, itemUpset,
          dictation, dictated, dropped, noteLoc, noteFolder, noteLists, noteListing, notePhotos,
          noteSave, noteRow, noteStrays, noteSaves, noteLate, noteShaky,
          searchQuery, searchShown, searchLoading, searchError, searchTimer, searchCalls, searchTyped,
          inboxRows, inboxShown, inboxDrafts, inboxLocations, inboxContents, inboxFetches,
          inboxLoads, inboxFilings, inboxError, inboxUpset,
          placesRows, placesPlan, placesTier, placesShown, placesLoad, placesAdds, placesOwn,
          placesRaced, placesCrossed, placesStale,
          teamPeople, teamAccepts, teamInvites, teamName, teamMe, teamSeats, teamShown, teamActs, teamReads, teamUpset

Item == INSTANCE ItemPage
NotePage == INSTANCE NoteForm WITH NoteLocs <- Locs, NoPlace <- None
Search == INSTANCE SearchBox WITH Blank <- None
InboxPage == INSTANCE Inbox WITH InboxLocs <- Locs, InboxEmpty <- None
PlacesPage == INSTANCE Places
TeamPage == INSTANCE TeamScreen

appVars == <<appPage, appGate>>
itemVars == <<itemRows, itemUrl, itemShown, itemLoads, itemSaves, itemSaved, itemUpset>>
noteVars == <<dictation, dictated, dropped, noteLoc, noteFolder, noteLists, noteListing, notePhotos,
              noteSave, noteRow, noteStrays, noteSaves, noteLate, noteShaky>>
searchVars == <<searchQuery, searchShown, searchLoading, searchError, searchTimer, searchCalls,
                searchTyped>>
inboxVars == <<inboxRows, inboxShown, inboxDrafts, inboxLocations, inboxContents, inboxFetches,
               inboxLoads, inboxFilings, inboxError, inboxUpset>>
placesVars == <<placesRows, placesPlan, placesTier, placesShown, placesLoad, placesAdds, placesOwn,
                placesRaced, placesCrossed, placesStale>>
teamVars == <<teamPeople, teamAccepts, teamInvites, teamName, teamMe, teamSeats, teamShown, teamActs, teamReads,
              teamUpset>>
vars == <<appVars, itemVars, noteVars, searchVars, inboxVars, placesVars, teamVars>>

(* The home page, a location and a folder are "places"; behind the gate there are *)
(* also "capture", "spot" and "settings", which take no step here, and before it   *)
(* the ways to a token.                                                            *)
Gated == {"places", "capture", "note", "inbox", "search", "item", "spot", "settings", "team"}
Open == {"login", "register", "mfa", "invite"}
Routes == Gated \cup Open

Init == /\ appPage \in Routes /\ appGate = "checking"
        /\ Item!Init /\ NotePage!Init /\ Search!Init /\ InboxPage!Init /\ PlacesPage!Init
        /\ TeamPage!Init
        (* What another page does not look at, whatever it is. *)
        /\ appPage # "places" => placesPlan = CHOOSE plan \in Plans : TRUE
        /\ appPage # "team" => teamMe = "OWNER" /\ teamSeats = CHOOSE n \in TeamSeats : TRUE

(* isLoggedIn: there is an access token, of whatever age. *)
GateOpens == /\ appPage \in Gated /\ appGate = "checking" /\ appGate' = "in"
             /\ UNCHANGED <<appPage, itemVars, noteVars, searchVars, inboxVars, placesVars, teamVars>>

GateRedirects == /\ appPage \in Gated /\ appGate = "checking" /\ appGate' = "out"
                 /\ appPage' = "login"
                 /\ UNCHANGED <<itemVars, noteVars, searchVars, inboxVars, placesVars, teamVars>>

(* A step of the page that is mounted. *)
On(route) == appPage = route /\ appGate = "in" /\ UNCHANGED appVars

ItemStep == /\ On("item") /\ Item!Next
            /\ UNCHANGED <<noteVars, searchVars, inboxVars, placesVars, teamVars>>

NoteStep == /\ On("note") /\ NotePage!Next
            /\ UNCHANGED <<itemVars, searchVars, inboxVars, placesVars, teamVars>>

SearchStep == /\ On("search") /\ Search!Next
              /\ UNCHANGED <<itemVars, noteVars, inboxVars, placesVars, teamVars>>

InboxStep == /\ On("inbox") /\ InboxPage!Next
             /\ UNCHANGED <<itemVars, noteVars, searchVars, placesVars, teamVars>>

PlacesStep == /\ On("places") /\ PlacesPage!Next
              /\ UNCHANGED <<itemVars, noteVars, searchVars, inboxVars, teamVars>>

TeamStep == /\ On("team") /\ TeamPage!Next
            /\ UNCHANGED <<itemVars, noteVars, searchVars, inboxVars, placesVars>>

Next == \/ GateOpens \/ GateRedirects
        \/ ItemStep \/ NoteStep \/ SearchStep \/ InboxStep \/ PlacesStep \/ TeamStep

Spec == Init /\ [][Next]_vars

(* Type correctness of the gate and of every page. *)
TypeOK == /\ appPage \in Routes /\ appGate \in {"checking", "in", "out"}
          /\ Item!TypeOK /\ NotePage!TypeOK /\ Search!TypeOK /\ InboxPage!TypeOK
          /\ PlacesPage!TypeOK /\ TeamPage!TypeOK

(* What each page promises; its module says how, and when it does not hold. *)

(* ItemDetailPage, TeamPage: at rest the screen is the server's copy of the item *)
(* in the URL, or of the team.                                                   *)
ScreenTrue == Item!ScreenTrue /\ TeamPage!TeamTrue

(* NotePage: save() leaves the form only for a note with all that was in it. *)
NoteSavedWhole == NotePage!NoteSavedWhole

(* NotePage: the folder of a note that is filed is one of its location. *)
NoteFolderFits == NotePage!NoteFolderFits

(* useDictation: every spoken word is passed on once, in order. *)
DictatedOnce == NotePage!DictatedOnce

(* SearchPage: only the last query's answer, or its error, is shown. *)
SearchSettled == Search!SearchSettled

(* InboxPage: at rest the list is what waits to be filed, and the rest is where *)
(* it was filed by tap.                                                         *)
InboxTrue == InboxPage!InboxTrue

(* LocationsService and the pages over it: the plan is kept, the form is there *)
(* until its limit, and what was added is listed once.                         *)
PlacesTrue == PlacesPage!PlacesTrue
=============================================================================
