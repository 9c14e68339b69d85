# OmniaNote, specified

TLA+ models of OmniaNote (a capture app for photos and notes: a NestJS API and a
React/Capacitor web client), the TLC runs that check them on small instances, and TLAPS
proofs of what matters most for every value of the constants.

```
tlc -config OutboxTwoTabs.cfg MCSyncQueue.tla     # a run of PROJECT.json
tlapm ItemsProofs.tla                             # the proofs of a module, up to a minute or two
```

Paths below are relative to the repository: *api* is `apps/api/src`, *mobile* is
`apps/mobile/src`, *shared* is `packages/shared/src`.

## 1. Inventory

| Component | State it keeps | Operations | Talks to |
|---|---|---|---|
| Offline outbox: mobile `lib/syncQueue.ts`, `lib/outboxDb.ts`, `components/OutboxRow.tsx` | IndexedDB store shared by all tabs; per tab `cachedEntries`, `processing`; a Web Lock | enqueue, drain pass (timer, online event, start-up, enqueue), retry, live view | items API, object storage, API client |
| API client and token store: mobile `lib/apiClient.ts`, `lib/tokenStore.ts`, `lib/auth.ts` | access and refresh token (two keys, shared by tabs); per tab `refreshInFlight` | apiFetch with one silent refresh, sign-in, sign-out | auth API; every other client module goes through it |
| Auth: api `auth/auth.service.ts` | `RefreshToken` rows, signed access tokens | register, login, refresh (rotation), logout | database, MFA |
| MFA: api `auth/mfa-*.service.ts` | challenge and OTP keys in Redis (TTL 5 min), secret and backup codes of the user | challenge, verify, TOTP and e-mail enrolment | Redis, database, mail |
| Team: api `team/team.service.ts` | `User.role`, `Invite` rows | invite or resend, revoke, preview, accept, remove, change role, rename | database, mail, auth |
| Items, storage, search: api `items/`, `storage/`, `search/` | `Item` rows, tags, attachments, byte count of the account; objects; search index | create, confirm upload, file, tags, stamps, favourite, attach, search, reindex at boot | database, S3, Meilisearch |
| Locations: api `locations/`, shared `tiers.ts` | locations, folders, spots | create against the plan's limits, list | database |
| Pages: mobile `App.tsx`, `pages/`, `lib/tier.ts`, `lib/dictation.ts` | state of one screen; the tier, cached per tab | the gate; optimistic edits, filing, search, saving a note with photos, dictation, adding places, enrolling MFA | API client, outbox, Web Speech API |
| Admin, activity and error logs, notifications, health, backup, deployment | single rows or none | reads, one write per request, shell loops | all services |

**How they interact.** A capture goes *page → outbox store → drain pass → `POST /items` →
PUT to object storage → `POST /items/:id/uploaded`*. Every request of the client goes
through `apiFetch`, which on a 401 joins or starts the tab's one refresh and sends the
request again. Tabs share IndexedDB, the token store and the Web Lock and nothing else.
The API handles requests concurrently; a handler is a sequence of awaited database
statements, with a transaction only where the code asks for one.

**What is hard.** Tabs that close between two awaits; passes, retries and timers of several
tabs on one store; answers lost after the server acted; check-then-write handlers that
overlap; two keys of one session written one after the other; and work the client must
finish eventually without spinning. There is no idempotency key on `POST /items`, no
unique constraint on live invites, and no row lock anywhere. The hazards are listed, at their
lines, in `PROJECT.json`.

**What makes each component correct.**

- *Outbox*: a capture is on the device until the server has all of it; it is not synced by
  two at once; retrying alone makes no duplicates; nothing deleted comes back; passes end,
  retries are served, everything is delivered in the end.
- *Sessions*: a refresh token gives one successor; rotation makes no sessions; the device
  does not end with a dead token; no call hangs.
- *Team*: always an owner; seats within the plan; one live invite per address; one joins
  only by a live invite.
- *Items, storage*: used bytes equal the confirmed bytes and stay within the plan; no item
  without its object. *Search*: results resolve to current rows; the index catches up.
- *Filing*: an item's folder and spot belong to its location. *Locations*: within limits.
- *MFA*: one session for one code; a user is not locked out by enrolling; backup codes
  are shown until the user has them.
- *Pages*: what a screen shows after its requests settle is what the server holds.

## 2. The modules

### `CaptureDelivery`, the promise

A capture is `captured`, `onDevice`, and perhaps `landed`; it leaves the device only after it
has landed, and does not return. No tabs, no requests: what the comment above `outboxDb`
tells a user.

### `SyncQueue`, the outbox

| Model | Code |
|---|---|
| `store` | the IndexedDB object store; an entry is its status, or `ABSENT` |
| `view[t]`, `refreshing` | `cachedEntries` of tab *t*, and a `refreshAndNotify` outstanding |
| `processing`, `held` | the flag of each tab, and the workers that hold the Web Lock |
| workers `<<t, "drain">>`, `<<t, r>>` with `pc`, `cur` | the one drain pass of a tab and its retries; every `await` of `drainQueue`, `syncOne` and `retry` ends a step |
| `rows`, `whole`, `strays` | the server: `Item` rows per capture, captures it holds completely, create requests nobody waits for |
| `broken` | history: attempts that left a row and were not recorded as SYNCED |

Entries are numbers, in the order `getAll` returns them. `CloseTab` may happen between
any two steps, `StoreError` rejects an IndexedDB request at each await, `AttemptBreaks`,
`AbandonCreate`, `ServerCreatePartly` and `ServerReject` break an attempt at each
request; `Unreachable` costs nothing and may happen for ever.

Abstractions: `refreshAndNotify` (a read and an assignment) is one step; the set
`attemptedThisPass` is emptied when a pass ends and not when the next begins, which nobody
can see; any waiting retry may get the lock next, where browsers are first-come; thumbnails are
left out, for their failure is swallowed; a create request of a closed tab may still arrive,
one at most per entry; a confirmation that arrives late is not modelled; what the server
user does with the item afterwards is out of scope.

### `Team`, members and invites

One step per database statement; `req[q]` is what a request has read so far. The first
statement of a handler is merged with its arrival, and `removeMember`'s two parallel reads are
one step: nothing written depends on their order. So are the two invite queries of
`inviteTeammate`, which differ only if another invitation or acceptance commits between them, and
`raced` notes that one anyway. Deleting a user ends the other requests
that name the row by its id, because they can only fail (`Naming`). `raced` records that
two requests that check and then write the same thing (owners, or seats) were in progress
together at some time. `Drop` ends a handler between any two statements.

### `Sessions`, tokens and the calls that need them

Access and refresh token are issued in pairs, numbered. `job` holds the refresh and the
sign-in or sign-out of each tab, `call` its `apiFetch` calls. `AuthService.refresh` is
three steps: look-up, revocation, issue. They do not need the client: when a tab reloads or
loses its connection while the server is at one of them (`GiveUp`), the handler goes on as a
job of its own (`Abandoned` names those of a tab) and answers nobody, and the tab may send the
same token again while it runs. `setTokens` and `clear` write their two keys in either order.
`AnswerLost` is a pair that was issued and not stored, or a `clear` cut short by a tab that
closes. `replays`, `lost` and `givenUp` are histories. Sign-in stands for register, login, MFA and
invite acceptance, which all end in `issueTokens`. Left out: passwords, the 30 days after
which a refresh token expires, a wrong password's 401, which `apiFetch` treats as one more
expired token, and a sign-out that is given up while the server runs it.

### `Items`, rows, files and search index

| Model | Code |
|---|---|
| `row`, `tags`, `attached` | the `Item`, `ItemTag` and `NoteAttachment` rows of one account |
| `file`, `used` | the object at an item's `storageKey`, and `Account.storageUsedBytes` |
| `index` | the document of each item, as far as a search can tell: the location it is filtered by |
| `req[q]` | a handler: its operation, the statement it awaits next, and what it has read |
| `File`, `WriteFiling`, `IndexItem`, ... | `ItemsService` statement by statement: the reads and checks with the arrival, each write, each index task |
| `DeleteTags`, `CommitTags` | `replaceItemTags`' transaction at the database's default isolation: it deletes what is committed when `deleteMany` runs, and its inserts meet the unique key |
| `CheckLimit`, `AddBytes`, `DeleteObject`, `DeleteRow`, `RemoveItem` | `confirmUpload`, both ways |
| `Fails`, `Boot` | a statement that throws or an index task that fails; a restart, with `onModuleInit`'s reindexing |

A location has one folder and one spot, which bear its name, so that a folder fits its
location when the names agree. What is wrong here by overlap is recorded by history
variables: `astray` (an index task failed, or two handlers of an item ran at once, since
the API last started), `overlapped` (two toggles, two tag transactions or two
confirmations through each other), `reconfirmed` (an upload confirmed again). `crossed` has the
items with a folder of another location: those `create` was given so, since it looks nothing up,
and those filed elsewhere without the folder key, until a filing names their folder. The bodies
of `create` are any (`NewItems`); those of the run are the inbox, and the two `NotePage` can
post by mistake (`NotePage.tsx:47-57`): an inbox note that keeps a folder, and a note with the
folder of the location shown before. Left out: other accounts, titles and bodies,
the values of the stamps, the order of lists, and reads that change nothing.

### `Mfa`, enrolment and sign-in with a second factor

| Model | Code |
|---|---|
| `secret`, `preferred`, `batch` | `User.mfaTotpSecret`, `mfaEnabled` with `mfaPreferred`, the backup codes of one enrolment |
| `enrolOtp`, `challenge`, `otp` | the Redis keys, which are there, spent or expired |
| `tab[t]` | the settings page of a tab: its `step`, what it shows, `submitting` |
| `req[q]` | a request, from the click to what the page does with the answer |
| `captured`, `mailed` | the secrets in the user's authenticator, the codes in the mailbox |

A TOTP code is named by its secret, an e-mailed code by its number; a wrong code is 0.
Requests and answers are lost, keys expire, a page may be left while it waits. Histories:
`met` (two submissions passed a check before either deleted the key), `restarted` (the
secret was replaced after it had been confirmed), `twice` (a tab began two enrolments at
once: the buttons of the choice are not disabled), `superseded` (another tab began one).
Left out: SMS, which no page enrols, the time window of a TOTP code, the password.

### `App` and its pages

`App` is one tab: a route, `AuthGate`, and the page behind it, which is one of the modules
below, INSTANCEd with `App`'s variables (the routes of the other pages are there and take no
step). A page keeps nothing when it is left and pages
share only the tier cache (followed by `Places`), so a behaviour visits one page.

| Module | Code | State and steps |
|---|---|---|
| `ItemPage` | `ItemDetailPage.tsx` | `itemShown`, the loads and the one request of each field; edits show at once and take back their field, `saveTags` writes back its copy; `/items/:itemId` keeps its component when the id changes |
| `NoteForm` | `NotePage.tsx` | pickers and their lists, photos, text, and `save()` request by request; the form stays editable meanwhile |
| `Dictation` | `lib/dictation.ts` | the engine's results (a prefix is final), `interimTextRef`, `onend`; extended by `NoteForm` |
| `SearchBox` | `SearchPage.tsx` | debounce timer, request numbers, results, error |
| `Inbox` | `InboxPage.tsx` | list, drafts, lists of folders, loads at each change of the outbox, filings that nothing keeps apart |
| `TeamScreen` | `TeamPage.tsx`, `lib/team.ts`, `team.service.ts` | the overview, read by three queries in any order (`OverviewRead`), and its reloads; the requests of a visit in the order of the taps; the rows of the others, who accept in two steps (`AcceptRead`, `Joins`: the role is the one read before the password was hashed); a rename is written into the overview, every other change reloads it |
| `Places` | `HomePage`, `LocationPage`, `FolderPage.tsx`, `lib/tier.ts`, `locations.service.ts` | the rows, the plan and its cached copy, the list, count-then-create of this page and of another device |

The server's half of these is a row that a request reads or writes in one step; that
handlers interleave inside is the subject of `Items`, and of `Places` itself; the changes of `TeamScreen` interleave inside in `Team`, while its
overviews and acceptances do so here. Requests and answers are lost, and answers come in any
order. Each page has histories that say when its promise is off: `itemUpset`, `noteLate` and
`noteShaky`, `dropped`, `inboxUpset`, `placesRaced`, `placesCrossed`, `placesStale`, `teamUpset`.
`TeamScreen` also has `torn`, in each overview: who joined between the reading of its two lists.
Simplified: locations, folders and spots are one kind;
walking from a folder to its subfolder keeps the component and is treated like opening
another page; spots are left out of the forms, being picked like folders; error texts and
the lists of tag names likewise.

## 3. The runs

| Run | Instance | Asks |
|---|---|---|
| `outbox_two_tabs` | 2 tabs, a photo and a note, 1 tap, 1 fault, 1 IndexedDB failure | the safety properties of the outbox, and that it implements `CaptureDelivery` |
| `outbox_liveness` | 2 tabs, 1 photo, 1 tap, 1 fault, 1 IndexedDB failure, fair | passes end, retries are served, captures are delivered |
| `outbox_no_locks_duplicates` | 1 tab without Web Locks, no fault but an unreachable server | **violated**: a retry beside a pass makes two items, neither failing |
| `outbox_live_view` | 1 tab, 1 fault | **violated**: a left-over entry stays on screen |
| `team_requests` | 4 people, 3 seats, 3 invites, 2 requests at a time, 4 in all | owners, seats, invites, joining |
| `team_last_owner` | 3 people, 2 seats, 2 requests at a time, 4 in all | **violated**: two owners remove each other |
| `session_rotation` | 2 tabs, 3 pairs, 1 sign-out, 1 fault (a refresh given up among them) | no stranded device, no additional sessions |
| `session_calls` | 1 tab, 2 calls, 3 pairs, 1 sign-out, 1 fault (a refresh given up among them), fair | calls settle, tokens are single-use in one tab unless a refresh with them was given up |
| `session_single_use` | 2 tabs, 3 pairs | **violated**: a token refreshed twice |
| `items_requests` | 2 items, 2 locations, 1 tag, sizes 1 and 2 against a limit of 1, 2 handlers at a time, 2 requests beside the creations, 1 fault or restart | rows, files, byte count, tags and index in step |
| `mfa_sign_in` | 2 tabs, 2 enrolments begun, 1 challenge, 2 codes submitted to it, 2 requests at a time, 1 fault | secrets, codes and backup codes |
| `app_screens` | one page of 6; 2 locations, an item and its attachment, 2 queries typed in 4 changes, 2 photos, 2 spoken words, 2 saves, plans of 1, 2 and unlimited; a team of 3 or 4 seats with 2 others, 2 changes | screens and forms against the server |

**Bounds and why they are enough.** The outbox's interference is between two holders of one
entry: two tabs, or a pass and a retry of one tab; the second entry is there for the loop of a
pass and for a photo beside a note, since only a photo has bytes. A fault and a store failure
together reach each error path and the recovery from it. `MaxRows` is never reached with locks.
In `Team`, four calls are what it takes to invite, to join and to have two more requests
overlap; four people fill three seats. With three token pairs two tabs can each rotate the
token of one sign-in. `MaxInvites`, `MaxCalls`, `MaxPairs`, `MaxTaps`, the sign-in and
sign-out bounds and the fault bounds exist only for TLC; one given-up refresh of a tab is
enough to meet the next with the same token. In `Items` every
history is about two handlers of one item, so two requests beside those that create
reach all of them; two items tell an item from its neighbour and make a note with an attachment;
a file of size 2 never fits, one of size 1 fits once. In `Mfa` two enrolments are what it takes
to replace a secret, to cross two answers or to use one e-mailed code twice. On the pages two
requests of a kind are under way at once at most, and the third load, save or row shows what
follows; a team overview is torn by one acceptance beside one change. Tabs and requests are interchangeable and symmetric in `Mfa`, requests in
`Items`. `MaxRequests`, `MaxItems`, `MaxBegins`, `MaxEnabled`, `MaxChallenges`, `MaxSubmits`,
`MaxLoads`, `MaxActs`, `MaxSaves`, `MaxNotes`, `MaxTyped`, `MaxReads`, `MaxFilings`, `MaxWords`,
`MaxPhotos` and `MaxRows` exist only for TLC. `Team`, `Sessions`, `Items`, `Mfa` and `App` stop when
their bounds are used up, so their runs do not look for deadlock; the outbox runs do.

**Fairness.** `SyncQueue!Fairness`: promises settle, the browser grants a free lock, an open
tab's 25 s timer keeps calling `processQueue`. The user and the faults owe nothing.
`EveryCaptureDelivered` states in its formula what else it needs (`Recovery`): someone opens
a tab, the network returns, and the create request is not unreachable every time.
`Sessions!Fairness`: requests are answered, promises settle. `Items`, `Mfa` and `App` state
no fairness and no liveness: a screen is judged when its requests have settled, whether they
do is the browser's business.

**Properties qualified by a history.** `OwnerUnlessRaced`, `SeatsUnlessRaced`,
`OneInviteUnlessRaced`, `RotationConserves`, `NeverStranded`, `SingleUseUnlessGivenUp` and
`DuplicatesOnlyFromFailure` say exactly when the code may fail its promise: overlapping
handlers of one kind, a token revoked since it was looked up, a lost answer, a refresh given
up, a broken attempt.
In the same way `StoragePaidFor`, `FilesKept`, `SearchTruth`, `TagsAsAsked`, `FavouriteParity`,
`NothingOutOfSight`, `SecretCaptured`, `QrCodeCurrent`, `OneUse`, `BackupCodesStay` and the
properties of the pages name, each in its comment, the overlap or the lost answer that may
break them, and say that nothing else does. Where a document or a comment promises the same
without the exception, the code does not keep it. Of the outbox, the owners and the tokens the
promise as it is written is a violation run (`OneItemPerCapture`, `LiveView`, `AlwaysAnOwner`,
`SingleUse`). Five more are visible only as the exception of a property, and false without it:

- `docs/ARCHITECTURE.md:48-51` has an over-limit upload refused "rather than silently letting an
  account exceed its plan". `confirmUpload` checks a count it has read before (`items.service.ts:79-80`)
  and increments it later: two confirmations that overlap both fit, and together do not. That is
  the exception of `WithinPlan` in `StoragePaidFor`.
- `search.service.ts:12-15` and `docs/ARCHITECTURE.md:69-72` say that a stale index entry "can never
  surface stale title/favorite/location data" and at worst hides an item. A search in a location
  filters by the location in the index (`search.service.ts:94`) and resolves what it finds by id
  alone: between the write of a filing and its index task, after an index task that failed, or
  when two filings index in the wrong order, it finds an item that has left that location.
  `SearchTruth` excepts these by `Handling` and `astray`.
- `dictation.ts:96-98` commits "whatever's left so nothing is lost". An interim result before the
  last event's `resultIndex` is no longer in `interimTextRef` and is not committed: `dropped` in
  `DictatedOnce`.
- `README.md:191` has tier limits "enforced server-side only, at write time", and
  `docs/ARCHITECTURE.md:142-144` counts members and live invites together "so the limit can't be
  gamed". Both counts are made before the row: requests that overlap exceed the seats (`raced` in
  `SeatsUnlessRaced`) and the locations, folders or spots (`placesRaced` in `PlacesTrue`).
- `docs/ARCHITECTURE.md:9` calls the token of an invite single-use. It can be used a second time
  when two acceptances overlap and the member who joined by the first is removed before the second
  commits: `JoinUsesUpAnInvite` allows it in that case only.

**Seen while modelling**, and part of the models, without a promise to hold against it: a
filing to another location keeps the folder of the old one when the key is left out, and the
item is then on no list; `create` does not check folder and spot against the location, and the
note page can post a folder of another one (its lists arrive late, `NotePage.tsx:54-57`), with
the same end, or an inbox note with a folder (`:47-51`), which the inbox does list; who accepts an invitation while the team page
reads its overview is in neither of its lists, or in both, until the next reload; an invitation
resent with another role while it is being accepted makes a member with the old one; a
confirmation repeated counts the bytes again; nothing accepts a backup code, though the
settings page says "Each one lets you sign in once" (`SettingsPage.tsx:179`; a run cannot
refute it, for there is no handler to run); emptying the search field does not take back the
request before, whose results then appear under it; the tier is asked for once per tab, and a
failed request is never repeated; no page calls `auth.logout` (so a refresh that outlives a sign-out,
`auth.ts:34`, is in `Sessions` and not among the hazards) or `toggleFavorite`, though
`HomePage.tsx:141` tells of a long press.

**Findings** (quoted in `PROJECT.json`): a retry without Web Locks duplicates a capture; a
left-over entry stays in the live view; an account can be left without an owner; a refresh
token is not single-use across tabs, nor after a refresh that was given up.

## 4. The proofs

Every invariant and action property of the passing runs is also a theorem, for any sets of tabs,
people, requests, items and queries and for any bounds. The constants are as the `ASSUME`s beside
them say (bounds are naturals, markers like `None` are not values); what a theorem assumes beyond
that is in the table. A property qualified by a history is proved with that qualification.

| Module | Theorem | Assumes | States |
|---|---|---|---|
| `SyncQueueProofs` | `TypeCorrect` | | types, and everything held anywhere was captured |
| | `CapturesSurvive` | | `[]NoCaptureLost` |
| | `SyncedIsWhole` | | `[]SyncedMeansWhole` |
| | `SyncIsExclusive` | `HasLocks` | `[]NoDoubleSync` |
| | `NothingReturns` | `HasLocks` | `GoneStaysGone` |
| | `DuplicatesHaveACause` | `HasLocks` | `[]DuplicatesOnlyFromFailure` |
| | `OutboxDelivers` | `HasLocks` | `ImplementsDelivery` |
| `TeamProofs` | `TeamTypeCorrect` | | `[]TypeOK` |
| | `AnOwnerRemains` | | `[]OwnerUnlessRaced` |
| | `SeatsWithinPlan`, `OneLiveInvite` | | `[]SeatsUnlessRaced`, `[]OneInviteUnlessRaced` |
| | `JoiningUsesAnInvite` | | `JoinUsesUpAnInvite` |
| `SessionsProofs` | `SessionTypeCorrect` | | `[]TypeOK` |
| | `DeviceNotStranded` | | `[]NeverStranded` |
| | `SessionsConserved` | | `[]RotationConserves` |
| | `OneTabSingleUse` | one tab | `[]SingleUseUnlessGivenUp` |
| | `SingleUseUnlessReplayed` | | `[](replays = 0 => SingleUse)` |
| `ItemsProofs` | `ItemsTypeCorrect` | | `[]TypeOK` |
| | `EveryItemInSight` | | `[]NothingOutOfSight` |
| | `SearchAgrees` | | `[]SearchTruth` |
| | `FilesAndRows` | | `[]FilesKept` |
| | `StorageIsPaidFor` | | `[]StoragePaidFor` |
| | `TagsOfTheLast`, `ToggledTwiceIsBack` | | `[]TagsAsAsked`, `[]FavouriteParity` |
| `MfaProofs` | `MfaTypeCorrect` | | `[]TypeOK` |
| | `EnrolledSecretCaptured` | | `[]SecretCaptured` |
| | `CodesStayOnScreen` | | `BackupCodesStay` |
| | `QrCodeIsCurrent` | | `[]QrCodeCurrent` |
| | `CodesUsedOnce` | | `[]OneUse` |
| `AppProofs` | `SearchShowsTheLast` | | `[]SearchSettled` |
| | `EveryWordOnce` | | `[]DictatedOnce` |
| | `SaveIsWhole`, `FolderIsOfThePlace` | | `[]NoteSavedWhole`, `[]NoteFolderFits` |
| `AppListsProofs` | `PlansAreKept` | | `[]PlacesTrue` |
| | `InboxListsWhatWaits` | | `[]InboxTrue` |
| `AppServerProofs` | `ScreensAreTrue` | | `[]ScreenTrue` |
| | `AppTypeCorrect` | | `[]TypeOK` |

`HasLocks`: the browser has the Web Locks API. One tab: `Tabs` has one element at most.

None of the properties is inductive. Each module begins with its types (`TypeInv`; one for each
page) and, for the handlers, which statements an operation goes through and that what it holds
was really found or issued. The strengthening of each property:

- *Outbox.* `WholeInv` adds that a worker past the confirmation carries an entry the server has
  whole (`Assured`), and so does what the store or a screen calls SYNCED: it needs no lock,
  because a worker writes SYNCED only after its own attempt and SYNCED is the only status that is
  deleted. `LockInv` says that a worker past the lock is its only holder; `InHand` ties the
  worker's place to the status in the store, which gives exclusion and `NothingReturns`: whoever
  writes an entry read it under the same lock. `CopyInv` counts rows: an entry has at most its
  broken attempts and the one that has landed or is under way. The refinement maps a put of
  `enqueue` to `Capture`, the server's last step of an attempt to `Land`, a delete to `Release`,
  and all else to stuttering. Without Web Locks `NoDoubleSync`, `DuplicatesOnlyFromFailure` and
  `GoneStaysGone` are false: that is the first violation run. `NoCaptureLost` still holds.
- *Team.* `OwnerInv`: until two of them overlap, one removal or role change is in progress, and
  after its count what it is about to write leaves an owner. `SeatInv`: the same for invitations
  and acceptances, with what the one in progress has read still true of the seats and of its
  address (`SeatKept`, `OwnInvite`). `Found`: a member's row that a handler has found is there
  when it writes, for a deletion ends the others.
- *Sessions.* `StillOurs`: a token on its way to the store is live, and nobody else holds it.
  `ToBeReplaced`: a revoked token in the store is carried by a job that is about to overwrite it.
  `ConservesInv` counts live tokens and rotations under way together, so that a step moves a token
  between the two. `FirstUseInv`: a token that is being rotated has no successor, because only
  revoked tokens have one (`Consumed`). `OneTabInv` says so of the tokens no refresh was given up
  with: whatever a handler left behind carries is one of the others (`LeftBehind`), so the tab's
  own refresh is alone with its token.
- *Items.* `SightInv`: an item that is not in `crossed` has no folder of another location,
  by whichever of `create` and the filings put it there. Every other argument is about the handlers of one item, of which there is one unless the
  history says otherwise: it holds the location it will index (`FoundAt`), it has deleted every
  tag that is there (`TaggedAlone`), what it read as favourite is still so (`ParityAt`), its file
  is there until it adds the bytes and the row is unpaid until then (`ConfirmedOnce`). `FilesInv`
  orders the refusal: the object goes before the row. `PlanInv`: what one confirmation checked
  against the limit still fits when it is added.
- *The sum of the bytes.* `PaidInv` holds the counter against `Total`, the number of units
  `<<item, k>>` with `k` up to the item's bytes: cardinalities of finite sets can be taken apart
  with the library's theorems, a sum over a set cannot. That `MapThenSumSet` gives this number
  (`SumCounts`) would be an induction over sets; it is shown by a smallest counterexample instead:
  `FS_StrictSubsetOrderingWellFounded` gives a smallest subset with another sum, and without its
  chosen element it would be one again.
- *MFA.* `CapturedInv`: only a captured secret is confirmed, and between the check and the write
  it stays. `PagesInv`: a tab that did not begin two enrolments at once waits for one answer, and
  at the step that asked for it; hence the codes stay, and `QrInv`. `UseInv`: one submission at
  most is past the first check of a key, and it deletes the key before it makes use of it.
- *Pages.* `SearchInv`: the query in the field waits for its timer or is the last request's.
  `DictationInv`: what was passed on is words 1 to `final`, with lemmas on joining stretches of
  words. `SaveInv`: the row has the photos before the one `save()` is at, of the form it was
  called with. `FolderInv`: the only lists under way are those of the location picked.
  `PlacesInv`: one request between its count and its row, and room for it; the list has the rows
  read and those it was told of. `InboxInv`: no load beside a filing, so the last load holds what
  waits, and the last filing of an item is where it is. `ItemInv`: a field shows what the server
  has, or what its own save will have made of it, and a failed save's copy is still what the
  server has. `TeamInv`: the overview begun last has, as far as it is read, the team, but for those
  who joined since or between its queries, and is shown or under way unless a change has yet to ask
  for one; an overview without the new name knows by which rename it was overtaken.

A page's lemmas are about its own variables (`SearchOnly`, `NoteOnly` and so on reduce a step of
`App` to a step of the page, or none), and an INSTANCE's definitions are cited as `Item!...`.

**Only model-checked.** Liveness, for the prover knows neither fairness nor ENABLED:
`PassesTerminate`, `RetriesAreServed`, `EveryCaptureDelivered` and `CallsSettle`. And the four
violations, which are counterexamples and need no proof. The proofs are about the models; that a
model is the code's is what the map in `PROJECT.json` is for.

## 5. What is left: the plan

The modules are complete as far as the code allows, and no safety property of a run is without its
theorem. Worth adding:

1. `SyncQueueProofs` without `HasLocks`: what remains of the copy count when the browser has no
   Web Locks.
2. `ItemsProofs`: a second reading of `SearchTruth` across `Boot`, that a reindexing with a
   reachable index repairs every item nobody is at work on.
3. `SessionsProofs`: what a sign-out leaves behind in the other tabs.

### Not modelled

- *Admin panel*: counts and lists for one screen, no state but a token.
- *Activity and error logging, notifications, health, configuration*: single writes or mails
  that nothing reads back into the program. *Crypto, JWT, hashing*: libraries behind one call.
- *Capture, spot, registration and invite pages*: a list, or a form with one request at a
  time; the outbox, `Team`, `Places` and `Sessions` model what the request does. *Thumbnails,
  annotation, tiles, rendering*: pixels and layout.
- *Deployment scripts and the backup loop*: shell around `pg_dump` and `mc`.
- Of the modelled parts: register and a login without MFA are one step of `Sessions`; the
  30 days of a refresh token; promoting a second owner on the team page (`Team` has owners); nested folders and the ownership checks, which are
  one look-up in front of a handler; what Meilisearch matches and how it ranks.
