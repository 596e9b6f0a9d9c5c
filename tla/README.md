# A TLA+ model of spond-webcal

spond-webcal is one Go process: an Echo web server that signs users in with their
Spond credentials, shows and exports their Spond events, serves a CalDAV store
under `/caldav`, and runs a background worker that copies every user's events
from Spond into a database. This directory models the parts of it that keep
state. TLC checks the models on small instances; for instances of every size TLAPS
proves the safety properties and refinements that these runs check.

## The system

| Part | State | Operations | Talks to |
|---|---|---|---|
| CalDAV handler, `internal/caldav` | a cached WebDAV handler with an in-memory tree per user; per request what it has read | `getUserHandler`, `ServeHTTP` and its stages | the WebDAV library, the CalDAV store |
| CalDAV store, `internal/db/db.go` | rows (user, path, content), indexed without uniqueness | List, Get, Put, Delete | database |
| User tokens, `internal/db/user_tokens.go` | a row per Spond profile: access and refresh token, two expirations | Upsert, Promote, readers | database; called by sign-in, the refresh API, the worker |
| Event cache, `internal/db/spond_cache_store.go` | rows (user, event, payload, time of sync), no index | UpsertUserEvents, LastSynced | called by the worker and by "sync now" |
| Sync worker, `internal/syncworker` | a goroutine; the users it read when its run began | runLoop, RunOnce, syncUser | user tokens, Spond, event cache |
| Access tokens, `internal/db/access_tokens.go` | rows (id, user, token, expiration, scope), token unique | Create, ByToken, List, three Deletes | called by the profile page and the calendar export |
| Web server, `internal/web/server.go` | none of its own | handlers for pages, exports, sign-in, tokens, sync | all of the above, Spond |
| Session cookie, `internal/web/auth_session.go` | a signed cookie with the client: user id, profile, actor ids | read, write, clear | every handler |
| Spond client, `internal/spond/client.go` | the token of one request | Login, FetchProfile, FetchGroups, FetchEvents, FetchEventsForGroups | Spond |
| Views and scopes, `events_view.go`, `access_scope.go`, `ical_export.go` | none; a token's scope is kept as JSON with the token | build, filter, normalise | called by pages and exports |
| Path routing, configuration | none | functions | - |
| Memory twins of the stores | mutex-protected maps | as above | tests, development |

Requests run concurrently, each in a goroutine of its own, and beside the
worker. No operation uses a database transaction, and the only lock of the
program, `persistingHandler.mu`, covers the cache of user handlers. What is hard:

* the CalDAV handler keeps two copies of a resource, tree and row, and changes
  one after the other, under no lock that spans both; errors of the second
  change are dropped; a crash keeps the rows only;
* If-Match is tested against the row long before that row is written;
* every update in the database is a lookup, a change in memory and a save of
  the whole row, so that updates undo each other;
* the worker works through a list of tokens as old as its run, beside requests
  that sync the same user;
* tokens expire between their choice and their use;
* a web page shows a list that is acted upon later;
* the ids under which a user answers events are found once, at sign-in, and kept in
  the session and in every token's scope, while groups change;
* an export asks Spond group after group, and what Spond answers does not always
  name the group;
* responses that set and clear the session arrive in any order.

## Modules

| Module | Models | Notes |
|---|---|---|
| `MemFS` | `webdav.NewMemFS` as `internal/caldav` uses it | external; trees as functions from paths |
| `CalDAVHandler` | `internal/caldav` and the store of `internal/db/db.go` | the core; mutants, safety and the inductive invariant |
| `CalDAVRepair` | `CalDAVHandler` with history: which writes have their key to themselves | what mends a disturbed key |
| `ResourceMap` | the promise: a durable map, atomic conditional requests | abstract specification |
| `CalDAVRefinement` | the mapping from `CalDAVHandler` to `ResourceMap` | `ImplementsMap` |
| `CalDAVClaims` | what README and tests claim without the exceptions | three claims the code breaks |
| `Clock` | users and time, shared by the modules below | |
| `UserTokens` | user tokens, sign-in, promotion, the choice of a token | |
| `EventCache` | the cache and the course of one sync | |
| `MemoryUserTokens` | the token store in memory, `user_store.go` | abstract specification that `UserTokens` is compared with |
| `EventsWorker` | composes `UserTokens` and `EventCache` with the worker and "sync now" | fairness and liveness |
| `Sessions` | composes `UserTokens` with a browser: its cookie, the pages that call Spond | |
| `AccessTokens` | access tokens, profile page, revocation, export | |
| `MemoryAccessTokens` | the access token store in memory, `access_token_store.go` | abstract specification of `AccessTokens` |
| `EventViews` | views, filters, scopes and the merge of answers, as operators | no state |
| `SharedCalendar` | sign-in, creation of a token, pages and exports over `EventViews`, with a Spond that changes | |
| `MC...` | instances for TLC | |
| `MemFS_proofs`, `CalDAVHandler_proofs`, `CalDAVMirror_proofs` | lemmas and theorems about the CalDAV handler | TLAPS |
| `UserTokens_proofs`, `Sessions_proofs` | ... about the token store, and with the browser above it | TLAPS |
| `EventsWorker_proofs` | ... about the event cache, and with the worker above it | TLAPS |
| `AccessTokens_proofs`, `SharedCalendar_proofs` | ... about access tokens, pages and exports | TLAPS |

Definitions whose comment starts with "Mutant:" are broken variants of the
definition that follows them; no specification uses them. They record what each
property is sensitive to.

### CalDAVHandler

A request goes through the stages of `ServeHTTP`, one action each, between which
any other request may run:

| Stage | Code | Actions |
|---|---|---|
| idle | `buildRequestContext`, `getUserHandler` | `Accept`, `AcceptFails` |
| load | `loadCurrentResource`, `passesIfMatchPrecondition`, reading the body | `Load`, `PreconditionFailed`, `LoadFails` |
| serve, write | the WebDAV handler on the tree, through the statusRecorder | `ServeLocked`, `ServeGet`, `Put...`, `ServeDelete`, `DeleteRefused`, `ServeMkcol`, `ServeMove`, `ServeCopy` |
| find, create, save | `PutResource` | `PersistFind`, `PersistCreate`, `PersistSave`, `PersistFails` |
| delete | `DeleteResource` | `PersistDelete`, `PersistFails` |
| return | the handler returns | `Return` |

A PUT takes two steps on the tree, opening (which truncates) and writing, and
holds the WebDAV lock of its path in between: requests that need that lock are
answered 423 (`ServeLocked`). A MOVE or DELETE of a collection above takes no lock
below, so an open file may move or vanish; `node` follows it. MOVE's `Destination`
header is not rewritten like the request's path: it names a path of the same
user's tree, and that is how it is modelled. `Crash` keeps the rows only; `Restart`
hydrates the default user, or else the process stays down, as `main` exits.
`disturbed` is a history variable: the keys where the code makes no promise,
because two writers crossed, a tree operation bypassed the rows, or a store call
failed. A crash heals a key if its user's rows fit a tree and it has one row at
most. It disturbs the key of a DELETE that it cuts off before the row was gone,
if the user's rows do not fit a tree: the tree had lost the path already, and a
MKCOL of it with a PUT below it may have been done meanwhile, so that the row
that stays lies above another. A run with three requests does not get that far;
`LoadableWhenUndisturbed` therefore excepts users with a DELETE between tree and store.

Abstractions: the tag of a content is the content (SHA-256 taken as
injective); a request comes with its user key and resource path, as
`normalizeResourcePath` has made them; contents other than the empty one have the same length, so that a
write through an open handle replaces all of it; primary keys are not reused
(gorm declares them AUTOINCREMENT in SQLite, sequences in PostgreSQL); COPY is
one step and its destination is neither above nor below its source; a store call
fails without having taken effect. Not modelled: `normalizeResourcePath` itself, LOCK, UNLOCK, PROPFIND, PROPPATCH,
conditional GET, requests to the root of a user's tree.

`Mirror` and the properties beside it say nothing of disturbed keys but that they are
the only ones where tree and rows differ. `CalDAVRepair` says how that ends. It
conjoins every action with an update of two history variables, which restrict
nothing: `lone`, the requests between tree and rows that no other write of their key and
no change of their file has met, and `settled`, what the last such request left at a key
where nothing was written since. `LoneWriteMends`: there the row that `GetResource` finds
and the file that the tree serves have the content of that PUT, or are both gone after a
DELETE, whatever crossed writers, rows brought back by a Save and dropped errors left at
the key before, several rows among it. A crash keeps this where the key has one row at
most; of several rows hydration may take any.

### UserTokens, EventCache, EventsWorker

`UserTokens` splits each handler at its store calls. A profile has one row, kept by
a unique index, so that the profile stands for the user id. `ChooseToken` is
`chooseTokenForSync`; `chooseTokenForImmediateSync` is the same text and hence
the same operator. `EventCache` has the course of a sync, shared by the worker and
the button: ask Spond for at most `SyncMax` events, take the time, then for each event
look up and create or save. Of more events than that Spond answers some, and nobody
can tell: rows of the others stay as they are. `EventsWorker` adds who syncs: the worker with the list it read at the
start of its run, and requests that sync once. Spond accepts a token until it
expires, also when the user has signed in again since. The worker's calls end
by `Timeout`, by default 20 seconds, where `Skew` is 30;
the assumption `Timeout < Skew` is the one the default configuration satisfies and
`internal/config` does not enforce.

`Unreliable` names the users whose calls to Spond or to the store may fail. A
crash of the process is, for this part of the state, such a failure of all
requests in progress, and is not modelled beside it.

### AccessTokens

The rows, the tabs with a profile page (clean up, list, click), and the exports
(look up, check the time, delete or serve). A tab's session may change to another
user while the page stays open. Tokens are random: each creation makes a token
of its own. The scope of a token is in `SharedCalendar`.

### Stores in memory as specifications

A server without a database has twins of the stores: maps behind a mutex, each
operation one step. `MemoryUserTokens` and `MemoryAccessTokens` are these twins.

For access tokens `ImplementsMemoryStore` says that the database store shows no behaviour
the twin does not have; each of its operations is one statement, so that the two places
in which expiry is decided are what it is about.

For user tokens that would be false, and is not claimed. The rows of the database are
compared with the twin's as they are. `MemoryStoreUnlessCrossed` says that every
change of a row is a step of the twin, although it is a lookup and a write with anything
between, or else `PromotesOtherRow`: a promotion that was under way when its user last
signed in saves what it made of an earlier sign-in's tokens and so takes the last one back.
With no such crossing (`[](crossed = {})`) the rows behave as the twin's, which is the theorem
`UncrossedIsMemoryStore`. The database also lets one of two first sign-ins fail where the
twin would let both succeed, which is a step less.

The twin of the event cache (`sync_store.go`) keeps the time of the last sync
alone, also of a sync without events or with an error half-way, so that it specifies nothing of
the cache.

### Sessions

One browser. A request carries the cookie of when it is sent; a response that sets
or clears the cookie is in `reply` until it arrives, in any order. A page goes through
`OpenPage` (`readSession`), `SpondClientForSession` (`TokenByUserID`), and `ShowPage` or
`PageFails`; every page that fails to get groups or events clears the session. The
other handlers with a session are `Reveal` (the tokens of the profile page), `Promote`
and `Logout`. Spond accepts a token until it expires. The signature is not
modelled: a cookie is one that the server made; nor is the cookie's own age.
A page that failed for an old session clears a new one if its response arrives late
(`Receive` in that order): nothing promises otherwise, and no property speaks of it.

### EventViews and SharedCalendar

`EventViews` has the functions between Spond's answers and what is shown.
`SharedCalendar` calls them the way the handlers do, one step per call to Spond, between
which events, answers and memberships change (`SpondChanges`) and time passes.
What is shown is compared with `Meant`, a definition of what the user asked for in terms
of what Spond knows, which shares no operator with the code's: which group an event
belongs to, what the user's own entries answered, and whether it has begun.
An event's payload may name its group, only a sub-group, or neither; an answer may
be cut off at the limit. A sign-in whose groups fail to load leaves the session, and the
scope of tokens made from it, without the user's member ids.

The properties tell how far this goes. With all ids, a quiet Spond and no
cut answer, pages and exports show what is meant, no more and no less (`ShownAsMeant`).
However Spond changes during a request, an export shows nothing that was not at some
moment of that request within the scope (`NothingBeyondScope`); `allowed` collects
these moments. With ids missing, events are hidden or taken for "other"
(`MissingIdsOnlyHide`): a token whose rules include "other" then exports events that the
user has accepted or declined. Apart from what changes during the request, this is the
one way in which an export shows more than was meant.

Requests for pages and exports share no data, so that one at a time, again and
again, stands for many. Sorting, labels, names and text are left out.

## What the runs check

All runs set `CHECK_DEADLOCK FALSE`: requests are finitely many, and the process
may stay down for good or have nothing left to do.

| Run | Checks | Shows |
|---|---|---|
| `CalDAVRace` | `TypeOK`, `Mirror`, `StoredWasAccepted` | three requests of any method but GET on one path, two users, failing calls, a crash |
| `CalDAVTree` | `Inv`, `LoadableWhenUndisturbed`, `LoneWriteMends` | PUT, DELETE, MKCOL and MOVE on nested paths, two at a time, failing calls, a crash; with the history of `CalDAVRepair` |
| `CalDAVRefines` | `ImplementsMap` | with one request at a time per key and no failing calls the handler is a durable map with atomic If-Match |
| `Sessions` | `TokensOfOneSignIn`, `LatestSignInKept`, `SessionHasToken`, `PageTokenIsOwn`, `RefusedOnlyIfExpired`, `MemoryStoreUnlessCrossed` | two sign-ins, two promotions and a page in one browser, two profiles |
| `EventCache` | `RowFromOneAnswer`, `CacheMirrorsLastSync`, `OneRowPerEvent` | overlapping and failing syncs of one user, two events |
| `EventsWorker` | `TypeOK`, `TokenOutlivesCall`, `ChoiceIsSound` | worker, request, sign-in, promotion and time |
| `EventsWorkerLive` | `CacheCatchesUp` | another user's tokens are unusable and its calls fail for ever; a second event exceeds the limit of an answer |
| `AccessTokens` | `TypeOK`, `LateIsNotServed`, `OnlyMeantRowsGo`, `ImplementsMemoryStore` | two tabs, old lists, changing sessions, an export |
| `SharedCalendar` | `TypeOK`, `NothingBeyondScope`, `ShownAsMeant`, `MissingIdsOnlyHide` | pages and exports of two groups while one thing at Spond changes, answers are cut and a sign-in goes without groups |

Three runs find a claim of the repository broken:

| Run | Claim | What happens |
|---|---|---|
| `CalDAVLostUpdate` | `NoLostUpdate` (README "ETag + If-Match conflict semantics", `TestPutWithIfMatchRejectsStaleTag`) | two overlapping PUTs with the same tag both succeed |
| `CalDAVMoved` | `ServedIsStored` (README "Persistence-backed resource store") | a MOVE changes the tree and no row |
| `CalDAVUnloadable` | `StoreLoadable` (`TestNewHandlerPreloadsPersistedResources`) | MKCOL d, PUT d/x, DELETE d, PUT d: no handler can be made from the rows, nor the server started |

A store call that fails after the client had its success is no run of its own: `Mirror`
excepts the keys where one failed, and `CalDAVRace` without that exception is violated by
a single PUT.

### Bounds

Three requests on one key are enough for every order of two lookups and writes
with a third writer between, and for two that cross and leave two rows, or a row that came
back, before a third mends them; `MaxInFlight` and `MaxPerKey` bound what runs at a time
and are 3 in `CalDAVRace`, 2 in `CalDAVTree`. The three paths of `CalDAVTree`, one below
another, give a MOVE a source and a destination on the same level and across levels;
three requests make, fill and remove a collection, or cross, move and mend. A COPY is
only ever refused in the runs, since it has no other path to go to in `CalDAVRace`, and
no collection moves with what is in it. Both were checked with four paths, two
in each of two collections, without faults and crash (1.2 million states); `LoneWriteMends` also
with three requests at once on one path of two users (0.2 million). To make
the collection again while its DELETE is still on the way, and to fill it, takes a
fourth request: with four, and a crash that may cut the DELETE off, a restriction
to PUT, DELETE and MKCOL on a path and one below it has been checked as well (half
a million states). All these cases are settled for any number of requests and paths by
the theorems `InvHolds`, `UndisturbedIsLoadable` and `LoneWritesMend`.
One crash suffices for what a restart sees, as it leaves rows only. Two contents, one of them empty, tell
truncated from written. Two syncs with two events have every overlap of lookups
and writes; `Published` are the events there are at first, and one is published, edited or
withdrawn `MaxEdits` times; the clock stops at
`MaxTime`, late enough for tokens to expire during and between calls. In the
liveness run the clock stands still at 0: the worker's calls are then in
time, which is the assumption that Spond and the store answer a reliable user's calls;
a token of lifetime 1 is then within the skew of its expiry from the start. The worker
is alone there: a request beside it, which writes a bounded number of rows, is in
`EventCache` and `EventsWorker`. `SyncMax` is 1 in the place of 200 there, and one
more event may be published, so that answers are cut; `EventCache` and `EventsWorker` stay
within the limit, and the theorems about them hold for any.
Two promotions and two sign-ins have every order of lookups and saves that a page, which
reads once, can fall into. In `SharedCalendar` two events are enough for one that is
cut off and one that is shown, with limits of 1 for pages and 2 for exports in
the place of 100 and 200; the eight states of an event pair both groups with each way of
naming them, past and to come, and answers by two entries of the user and one
of somebody else; one change of Spond may fall between any two calls, or before and
after the requests. Two groups make an export ask twice.
How many rows a cache can have is bounded by the number of syncers for an event,
since a lookup that finds a row creates none.

### Fairness

`FairSpec` of `EventsWorker` assumes weak fairness of the worker's steps taken
together. The worker is one goroutine; each of its calls ends with an answer, an
error or the timeout, and the ticker fires again. That the list of users cannot be read
is a step that changes nothing and is not assumed to happen for ever. Requests have
no fairness: a sync-now request may stop between any two steps. Nothing else in the
program has to happen eventually.

## What is proved

All theorems hold for every value of the constants that the named assumptions admit,
and rest on these alone. TLC evaluates each assumption on the runs' instances:

| Assumption | Says |
|---|---|
| `ContentsAssumption`, `PathsAssumption` | the marks `Dir` and `Absent` are no contents; paths are non-empty and closed under prefixes |
| `HandlerAssumption` | the default user is a user, methods and headers are those of the model, bounds are numbers |
| `ProfilesAssumption`, `TimeAssumption`, `TokensAssumption`, `CacheAssumption`, `AccessAssumption`, `PagesAssumption`, `SharedAssumption` | sets of requests do not overlap, bounds and limits are numbers, events published at first are events, `Nothing` is nothing else, `Never` and `NoDate` are no times |
| `RowAssumption` | the absence of a row is not a row, the empty token is no token (`Login` refuses it) |
| `WorkerAssumption` | among others `Timeout < Skew`, which the default configuration satisfies |
| `DataAssumption` | finitely many events; profile, address, groups and the ids at sub-groups are of one kind each and not empty (sign-in needs an address); answers, requests and queries are shaped as the handlers decode them |

### Trees, rows and the map

| Theorem | Property | In |
|---|---|---|
| `TypeCorrect`, `OnlyAcceptedIsStored` | `TypeOK`, `StoredWasAccepted` | `CalDAVHandler_proofs` |
| `InvHolds`, `RowsMirrorTrees`, `UndisturbedIsLoadable`, `HandlerImplementsMap`, `LoneWritesMend` | `Inv`, `Mirror`, `LoadableWhenUndisturbed`, `ImplementsMap`, `LoneWriteMends` | `CalDAVMirror_proofs` |

`Mirror` speaks of quiet moments only and is not inductive. The invariant `Inv`
behind it has three parts. `Base`: types, trees, unique primary keys, and for each
request what it must know at its stage (`RequestOK`), in particular that an open file is
a file, and that one which is no longer at its request's path is at a disturbed
key. `HoldingOK`: a row held for a Save belongs to the request's key, even after
others deleted it, and no primary key is held for two keys. `KeyOK`, for every
undisturbed key: at most one row, at most one request between tree and rows,
and what that request still has to do is exactly the difference between the two
(`LagOK`). `Base` is inductive by itself (`CalDAVHandler_proofs`, one lemma per
action); `HoldingOK` with `KeyOK` is inductive given `Base` (`CalDAVMirror_proofs`).
`MemFS_proofs` has the facts about trees: what removing, renaming, copying and making
preserves.

`StoredWasAccepted` needs to know of the requests that will write a row that they are
PUTs and have been answered with success (`PutAccepted`).
`LoadableWhenUndisturbed` follows for a cached user from `Inv`: the tree has files at two
undisturbed stored paths, so that none lies above the other (`CachedFits`). For a
user whose handler is gone it is `Unfit`: where two rows do not fit, one of them was
disturbed, which a crash preserves and no request can change, as rows are written
for users with a handler only.

`HandlerImplementsMap` has the hypothesis `FilesOneByOne`: GET, PUT and DELETE of
files in the root collection, one request in progress at a time for each key, and a store
that does not fail, with any number of users, paths and crashes. The run
`CalDAVLostUpdate` shows why one request at a time, `CalDAVMoved` why no other methods.
`MapInv` says on top of `Inv` that no key is disturbed at all, that nothing in a tree is a
collection, and what a request carries from its lookup to its end: what it saw is what is
stored, its If-Match still holds, and its answer is settled (`CarriesOn`). A failed
If-Match is performed on the map at the lookup, a GET and a DELETE of nothing at the
tree, a PUT or DELETE when its row is written or gone; a crash loses the answers of all
requests in progress; every other step is a stutter.

`LoneWritesMend` rests on `MendInv`, inductive on top of `Inv`: a lone request has its file
open under its own name, has in the tree what it will leave in the rows, and holds the row
with the least primary key, which is the one that `First` finds after the Save, whatever other
rows there are (`LoneOK`); at a settled key nobody is between tree and rows, and a user
without a handler has one row at most there, so that hydration has no choice (`SettledOK`).

### Tokens, sessions, worker and cache

| Theorem | Property | In |
|---|---|---|
| `OneSignInPerRow`, `LatestSignInIsKept`, `ChoiceIsAlwaysSound`, `StepsOfTheMemoryStore` | `TokensOfOneSignIn`, `LatestSignInKept`, `ChoiceIsSound`, `MemoryStoreUnlessCrossed` of the store alone |
| `UncrossedIsMemoryStore` | without crossings the rows satisfy `MemoryUserTokens` | `UserTokens_proofs` |
| `SessionsKeepOneSignIn`, `SessionsKeepLatestSignIn`, `SessionsStepsOfTheMemoryStore`, `UncrossedSessionsOnMemoryStore` | the same, with the browser | `Sessions_proofs` |
| `SessionsHaveTokens`, `PageTokensAreOwn`, `OnlyExpiredAreRefused` | `SessionHasToken`, `PageTokenIsOwn`, `RefusedOnlyIfExpired` | `Sessions_proofs` |
| `RowsFromOneAnswer`, `LastSyncIsMirrored`, `RowsAreUnique` | `RowFromOneAnswer`, `CacheMirrorsLastSync`, `OneRowPerEvent` of the cache alone | `EventsWorker_proofs` |
| `WorkerKeepsRows`, `WorkerMirrorsLastSync` | the same, with the worker | `EventsWorker_proofs` |
| `WorkerTypes`, `TokensOutliveCalls`, `WorkerChoosesSoundly` | `TypeOK`, `TokenOutlivesCall`, `ChoiceIsSound` | `EventsWorker_proofs` |

`TokensInv` adds to the properties what sign-ins and promotions hold between lookup and
save: a promotion about to save holds the promoted row of a completed sign-in of the same
profile, of the last one unless that profile is `crossed`. `Sessions_proofs` cites its lemmas, one
per action, and adds that whoever is in a cookie, in a response or on a page has a row,
and that a page's token and the expiry read with it come from one sign-in of its user.
`CacheInv` rests on `FoundStays`: the row that a lookup finds for an event is the one it
finds ever after, as rows are only appended and none is deleted; so a sync that is alone
with its user has behind it the events it wrote and before it those it has still to write.
`WorkerInv` joins the two with the worker's queue, whose rows are as old as the run.

### Access tokens and what exports show

| Theorem | Property | In |
|---|---|---|
| `TypesAreOK`, `LateIsNeverServed`, `OnlyMeantRowsEverGo`, `TableImplementsMemory` | `TypeOK`, `LateIsNotServed`, `OnlyMeantRowsGo`, `ImplementsMemoryStore` | `AccessTokens_proofs` |
| `CalendarTypes`, `ExportsStayInScope`, `AllThatIsMeantIsShown`, `LackingIdsOnlyHide` | `TypeOK`, `NothingBeyondScope`, `ShownAsMeant`, `MissingIdsOnlyHide` | `SharedCalendar_proofs` |

For access tokens everything follows from ids and tokens that are given once: a row
remembered in a list or an export is the row that is there under its id or token, or none
is (`Known`). In `SharedCalendar` the invariant follows each event from Spond's answer to the
view: it is seen with the ids and sub-group parents of the request, so that an event which
will pass the scope was allowed when it was fetched, and time passing makes no further
event pass; while Spond is quiet, what was found is what Spond has. This relates the code's
chain of functions to `Meant`, which shares no operator with it.

### Checked by TLC and not proved

`CacheCatchesUp`: liveness under fairness is out of the prover's reach. That the three
claims of `CalDAVClaims` are broken is shown by the runs' counterexamples.

## Not modelled, and the plan

Not modelled: LOCK, UNLOCK, PROPFIND and the root of a CalDAV tree; the memory twins of
the CalDAV store (each of its operations is the lookup and the write of the
database store, one right after the other) and of the event cache (see above); the encoding
and signature of the cookie; HTML, JSON and iCalendar text; lists of groups and
tokens, filter menus; configuration values; generated API types.

Next: `PathRouting`, that is `normalizeResourcePath` and the handler path as functions,
checked against a reference, and that users do not share keys; requests to the root of
a tree; LOCK, which may make an empty file in the tree and no row; then the theorems
about these.
