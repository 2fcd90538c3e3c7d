# Verification of Tileserve-GO

TLA+ models of tileserve-go, checked with TLC, and theorems about them, proved
with TLAPS. The server stores *maps*: a map has rows in PostgreSQL and, for each
of its numbered *versions*, a directory of tiles. Versions are uploaded by users,
or pulled from other tileserve-go servers by background workers. Nothing spans
the database and the file system in one transaction, requests and workers run
concurrently, and nearly every read goes through in-process caches; these are the
parts where the order of steps decides what is right, and they are what is modelled.

Paths below are relative to `src/`; "the code" is the Go source there.

## 1. Inventory

| Component | State | Operations | Hard behaviour | What makes it correct |
|---|---|---|---|---|
| **Version publishing** (`internal/webserver/upload.go`, `maps.go`, `internal/store/maps.go`, `sync_maps.go`, `internal/sync/sync.go`, `internal/tilearchive/extract.go`) | `maps` row, `map_versions` rows, `<map>/<version>/` and `<map>/.upload-*` directories | upload (extract, index, `IncrementMapVersion`, rename), pull (check, fetch, clear, rename, record), `PUT`, `DELETE` | row lock held over two statements; database and rename are separate steps; several writers of one directory; crashes | no version is assigned twice; a directory holds the tiles of its own version; what is recorded is on disk and stays as it is; what was answered with 201 stays |
| **Sync pass** (`internal/sync/sync.go`, `client.go`) | local rows of mirrored maps, the pass's lists | policy, versions, aliases, geo objects, current version of each map | the remote changes between the lists of one pass; one failure cancels the other maps | no pointer ahead of what is here, or back to what it was; everything selected becomes equal in the end |
| **Geo objects** (`internal/webserver/geo_objects.go`, `internal/store/geo_objects.go`, `sync_geo_objects.go`) | `geo_objects` rows of a version | create, update, delete, mirror | both sides are edited while a pass compares two lists and writes one object after the other | a finished pass skipped nothing; both sides become equal |
| **Sync manager** (`internal/sync/manager.go`, `worker.go`) | registry of workers, their contexts and channels | reconcile, `Trigger`, `Stop`, the worker's loop | reconcile works in two critical sections with an unlocked wait between them; cancelling is not ending | one goroutine at a time syncs a remote; none is lost track of; workers converge to the table; triggers are served; shutdown ends all |
| **Archive transfer** (`internal/webserver/map_archive.go`, `internal/sync/client.go`, `internal/tilearchive/extract.go`) | a zip written while it is read from disk | walk, stream, download, extract | connection loss, files that vanish or cannot be read | nothing is missing that the remote could have sent |
| **Store caches** (`internal/store/cache.go` and the functions that use it) | per-process maps with expiry times | get, set, invalidate, clear | query and set are separate, write and invalidate are separate | staleness is bounded; invalidation works except against an overlapping load |
| **Permissions** (`internal/webserver/authz.go`, `maps.go`, `groups.go`, `map_permissions.go`) | global flags, group flags, per-map grants, a map's owner and visibility | set, delete, effective permission, the checks of the handlers | a check reads three facts one after the other, each through a cache | a right works for a bounded time after it was taken away, and nobody who has one all along is refused |
| **API keys and scopes** (`internal/store/api_keys.go`, `api_key_scopes.go`) | `api_keys`, `api_key_scopes`, two caches | create, revoke, set / delete / clear scope, the checks | the `scoped` flag and the scope entries are cached separately | a key never has more access than its rows gave it within a bounded time |
| **Login, tokens** (`internal/auth`, `internal/store/refresh_tokens.go`) | `refresh_tokens` | login, rotate | two requests with one token; a holder of the row that dies | a token is redeemed once; everybody is answered |
| **LDAP / OIDC accounts** (`internal/auth/ldap`, `oidc`, `internal/store/ldap.go`, `oidc.go`, `group_membership.go`) | `users`, `groups`, `group_members` | first login, group creation, membership replacement | concurrent logins at READ COMMITTED; retries after a unique violation; deletions meanwhile | one account per identity; memberships are those of one login |
| **Version resolution and serving** (`internal/webserver/maps.go`, `map_aliases.go`, `map_bounds.go`, `internal/store/map_version_aliases.go`) | aliases, two name caches, the bounds cache | resolve `current` / alias / number, open, compute bounds | looking a name up, storing it and opening the directory are separate | a mirror serves whatever it names; what is cached is out of date only for known reasons |
| **Server process** (`cmd/tileserve-go/main.go`, `internal/serverkey`, `internal/store/store.go`, `internal/tilearchive/index.go`) | two key files, constraints, the seeded account, `index.json` files | start, key pair, migrate, seed, serve, index backfill | ends at any step, and starts from what is left | every start comes up, with the key it had; an index is there and whole |
| **Tile index, bounds, paths** (`internal/tilearchive/index.go`, `paths.go`, `map_bounds.go`) | none | pure computations | - | agreement with a definition by quantifiers |
| **Sync log** (`internal/sync/logs.go`) | bounded slice behind a mutex | append, read | limit of 200 | - |
| **Audit log, HTTP helpers, routes, frontend** | rows / none | one statement each / static | - | - |

How they interact. The upload handler and the workers write the same rows and
directories (`VersionPublish`); tile requests read them through caches
(`TileServing`, on top of `VersionPublish`). The Manager starts and stops the
goroutines (`SyncManager`) that run passes (`MirrorPass`), steps of which are
pulls (`VersionPublish`, steps `PullStart` .. `PullRecord`) and the mirroring of
geo objects (`GeoMirror`); a step of a pull is the transfer of an archive
(`ArchiveTransfer`). Access checks read rights and keys through caches
(`MapAccess`, `ApiKeyAccess`, both instances of `CachedFacts`); who is a
member of which group is decided at logins (`Login`). `run` begins and ends all of it
(`ServerLife`).

`PROJECT.json` lists every component with its status, and every hazard met in the
code with the line where it bites.

## 2. Plan

| # | Module | Of | Composes | Theorems |
|---|---|---|---|---|
| 1 | `MapTypes`, `MapStore`, `TileDirs` | rows and directories of one map | | |
| 2 | `VersionPublish` | uploads, pulls, PUT, DELETE, crashes | 1 | `VersionPublishProofs` |
| 3 | `SyncManager` | reconciler, workers, triggers, stop | | `SyncManagerProofs` |
| 4 | `Mirror`, `MirrorPass` | abstract mirror, and the pass that implements it | `MirrorPass` implements `Mirror` | `MirrorPassProofs` |
| 5 | `GeoMirror` | geo objects of one version | | `GeoMirrorProofs` |
| 6 | `ArchiveTransfer` | one version's archive | | in `MirrorPassProofs` |
| 7 | `CachedFacts` | decisions by facts read through caches, whatever the facts | | `CachedFactsProofs` |
| 8 | `MapAccess` | permission checks and what changes them | implements 7 | `MapAccessProofs` |
| 9 | `ApiKeyAccess` | keys, their scopes, and the checks | implements 7 | `ApiKeyAccessProofs` |
| 10 | `Login` | accounts, groups, memberships, refresh tokens | | `LoginProofs` |
| 11 | `TileServing` | resolution by name, bounds | 2 | in `VersionPublishProofs` |
| 12 | `ServerLife` | starts, crashes, key pair, migration, index backfill | | in `SyncManagerProofs` |

All rows exist, and every safety property of a run has its theorem. What the plan has
left, in this order: `RecordedOnDisk` beside deletions, where it needs a weaker form;
changes of the selection during a pass in `MirrorPass`; the projection of bounds and the
parsing of tile names as operators against definitions by quantifiers.

## 3. The modules and the code

**MapTypes, MapStore, TileDirs.** One map. `MapStore` has an action per store
function that writes the map's rows. A single SQL statement is one step;
`IncrementMapVersion` is two (`IncrementBegin`: `SELECT ... FOR UPDATE` and the
maximum; `IncrementCommit`: the `UPDATE` and the `INSERT`, visible together), with
the row lock in between, and every other writer of the map waits for the lock.
`TileDirs` has the file operations: a tree is extracted, indexed, renamed or
removed as a whole, and a rename needs an empty target, as rename(2) does. Version
numbers are integers (the code uses `strconv.Itoa`); the empty string of
`current_version` is 0. "Tiles" are only told apart by where they come from: an
upload, or a remote and a version.

**VersionPublish.** The processes: `UploadExtract` .. `UploadRenameFails` follow
`UploadMapVersionHandler`; `SyncUpsert`, `SyncList`, `SyncAdvance`, `SyncFails`
follow `syncMap` and `PullSkip` .. `PullRecord` follow `pullVersion`, line by line;
`DeleteRow` and `DeleteFiles` are the two halves of `deleteMapItem`; `Crash` is the
death of the process anywhere: the transaction rolls back, staging trees are
forgotten (their names are random; that they stay on disk is not modelled), every
handler is gone. `era` counts the map's incarnations.

**TileServing.** Extends `VersionPublish` with readers and with what its writers do to
the caches: each action of `VersionPublish` is taken as it is and followed by the
`Invalidate` its store function makes, as a step of its own (`due`). A reader goes through
`Resolve` (a hit, or the query), `Store`, `Open` or `ScanZooms` / `ScanExtent`, with
nothing held in between; a scan is two reads of the directory and can meet a tree that is
being removed (`Partial`). Aliases are set and deleted; these
requests and `PUT`s are one administrator's, one after the other (their invalidates
are of different entries). A cache entry may expire at any time,
so `TileServing` says *why* an entry is out of date and `CachedFacts` for how *long*.

**SyncManager.** A worker is a *slot*, a goroutine with its context, its config and
its trigger channel (`triggers`: the buffered signal). `reconcile` is `ListRemotes`,
`StopOutdated` (first critical section), `AwaitStopped` (the unlocked wait for
`done`), `StartWorker`* and `ReconcileEnds` (second critical section, which
excludes `Trigger` and `Stop`). A worker is `listing` (asking the remote for its
maps), `syncing` (writing maps), `waiting` (in the `select`) or `done`.
Cancellation is a flag: a pass under way notices it at its next call, or not before
its end. A pass can go from `listing` to `syncing` only if it is not cancelled,
because a request with a cancelled context fails. `reply` remembers `Trigger`'s
answer until a pass begins that could be its effect.

**Mirror, MirrorPass.** `Mirror` says what mirroring may do to the rows of a map:
copy the oldest missing version, or move a pointer (current version, alias) to a
later one of the values the remote's pointer has had, if that version is here.
`MirrorPass` has the pass: `MapsToSync` (the policy), then per map
`UpsertSyncedMap`, `ListVersions`, `PullVersion`*, `ListAliases`,
`ReconcileAlias`*, `SetSyncedCurrentVersion`, interleaved with other maps up to the
errgroup's limit and with edits of the remote between any two steps; `Fail` is an
error of any call, which cancels the others (`GiveUp`). The remote's current version is
reported with the list of maps, before everything else, as in the code. `moves`
and `followed` record history, so that "never set back" can be said.

**GeoMirror.** `reconcileGeoObjects` for one version and several remotes: `ListRemote`,
`ListLocal` (which decides, by `updated_at`, what to write and what to delete), then
`Upsert` and `Delete` one object at a time, `Finish` or `Fail`. `CreateGeoObject`,
`UpdateGeoObject`, `DeleteGeoObject` are requests here, `RemoteCreates` .. requests
there, and `RemoteMirrors` the remote's own mirroring, which brings an object with an older
`updated_at`. `touched` is what somebody else has changed here since the pass listed it.

**ArchiveTransfer.** The remote's handler walks the directory and writes the zip as
it goes; an error ends the walk, and the deferred `zw.Close` still completes the zip.
The puller rejects a response that is cut short and accepts any readable zip.

**CachedFacts.** A request reads facts in steps, `Get` from a cache or `Query`/`Load` and
`Set`, each a step of its own; a fact's value settles the request or leads to the next
step (the operator constants `First`, `FactOf`, `Then`). A writer changes facts
(`Wrote`, which says which of them it will invalidate and which it leaves to expire) and
then invalidates them one after the other, or gives up in between. Time is a
clock; an entry is used up to and including its expiry, as `time.Now().After` has it, and no load
takes longer than `MaxLoad`. `was` is the history of the facts, for as long as it matters.

**MapAccess.** Gives `CachedFacts` its facts: a user's effective rights, the map, the grant,
and the listing, each computed from `rows` as the SQL does. `Then` is the control flow of the checks: `Edit`
(`requireMapPermission`), `Manage` (`requireMapAdmin`), `View`, `Tile`, `Anonymous`
and `List`. There is an action per store function that changes what these read, with exactly the
entries it invalidates: `UpdateUser` and `UpdateGroup` read the row again first
(`RereadFails` is the return without an invalidate), `DeleteMap`, `UpsertSyncedMap` and
the rest leave some to expire.

**ApiKeyAccess.** The same for an API key: the key's row with its `scoped` flag and its
entry for the map. A request is authenticated, and each check then asks for the flag and for the scope
(`apiKeyMapAllowed`, `apiKeyMapVersionAllowed`, the whitelist of `MapVersionsHandler`).
`ScopeToOtherMap` is `SetAPIKeyScope` for a map other than the modelled one, which turns the flag on here as well.

**Login.** One request per process, each once. `FindUser`, `InsertUser` (with the retry under a
suffixed name), `FindGroup`, `InsertGroup`, `FindGroupAgain`, then
the two statements of `replaceGroupMembership` in one transaction
(`DeleteMemberships`, `InsertMemberships`: the delete sees what is committed when it begins, the
insert's foreign keys fail if a group is gone), `IssueToken`; `LocalLogin` is a login by password.
`Refresh` is `LookUp` (`SELECT ... FOR UPDATE`) and `Rotate`. `Fails` is an error of any statement, `Crash` the end of the process, which
gives the row locks back.

**ServerLife.** `run` as a sequence: `PairExists` .. `WritePublic` (`EnsureKeyPair`: each file is
opened, which cuts it, and then written), `Load`, `AddConstraint` (`Migrate`, a
transaction each), `SeedUser`, then serving, beside which `EnsureTileIndexes` runs
(`ListVersions`, `IndexFound`, `ScanVersion`, `OpenIndex`, `WriteIndex`), with uploads,
pulls and deletions (`Publish`, `RemoveVersion`) in between. `End` is a crash, an error that
makes `run` return, or a signal, at any step: `run` returns as soon as the listener is closed.

## 4. The runs

| Run | Question | Instance |
|---|---|---|
| `publish_uploads` | Do uploads alone keep versions apart, and keep what they answered for? Is each answered? | 3 uploads, versions 1..3, PUT of 1 and 3, a DELETE, faults |
| `publish_mirror` | Does a mirror that fails and crashes anywhere keep database and disk together, and serve whatever name it is asked for? | 1 remote with 2 versions, aliases, 1 reader, faults |
| `serving` | When everything meets on one map: which cached names and bounds may be out of date, and why? | 1 upload, 1 remote, version 1, PUT, DELETE, aliases, 1 reader, faults (4.9 million states) |
| `upload_lost` | Is everything recorded on disk? | 1 upload, faults; **violated** |
| `sync_manager` | One worker per remote, none lost, convergence, shutdown, triggers | 1 remote with 2 configurations, 2 goroutines, 2 edits |
| `mirror_pass` | Are passes a mirror, and do selected maps become equal? | 2 maps (one selected, one new), 1 alias, 2 versions, 3 edits, 1 failure |
| `geo_mirror` | Does a finished pass miss an object, and do both sides become equal? | 2 remotes, 2 objects, 4 changes, 1 failed pass |
| `archive_transfer` | What can be missing from a recorded version? | 4 files, deletion, read errors, connection loss |
| `map_access` | For how long does a right work that is gone, and is anybody refused who has one? | 1 user whose rights come from a group, 1 stream of requests of all kinds, 1 writer, 2 writes, ttl 1 |
| `api_keys` | The same of a key and its scope | 1 key confined to one of 2 versions, 1 stream of requests, 1 writer, 2 writes, ttl 1, load 1 |
| `login` | Do concurrent logins and refreshes keep accounts, memberships and tokens right? Is everybody answered? | 2 logins of one identity, 2 refreshes, 2 directory groups of one name, a local account of the preferred name, 1 deletion, crashes |
| `server_life` | What does a start find after lives that ended anywhere, and does it come up? | 3 constraints, 3 versions, 3 ends |

**The bounds.** Each run has the smallest number of actors in which its hazards
occur, plus one where that stays cheap. Two uploads race for a version, the third
sees the result of the race. Two versions are needed for "the oldest missing one"
to differ from the newest. Two goroutines are a worker and its replacement, and two
edits switch a remote's configuration and back, or off and on. Two maps with a
concurrency limit of one have a map that waits while the other fails. Three edits
can publish two versions and move a pointer back. Four files have one sent, one lost and
one the walk never comes to, and one more. `serving` needs an upload and a pull of the same
version to have one replaced by the other, and a DELETE to have it come back. In `map_access` and `api_keys`
two writes can move a right from one fact to another, or clear a scope and set another, between two reads of a
check; the clock runs for two or three ttls, and every duration is a nondeterministic number of ticks. Two logins and two
refreshes overlap in pairs; same preferred name, same display name and a local account of that name make every
unique index refuse. Three ends let a life find what an interrupted repair left. Counters
(`MaxVersion`, `MaxEdits`, `MaxChanges`, `MaxFaults`, `MaxWrites`, `MaxTime`, `MaxDeletes`, `MaxEnds`, `Constraints`) are bounded
in guards; the theorems of section 6 hold for every value of them.
`CHECK_DEADLOCK FALSE` is set where the system is finished after finitely many steps
(every upload or login answered, the version recorded, the clock at its bound).

**The properties** are stated in the modules, each with a comment. Every one has been seen to fail
on a changed model, with a bug in it that the code could plausibly have (`PROJECT.json`,
"mutants"); the changed definitions stand beside the real ones, marked "Mutant".

**What the violated run shows.** `IncrementMapVersion` commits the version and makes it
current before the directory is renamed. A failing rename, or a crash, leaves a current version
with no tiles; `sync.go:426` says that `map_versions` tells what is done. Pulls do it the
other way round (rename, then record), and `publish_mirror` shows that this order is safe.

## 5. Fairness

Safety runs use `Spec`, without fairness (`ServingSpec` for `TileServing`, `TransferSpec` for
`ArchiveTransfer`).

- `VersionPublish!FairSpec`: each upload's and each deletion's goroutine runs on (weak
  fairness). Weak is enough: the row lock is released by its holder's next step, and an
  upload has only one step for each state.
- `SyncManager!FairSpec`: weak fairness of the reconciler and of each goroutine; calls end,
  since the client has timeouts and a cancelled context. Strong fairness of `ListRemotes`
  (a database that can be reached again and again is reached at some time), of
  `StartReturns` (Go's `select` chooses among ready cases at random, so it does not
  take the ticker rather than `ctx.Done()` for ever), and for the same reason of `WorkerExits`
  and `TriggeredPass`. Nothing is assumed of `PollTick`, whose interval is the
  administrator's. `TriggerServed` therefore does not lean on polling.
- `MirrorPass!FairSpec`: passes begin again (the ticker), and each map's task runs on. That
  failures are transient is `MaxFaults`, a bound and not fairness.
- `GeoMirror!FairSpec`: a remote's worker goes on with its pass and begins the next one (weak).
  `Converges` is conditional on the remotes agreeing from some time on; two that do not undo each other's work.
- `Login!FairSpec`: handlers run on (weak), and a `SELECT ... FOR UPDATE` that waits for a row
  gets it in its turn (strong fairness of `LookUp`, PostgreSQL queues the waiters).
- `ServerLife!LifeFairSpec`: whoever runs the server starts it again, a start goes on, and so does the
  backfill (weak). Lives end `MaxEnds` times at most.

`AllStop` is about the goroutines in a process that lives on; the process may well end
before (see "What was met while modelling").

## 6. What is proved

For every value of the constants, with no bound on actors, versions, edits or time, from
the named assumptions on constants only (types, and that special values differ from others).
Every type invariant, safety invariant and action property that a run checks is a theorem.

Three modules hold the proofs of two components each: the caches and requests with the writers they
stand beside, the process with the Manager it runs, the transfer with the pass whose pulls it is. There the names
of the second component begin with `Serving`, `Life` or `Transfer`.

*VersionPublishProofs.* `TypeCorrect`. `UploadsGetDistinctVersions`: the property alone is not
inductive; `AssignInv` adds that an upload in its transaction holds the row lock and a
version not recorded, and that a version assigned in this era is still recorded, whence the next
one (`NextIsFresh`) is new. `TilesFiledUnderTheirVersion` from `TilesInv` (what each staging tree
is for). These two hold with everything at once: uploads, remotes, PUT, DELETE, crashes.
`PublishedUploadsAreKept` needs that no remote mirrors the map; `MirrorRecordedOnDisk`,
`MirrorCurrentServable` and `MirrorRecordedImmutable` that only one remote writes it, with
`MirrorInv` (a pull past its check has a version not recorded; one that is about to record
has its directory); `UploadsRecordedOnDisk` that nothing fails, nothing is deleted and
nothing is mirrored. `upload_lost` and the observations below show that these assumptions are needed.
`RowLockHeldAtWork`: the row lock is its holder's, who is between `IncrementMapVersion`'s two statements, so no
end of an upload leaves it locked.

For the requests of `TileServing`: `ServingImplementsPublish` (whatever requests and caches do is a stutter of
rows and directories), so that each theorem about `VersionPublish` holds beside them, as `MirrorServesRecorded`
says of three. `CachedNamesExplained` is inductive, given the types (`ServingTypeInv` adds that a request that
looks up a name has one), because each step that changes what a name stands for adds its invalidate to `due`
or the name to `excused` (`UploadAnnounced`, `SyncAnnounced`), and each invalidate that leaves `due` empties the
entry. `BoundsAreExplained` from `BoundsInv`: bounds that are kept, and a scan between its two reads, are of a
tree that is still there unless the version is in `removed`; `DirsReplaced` says that a tree goes only after its
writer has come to the step that removes it. `ResolvedAreServable`, on a map one remote mirrors and nobody else
writes, from `NamesInv`: the rows, the caches and the requests under way name recorded versions only, what is
recorded stays so (`RecordedGrows`), and by `MirrorInv` it has tiles. That nobody deletes and nobody `PUT`s is needed:
a name resolved before a `DELETE` can be opened after it, and a `PUT` can name a version that has no tiles.

*SyncManagerProofs.* `RemotesSyncedOneAtATime` and `WorkersAreReachable`. Until the shutdown
(`Running`): a live goroutine is either the registered worker of its remote, or has been
cancelled by the reconcile under way, which is waiting for it and has taken the remote from the
registry. That is no longer so after `Stop`, which empties the registry and waits for nobody; but by then no
goroutine gets from listing to syncing, so those in a pass only become fewer. `WorkerInv`
is the two together.

Two more theorems are the safety part of liveness properties that only TLC checks. `AwaitsOnlyCancelled`:
reconcile waits for no goroutine that has not been told to end (`AllStop`, `Converges`). `TriggersAreNotLost`: until
the shutdown, an accepted trigger is in the channel of the worker its remote has, if it has one, or a pass has begun since
(`TriggerServed`); polls, restarts and edits in between do not matter. It needs `WorkerInv`, because the signal a goroutine
drops when it exits is lost unless that goroutine is out of the registry.

For `ServerLife`: `ServesReadyCorrect` and `RestartKeepsCorrect` from `LifeKeyInv` (what each stage of a start knows
of the two files and the key in memory; a key is generated only by a life that found no file, and once `server.key`
is opened it is never missing again) and `LifeMigrateInv` (the constraints the migration has come past are there, whichever life
added them). `IndexBackfilledCorrect` from `LifeIndexInv`: a version that was found is still to be looked at, or
under way, or has an index, and a cut index is the one being written or one whose writer was interrupted.

*MirrorPassProofs.* `PassesMirror`: `MirrorPass` implements `Mirror`, by step simulation
(`StepIsMirrors`) under `PosInv`: followed <= reported <= reached positions of each
pointer, and nothing listed or pointed to is ahead of what is published. A pull takes the
smallest missing number of those listed, hence the oldest missing of those published. Setting a
pointer is `Follow` if the position advances and a stutter if not. `CurrentPulledInTime`: the
current version is reported before the versions are, so (`ListedInv`) it is among those
listed, and those are pulled.

For `ArchiveTransfer`, `MissingOnlyByRemoteCorrect` and `AtMostOnePartialCorrect` from `TransferInv`: until a file
fails, each file is sent whole or still to be walked; the walk ends at the first that fails, so there is at most
one; and only a zip whose end was written is extracted. Two retries never mix, since a new download begins with nothing.

*CachedFactsProofs.* Proved once, for whatever facts, checks and writers satisfy `Sound`.
`HitsFreshCorrect` from `AgeInv`: the value of an entry, and of a load under way, was the
fact's at some time no earlier than its query, which was at most one load before its ttl began.
`StaleExplainedCorrect`: an entry whose fact has changed is waiting for an invalidate, or was
stored by a load that overlapped the change, or the change was one that does not invalidate.

*MapAccessProofs*, *ApiKeyAccessProofs.* `ImplementsCachedFacts`: every step of the detailed
module is one of `CachedFacts` or a stutter; the substance is that no store function changes a
fact that it neither invalidates nor is listed as leaving to expire. The theorems about the
caches then follow from those of `CachedFacts` through an `INSTANCE` of its proofs. `AllowJustifiedCorrect`
and `DenyJustifiedCorrect` add, by induction over the steps of a check, what a request that has come
to a step has learnt before: each fact it has passed lacked the right (or was scoped) at a time it read.
`ScopesCountCorrect` is about the rows alone.

*GeoMirrorProofs.* `PassesCopyCompletely` from `IInv`, whose part `Pending` says of a pass
in the middle that an object that is neither still to write nor still to delete, nor touched by others, is
as listed; `ObjectsHaveTheirVersion`; `TypeCorrect`, which includes that no pass is to write and to delete one object.

*LoginProofs.* `TypeCorrect`, `SingleUseCorrect`, `AccountsMatchCorrect`, `ReferencesCorrect`,
`ReplacedCorrect`, from one invariant with the parts `Stages` (what a request at a stage has and
holds), `Tokens` (the row lock is what its holder thinks, and a token that is being rotated is
not revoked), `Groups` (a resolved group is the link's, or gone) and the properties themselves.

Refinements: `MirrorPass` implements `Mirror`, and `MapAccess` and `ApiKeyAccess` implement `CachedFacts`; each is
stated with `INSTANCE ... WITH`, model-checked as a property and proved.

Only model-checked: the liveness properties (`UploadsAnswered`, `Converges` of `SyncManager`,
`MirrorPass` and `GeoMirror`, `AllStop`, `TriggerServed`, `Answers`, `ComesUp`), since liveness under fairness is
beyond the prover. No module uses `RECURSIVE`.

## 7. What was met while modelling

Behaviour that is at odds with what the code, a comment or a document says of it, or that a
reader of the code would not expect. The first has a run of its own; the others
were read in the code and are part of the models (their properties say what holds in spite of them).

- `upload_lost`, see section 4.
- `pullVersion` asks `HasMapVersion` and then downloads; an upload that gets the same number
  meanwhile has its tiles removed and replaced (`sync.go:480`), although `map_bounds.go:94` takes
  extracted directories for immutable, and `ServeMapVersionFileHandler` tells clients so.
- Two remotes that list the same map clear each other's directories in `pullVersion`, and
  undo each other's geo objects for as long as they differ. Edits of a mirrored geo object and objects
  created here are taken back by the next pass.
- A `DELETE` removes the directory after the row, so a pass that re-imports the map in
  between loses what it has just stored.
- `srv.Shutdown` makes `ListenAndServe` return at once; `run` returns and the process ends with
  requests and passes still at work (`main.go:216` promises otherwise).
- A map that only `syncNewMaps` selects is "known" from its first `UpsertSyncedMap`, so a
  failure after it is final (`sync.go:89`; `worker.go:50`: retried on the next tick).
- The deferred `zw.Close` completes the zip of a walk that failed, so the puller does not
  reject it (`map_archive.go:50` says it does).
- `Trigger` answers `ErrRemoteNotRunning` also while a worker is being restarted
  (`manager.go:249` names only missing and disabled remotes).
- A cached value can be stale for a ttl *and a load*, where `cache.go:12` says a ttl.
- Bounds scanned while a tree is being removed are kept for the life of the process
  (`map_bounds.go:93`: "can never go stale"). The alias cache is not invalidated by `DeleteMap`.
- `api_keys.go:45` says that a key with no scopes set is unrestricted regardless of the flag;
  `DeleteAPIKeyScope` leaves a flagged key without entries, which is refused everything. What
  `api_key_scopes.go:234` says of the two caches does not hold after a clear and a set on another map
  within a ttl; a request can be refused in the middle of a `ClearAPIKeyScope`, and
  `MapVersionsHandler` can list versions outside the scope. `requireMapAdmin` does not ask for the scope.
- Two overlapping logins of one user leave the union of their memberships
  (`group_membership.go:72`: "fully replaces"). A first login can fail when a concurrent one has made
  the account, because the retry under a suffixed name meets the index on the identity.
- `LoginHandler` ignores the requested ttl its documentation describes; `EnsureSyncUser` stores an empty
  `password_hash`, where its comment says a random one.
- `server.key` cut short by a crash is found to exist by every later start, and none can load it; a crash
  between the two files leaves a server without `server.pub` for good.
- An `index.json` cut short passes for an index ever after; a backfill that scans a version
  while a pull replaces it can write a list of the old files over the new index.

## 8. Abstractions, and what is not modelled

- PostgreSQL: statements are atomic and serialised by row locks where they touch the same
  row; deadlock aborts and serialisation failures appear only as errors.
- A tree of files is handled as a whole, except in `ArchiveTransfer`, which is about its parts, and in
  the scans of `TileServing`.
- `MirrorPass` leaves out edits of local aliases by users, local deletions and changes of the
  selection during a pass; geo objects are in `GeoMirror`, whose object is its `updated_at`.
- `SyncManager` reads the table in one step and does not model `EnsureSyncUser` but for its failure.
- The clock of `CachedFacts` is exact, and `MaxLoad` bounds how long a request may take from its
  query to its set, which the scheduler does not promise in a number. Writers of `MapAccess` and
  `ApiKeyAccess` take no statement that changes nothing.
- `MapAccess` has one user, one map and one group; "edit" stands for the four flags that
  the checks treat alike. Creating maps and editing geo objects are decided by the global flags alone, as the
  first step of these checks is.
- `Login`: each request happens once, and administrators do not rename or relink groups. Login JWTs are
  not stored, their signatures and those of API keys are the libraries'; so are the
  protocols with directory and provider.
- `ServerLife` has the indexes of one map; maps are backfilled independently.
- Not modelled: the projection behind the bounds and the parsing of tile names (plain
  arithmetic and regular expressions, without state); the sync log (a slice behind
  a mutex), the audit log (append-only, best effort), HTTP helpers, OpenAPI, static pages, the
  route table and the frontend, which hold no state of the protocols above.
