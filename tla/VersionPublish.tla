--------------------------- MODULE VersionPublish ---------------------------
(***************************************************************************)
(* How versions of one map come to be recorded in the database and stored  *)
(* on disk, by everything that writes them concurrently: the upload        *)
(* handler, one sync pass per remote at a time, an administrator's PUT and *)
(* DELETE, and crashes of the server.                                      *)
(*                                                                         *)
(* The database (MapStore) and the file system (TileDirs) have no common   *)
(* transaction: each process below changes one, then the other.            *)
(***************************************************************************)
EXTENDS MapStore, TileDirs

CONSTANTS
    RemoteVersions, \* the versions of the map the remotes may list
    PutVersions,    \* the versions an administrator may PUT as current
    Deletes,        \* DELETE /maps/{id} requests
    Faults          \* the server may crash and file operations may fail

ASSUME RemoteVersionsAssumption == RemoteVersions \subseteq Versions
ASSUME PutVersionsAssumption == PutVersions \subseteq Versions
ASSUME FaultsAssumption == Faults \in BOOLEAN

VARIABLES
    upc,   \* upload -> where its handler is
    uver,  \* upload -> the version IncrementMapVersion gave it
    spc,   \* remote -> where its pass over this map is
    todo,  \* remote -> versions left to pull in this pass
    scur,  \* remote -> the remote's current version, as listed
    dpc,   \* delete request -> where its handler is
    era,   \* history: how often the map has been deleted
    uera   \* history: upload -> the era its version was assigned in

uploadVars == <<upc, uver, uera>>
syncVars == <<spc, todo, scur>>
deleteVars == <<dpc, era>>
vars == <<dbVars, dirVars, uploadVars, syncVars, deleteVars>>

UploadStates ==
    {"new", "staged", "locked", "recorded", "published", "failed", "lost"}
SyncStates ==
    {"idle", "listing", "pulling", "fetching", "clearing", "renaming",
     "recording"}
DeleteStates == {"new", "removing", "done"}

TypeOK ==
    /\ DbTypeOK
    /\ DirTypeOK
    /\ upc \in [Uploads -> UploadStates]
    /\ uver \in [Uploads -> VersionOrNone]
    /\ spc \in [Remotes -> SyncStates]
    /\ todo \in [Remotes -> SUBSET Versions]
    /\ scur \in [Remotes -> VersionOrNone]
    /\ dpc \in [Deletes -> DeleteStates]
    /\ era \in Nat
    /\ uera \in [Uploads -> Nat]

Init ==
    /\ DbInit(PutVersions)
    /\ DirInit
    /\ upc = [u \in Uploads |-> "new"]
    /\ uver = [u \in Uploads |-> NoVersion]
    /\ spc = [r \in Remotes |-> "idle"]
    /\ todo = [r \in Remotes |-> {}]
    /\ scur = [r \in Remotes |-> NoVersion]
    /\ dpc = [d \in Deletes |-> "new"]
    /\ era = 0
    /\ uera = [u \in Uploads |-> 0]

-----------------------------------------------------------------------------
(***************************************************************************)
(* UploadMapVersionHandler                                                 *)
(***************************************************************************)
UploadGoto(u, state) == upc' = [upc EXCEPT ![u] = state]

UploadExtract(u) ==
    /\ upc[u] = "new"
    /\ UploadGoto(u, "staged")
    /\ ExtractArchive(u, u)
    /\ UNCHANGED <<dbVars, uver, uera, syncVars, deleteVars>>

UploadMapNotFound(u) ==
    /\ upc[u] = "staged"
    /\ ~mapRow
    /\ UploadGoto(u, "failed")
    /\ RemoveStaging(u)
    /\ UNCHANGED <<dbVars, uver, uera, syncVars, deleteVars>>

UploadIncrementBegin(u) ==
    /\ upc[u] = "staged"
    /\ \E n \in Versions :
        /\ IncrementBegin(u, n)
        /\ uver' = [uver EXCEPT ![u] = n]
    /\ UploadGoto(u, "locked")
    /\ UNCHANGED <<dirVars, uera, syncVars, deleteVars>>

UploadIncrementCommit(u) ==
    /\ upc[u] = "locked"
    /\ IncrementCommit(u, uver[u])
    /\ UploadGoto(u, "recorded")
    /\ uera' = [uera EXCEPT ![u] = era]
    /\ UNCHANGED <<dirVars, uver, syncVars, deleteVars>>

\* The client went away or a statement failed: 500, and nothing is recorded.
UploadIncrementRollback(u) ==
    /\ upc[u] = "locked"
    /\ IncrementRollback(u)
    /\ UploadGoto(u, "failed")
    /\ RemoveStaging(u)
    /\ UNCHANGED <<uver, uera, syncVars, deleteVars>>

\* Mutant: reads the current version again, and makes room for its own tree.
UploadRename_IntoCurrent(u) ==
    /\ upc[u] = "recorded"
    /\ currentVersion # NoVersion
    /\ dirs' = [dirs EXCEPT ![currentVersion] = staging[u]]
    /\ staging' = [staging EXCEPT ![u] = NoTiles]
    /\ UploadGoto(u, "published")
    /\ UNCHANGED <<dbVars, uver, uera, syncVars, deleteVars>>

UploadRename(u) ==
    /\ upc[u] = "recorded"
    /\ Rename(u, uver[u])
    /\ UploadGoto(u, "published")
    /\ UNCHANGED <<dbVars, uver, uera, syncVars, deleteVars>>

\* 500, with the version already recorded and current.
UploadRenameFails(u) ==
    /\ upc[u] = "recorded"
    /\ ~CanRename(u, uver[u]) \/ Faults
    /\ UploadGoto(u, "lost")
    /\ RemoveStaging(u)
    /\ UNCHANGED <<dbVars, uver, uera, syncVars, deleteVars>>

UploadStep(u) ==
    \/ UploadExtract(u)
    \/ UploadMapNotFound(u)
    \/ UploadIncrementBegin(u)
    \/ UploadIncrementCommit(u)
    \/ UploadIncrementRollback(u)
    \/ UploadRename(u)
    \/ UploadRenameFails(u)

-----------------------------------------------------------------------------
(***************************************************************************)
(* syncMap and pullVersion, for one remote.  A remote's versions are       *)
(* created in the order of their numbers, so the oldest first is the       *)
(* smallest first.                                                         *)
(***************************************************************************)
SyncGoto(r, state) == spc' = [spc EXCEPT ![r] = state]

Pulling(r, v) == v \in todo[r] /\ \A w \in todo[r] : v <= w

SyncUpsert(r) ==
    /\ spc[r] = "idle"
    /\ UpsertSyncedMap
    /\ \E v \in RemoteVersions \cup {NoVersion} :
            scur' = [scur EXCEPT ![r] = v]
    /\ SyncGoto(r, "listing")
    /\ UNCHANGED <<dirVars, uploadVars, todo, deleteVars>>

SyncList(r) ==
    /\ spc[r] = "listing"
    /\ \E listed \in SUBSET RemoteVersions :
            todo' = [todo EXCEPT ![r] = {v \in listed : ~HasMapVersion(v)}]
    /\ SyncGoto(r, "pulling")
    /\ UNCHANGED <<dbVars, dirVars, uploadVars, scur, deleteVars>>

PullSkip(r, v) ==
    /\ spc[r] = "pulling"
    /\ Pulling(r, v)
    /\ HasMapVersion(v)
    /\ todo' = [todo EXCEPT ![r] = @ \ {v}]
    /\ UNCHANGED <<dbVars, dirVars, uploadVars, spc, scur, deleteVars>>

PullStart(r, v) ==
    /\ spc[r] = "pulling"
    /\ Pulling(r, v)
    /\ ~HasMapVersion(v)
    /\ SyncGoto(r, "fetching")
    /\ UNCHANGED <<dbVars, dirVars, uploadVars, todo, scur, deleteVars>>

\* Mutant: the version is recorded as soon as it is downloaded.
PullExtract_RecordsFirst(r, v) ==
    /\ spc[r] = "fetching"
    /\ Pulling(r, v)
    /\ RecordSyncedMapVersion(v)
    /\ ExtractArchive(r, <<r, v>>)
    /\ SyncGoto(r, "clearing")
    /\ UNCHANGED <<uploadVars, todo, scur, deleteVars>>

PullExtract(r, v) ==
    /\ spc[r] = "fetching"
    /\ Pulling(r, v)
    /\ ExtractArchive(r, <<r, v>>)
    /\ SyncGoto(r, "clearing")
    /\ UNCHANGED <<dbVars, uploadVars, todo, scur, deleteVars>>

PullClear(r, v) ==
    /\ spc[r] = "clearing"
    /\ Pulling(r, v)
    /\ RemoveVersionDir(v)
    /\ SyncGoto(r, "renaming")
    /\ UNCHANGED <<dbVars, uploadVars, todo, scur, deleteVars>>

PullRename(r, v) ==
    /\ spc[r] = "renaming"
    /\ Pulling(r, v)
    /\ Rename(r, v)
    /\ SyncGoto(r, "recording")
    /\ UNCHANGED <<dbVars, uploadVars, todo, scur, deleteVars>>

PullRecord(r, v) ==
    /\ spc[r] = "recording"
    /\ Pulling(r, v)
    /\ RecordSyncedMapVersion(v)
    /\ todo' = [todo EXCEPT ![r] = @ \ {v}]
    /\ SyncGoto(r, "pulling")
    /\ UNCHANGED <<dirVars, uploadVars, scur, deleteVars>>

\* The last step of the pass; with no current version listed it does nothing.
SyncAdvance(r) ==
    /\ spc[r] = "pulling"
    /\ todo[r] = {}
    /\ IF scur[r] = NoVersion THEN UNCHANGED dbVars
                              ELSE SetSyncedCurrentVersion(scur[r])
    /\ SyncGoto(r, "idle")
    /\ scur' = [scur EXCEPT ![r] = NoVersion]
    /\ UNCHANGED <<dirVars, uploadVars, todo, deleteVars>>

\* An error anywhere (the remote, the disk, the database, a cancelled
\* context) ends the pass; the deferred cleanup removes the staging tree.
SyncFails(r) ==
    /\ spc[r] # "idle"
    /\ SyncGoto(r, "idle")
    /\ todo' = [todo EXCEPT ![r] = {}]
    /\ scur' = [scur EXCEPT ![r] = NoVersion]
    /\ RemoveStaging(r)
    /\ UNCHANGED <<dbVars, uploadVars, deleteVars>>

SyncStep(r) ==
    \/ SyncUpsert(r)
    \/ SyncList(r)
    \/ SyncAdvance(r)
    \/ SyncFails(r)
    \/ \E v \in Versions :
        \/ PullSkip(r, v)
        \/ PullStart(r, v)
        \/ PullExtract(r, v)
        \/ PullClear(r, v)
        \/ PullRename(r, v)
        \/ PullRecord(r, v)

-----------------------------------------------------------------------------
(***************************************************************************)
(* Administration, and crashes                                             *)
(***************************************************************************)
PutMap(v) ==
    /\ UpdateMap(v)
    /\ UNCHANGED <<dirVars, uploadVars, syncVars, deleteVars>>

\* Mutant: the files go before the row.
DeleteRow_FilesFirst(d) ==
    /\ dpc[d] = "new"
    /\ RemoveMapDir
    /\ dpc' = [dpc EXCEPT ![d] = "removing"]
    /\ UNCHANGED <<dbVars, uploadVars, syncVars, era>>

DeleteRow(d) ==
    /\ dpc[d] = "new"
    /\ DeleteMap
    /\ dpc' = [dpc EXCEPT ![d] = "removing"]
    /\ era' = era + 1
    /\ UNCHANGED <<dirVars, uploadVars, syncVars>>

\* ErrMapNotFound returns before the directory is touched.
DeleteNotFound(d) ==
    /\ dpc[d] = "new"
    /\ ~mapRow
    /\ dpc' = [dpc EXCEPT ![d] = "done"]
    /\ UNCHANGED <<dbVars, dirVars, uploadVars, syncVars, era>>

DeleteFiles(d) ==
    /\ dpc[d] = "removing"
    /\ RemoveMapDir
    /\ dpc' = [dpc EXCEPT ![d] = "done"]
    /\ UNCHANGED <<dbVars, uploadVars, syncVars, era>>

Crash ==
    /\ Faults
    /\ DbCrash
    /\ DirCrash
    /\ upc' = [u \in Uploads |->
                CASE upc[u] \in {"staged", "locked"} -> "failed"
                  [] upc[u] = "recorded" -> "lost"
                  [] OTHER -> upc[u]]
    /\ spc' = [r \in Remotes |-> "idle"]
    /\ todo' = [r \in Remotes |-> {}]
    /\ scur' = [r \in Remotes |-> NoVersion]
    /\ dpc' = [d \in Deletes |-> IF dpc[d] = "removing" THEN "done"
                                                        ELSE dpc[d]]
    /\ UNCHANGED <<uver, uera, era>>

Next ==
    \/ \E u \in Uploads : UploadStep(u)
    \/ \E r \in Remotes : SyncStep(r)
    \/ \E v \in PutVersions : PutMap(v)
    \/ \E d \in Deletes :
        \/ DeleteRow(d)
        \/ DeleteNotFound(d)
        \/ DeleteFiles(d)
    \/ Crash

Spec == Init /\ [][Next]_vars

\* Every request's goroutine runs on; the row lock is granted in turn.
Fairness ==
    /\ \A u \in Uploads : WF_vars(UploadStep(u))
    /\ \A d \in Deletes : WF_vars(DeleteFiles(d))

FairSpec == Spec /\ Fairness

-----------------------------------------------------------------------------
(***************************************************************************)
(* Properties                                                              *)
(***************************************************************************)

\* IncrementMapVersion has committed for u.
Assigned(u) == upc[u] \in {"recorded", "published", "lost"}

\* Two uploads are never assigned the same version of the same incarnation
\* of the map, whatever an administrator PUTs as its current version and
\* whatever the sync workers record meanwhile (IncrementMapVersion's row
\* lock, and its use of map_versions rather than of current_version).
UploadVersionsDistinct ==
    \A u, w \in Uploads :
        u # w /\ Assigned(u) /\ Assigned(w) /\ uera[u] = uera[w]
            => uver[u] # uver[w]

\* A version's directory holds the tiles of the upload that was assigned
\* exactly this version, or the tiles some remote serves for exactly this
\* version: no interleaving files a tree under a number that is not its own.
TilesBelongToVersion ==
    \A v \in Versions : dirs[v] # NoTiles =>
        \/ \E u \in Uploads : dirs[v] = u /\ Assigned(u) /\ uver[u] = v
        \/ \E r \in Remotes : dirs[v] = <<r, v>>

\* A recorded version has its directory, or an upload at work is about to
\* rename it into place: map_versions tells which versions are done.
RecordedOnDisk ==
    \A v \in recorded :
        \/ dirs[v] # NoTiles
        \/ \E u \in Uploads : upc[u] = "recorded" /\ uver[u] = v

\* An upload answered with 201 keeps its tiles under its version for as long
\* as the map lives, through crashes and later uploads.
PublishedUploadKept ==
    \A u \in Uploads :
        upc[u] = "published" /\ uera[u] = era /\ mapRow
            => dirs[uver[u]] = u

\* Once a map has a current version that sync set, tiles can be served for
\* it: current_version is advanced only after the version's tree is in place.
CurrentServable ==
    mapRow /\ currentVersion # NoVersion => dirs[currentVersion] # NoTiles

\* While a version stays recorded, a tree stored for it is never replaced or
\* removed: what the process-lifetime bounds cache and clients rely on.
RecordedImmutable ==
    [][\A v \in Versions :
         v \in recorded /\ v \in recorded' /\ dirs[v] # NoTiles
            => dirs'[v] = dirs[v]]_vars

\* A staged upload gets an answer: the row lock is always released, and no
\* upload waits behind another for ever.
UploadsAnswered ==
    \A u \in Uploads :
        upc[u] = "staged" ~> upc[u] \in {"published", "failed", "lost"}
=============================================================================
