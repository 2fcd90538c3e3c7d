------------------------------ MODULE MapStore ------------------------------
(***************************************************************************)
(* The database rows of one map: its row in "maps" and its rows in         *)
(* "map_versions", with one action per store function that writes them.    *)
(*                                                                         *)
(* A single SQL statement is one step.  IncrementMapVersion is a           *)
(* transaction of several statements and is two steps, with the row lock   *)
(* of its SELECT ... FOR UPDATE held in between; every other writer of the *)
(* map row waits for that lock, and so does an INSERT into map_versions,   *)
(* whose foreign key takes a key-share lock on the same row.               *)
(***************************************************************************)
EXTENDS MapTypes

VARIABLES
    mapRow,         \* the map has a row in "maps"
    recorded,       \* its versions in "map_versions"
    currentVersion, \* maps.current_version
    rowLock         \* the uploads (at most one) that hold the row lock

dbVars == <<mapRow, recorded, currentVersion, rowLock>>

DbTypeOK ==
    /\ mapRow \in BOOLEAN
    /\ recorded \in SUBSET Versions
    /\ currentVersion \in VersionOrNone
    /\ rowLock \in SUBSET Uploads

(***************************************************************************)
(* A map created locally (POST /maps) has no version, and the current      *)
(* version its creator typed; a map that only a remote knows has no row.   *)
(***************************************************************************)
DbInit(typed) ==
    /\ \/ mapRow = TRUE /\ currentVersion \in typed \cup {NoVersion}
       \/ mapRow = FALSE /\ currentVersion = NoVersion
    /\ recorded = {}
    /\ rowLock = {}

RowFree == rowLock = {}

\* Mutant: asks for the current version only.
HasMapVersion_CurrentOnly(v) == v = currentVersion

HasMapVersion(v) == v \in recorded

\* Mutant: counts on from maps.current_version.
IsLastVersion_Current(n) == n = currentVersion

\* COALESCE(MAX(version::int), 0)
IsLastVersion(n) ==
    \/ recorded = {} /\ n = NoVersion
    \/ n \in recorded /\ \A m \in recorded : m <= n

\* SELECT ... FOR UPDATE, then the maximum; n is the version to be stored.
IncrementBegin(u, n) ==
    /\ mapRow
    /\ RowFree
    /\ n \in Versions
    /\ IsLastVersion(n - 1)
    /\ rowLock' = {u}
    /\ UNCHANGED <<mapRow, recorded, currentVersion>>

\* Mutant: the INSERT adds one once more.
IncrementCommit_OffByOne(u, n) ==
    /\ rowLock = {u}
    /\ recorded' = recorded \cup {n + 1}
    /\ currentVersion' = n
    /\ rowLock' = {}
    /\ UNCHANGED mapRow

\* The UPDATE and the INSERT become visible together when they commit.
IncrementCommit(u, n) ==
    /\ rowLock = {u}
    /\ recorded' = recorded \cup {n}
    /\ currentVersion' = n
    /\ rowLock' = {}
    /\ UNCHANGED mapRow

\* Mutant: the transaction stays open.
IncrementRollback_LeftOpen(u) ==
    /\ rowLock = {u}
    /\ UNCHANGED dbVars

IncrementRollback(u) ==
    /\ rowLock = {u}
    /\ rowLock' = {}
    /\ UNCHANGED <<mapRow, recorded, currentVersion>>

\* On conflict the existing row keeps its current_version.
UpsertSyncedMap ==
    /\ RowFree
    /\ mapRow' = TRUE
    /\ UNCHANGED <<recorded, currentVersion, rowLock>>

\* ON CONFLICT DO NOTHING; the foreign key requires the map row.
RecordSyncedMapVersion(v) ==
    /\ mapRow
    /\ RowFree
    /\ recorded' = recorded \cup {v}
    /\ UNCHANGED <<mapRow, currentVersion, rowLock>>

\* Mutant: no EXISTS in the statement.
SetSyncedCurrentVersion_Unchecked(v) ==
    /\ RowFree
    /\ currentVersion' = IF mapRow THEN v ELSE currentVersion
    /\ UNCHANGED <<mapRow, recorded, rowLock>>

SetSyncedCurrentVersion(v) ==
    /\ RowFree
    /\ currentVersion' = IF mapRow /\ HasMapVersion(v) THEN v
                                                       ELSE currentVersion
    /\ UNCHANGED <<mapRow, recorded, rowLock>>

\* PUT /maps/{id} stores whatever version its body names.
UpdateMap(v) ==
    /\ mapRow
    /\ RowFree
    /\ currentVersion' = v
    /\ UNCHANGED <<mapRow, recorded, rowLock>>

\* map_versions rows go with the map row (ON DELETE CASCADE).
DeleteMap ==
    /\ mapRow
    /\ RowFree
    /\ mapRow' = FALSE
    /\ recorded' = {}
    /\ currentVersion' = NoVersion
    /\ UNCHANGED rowLock

\* The server's death rolls its open transaction back.
DbCrash ==
    /\ rowLock' = {}
    /\ UNCHANGED <<mapRow, recorded, currentVersion>>
=============================================================================
