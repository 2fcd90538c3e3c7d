---------------------------- MODULE TileServing ----------------------------
(***************************************************************************)
(* Requests for the tiles and the bounds of one map, beside everything     *)
(* that writes its versions (VersionPublish).  A request names a version   *)
(* by its number, by an alias, or as "current"; the two latter are looked  *)
(* up through caches, and bounds are kept for as long as the process runs. *)
(* What is served is whatever the version's directory holds.               *)
(*                                                                         *)
(* A cache entry may expire at any time: durations are left to CachedFacts.*)
(***************************************************************************)
EXTENDS VersionPublish

CONSTANTS
    Readers, \* requests for tiles or bounds, each again and again
    Asked,   \* the requests' kinds: what they name, and whether it is bounds
    Partial  \* tiles: what a scan finds of a tree that is being removed

ASSUME AskedAssumption ==
    Asked \subseteq {"current", "alias", "number"} \X BOOLEAN
ASSUME PartialAssumption == Partial \notin Tiles \cup {NoTiles}
ASSUME AdminAssumption ==
    {"put", "alias"} \cap (Uploads \cup Remotes \cup Deletes) = {}

VARIABLES
    alias,   \* the version of the map's alias, or NoVersion
    cached,  \* "current", "alias" -> {}, or the cached version
    excused, \* history: entries queried before their last change and stored
             \* after its invalidate, or whose row went without one
    due,     \* writers that have yet to invalidate, each its entry
    bounds,  \* version -> {}, or what the cached bounds were computed from
    reader,  \* reader -> where it is
    removed  \* history: versions whose trees a writer began to remove

aliasVars == <<alias, cached, excused, due>>
servingVars == <<aliasVars, bounds, reader, removed>>

Names == {"current", "alias"}
Wants == Names \cup {"number"}

\* The two reads of a scan: of the zooms, and of the tiles of the lowest.
Scans == (Tiles \cup {NoTiles, Partial}) \X (Tiles \cup {NoTiles, Partial})

Idle == [at |-> "idle", wants |-> "current", bounds |-> FALSE,
         version |-> NoVersion, zooms |-> NoTiles]

ServingTypeOK ==
    /\ TypeOK
    /\ alias \in VersionOrNone
    /\ cached \in [Names -> SUBSET VersionOrNone]
    /\ \A n \in Names, v, w \in VersionOrNone : {v, w} \subseteq cached[n] => v = w
    /\ excused \in SUBSET Names
    /\ due \in SUBSET (Uploads \cup Remotes \cup Deletes \cup {"put", "alias"})
    /\ bounds \in [Versions -> SUBSET Scans]
    /\ reader \in [Readers ->
            [at : {"idle", "resolve", "store", "open", "scan", "keep"},
             wants : Wants, bounds : BOOLEAN,
             version : VersionOrNone, zooms : Tiles \cup {NoTiles, Partial}]]
    /\ removed \in SUBSET Versions
    \* No request reads the map's own directory (resolveCurrentVersion).
    /\ \A q \in Readers :
            reader[q].at \in {"open", "scan", "keep"} => reader[q].version \in Versions

ServingInit ==
    /\ Init
    /\ alias = NoVersion
    /\ cached = [n \in Names |-> {}]
    /\ excused = {}
    /\ due = {}
    /\ bounds = [v \in Versions |-> {}]
    /\ reader = [q \in Readers |-> Idle]
    /\ removed = {}

-----------------------------------------------------------------------------
(***************************************************************************)
(* The writers, and what they do to the caches                             *)
(***************************************************************************)

\* A tree that somebody is about to remove may be gone in part.
BeingRemoved(v) ==
    \/ \E r \in Remotes : spc[r] = "clearing" /\ Pulling(r, v)
    \/ \E d \in Deletes : dpc[d] = "removing"

\* What follows from a writer's step, when "announced" then has to
\* invalidate: the alias goes with the version that it names.
Follows(announced) ==
    /\ due' = due \cup announced
    /\ alias' = IF alias \in recorded' THEN alias ELSE NoVersion
    /\ excused' = IF alias' = alias THEN excused ELSE excused \cup {"alias"}
    /\ removed' = removed \cup {v \in Versions : BeingRemoved(v)' /\ dirs'[v] # NoTiles}
    /\ UNCHANGED <<cached, bounds, reader>>

Upload(u) ==
    /\ u \notin due
    /\ UploadStep(u)
    /\ Follows(IF upc[u] = "locked" /\ upc'[u] = "recorded" THEN {u} ELSE {})

\* Mutant: SetSyncedCurrentVersion leaves the cached version to expire.
SyncAnnounces_NotAtTheEnd(r) ==
    IF spc[r] = "idle" THEN {r} ELSE {}

\* UpsertSyncedMap, and SetSyncedCurrentVersion if it changed the row.
SyncAnnounces(r) ==
    IF \/ spc[r] = "idle"
       \/ SyncAdvance(r) /\ HasMapVersion(scur[r])
    THEN {r} ELSE {}

Sync(r) ==
    /\ r \notin due
    /\ SyncStep(r)
    /\ Follows(SyncAnnounces(r))

\* The requests that follow are one administrator's, one after the other.
AdminIdle == {"put", "alias"} \cap due = {}

Put ==
    /\ AdminIdle
    /\ \E v \in PutVersions : PutMap(v)
    /\ Follows({"put"})

Delete(d) ==
    /\ d \notin due
    /\ \/ DeleteRow(d) /\ Follows({d})
       \/ (DeleteNotFound(d) \/ DeleteFiles(d)) /\ Follows({})

\* Mutant: the foreign key to map_versions is missing.
CanName_Any(v) == mapRow

\* The foreign key to map_versions.
CanName(v) == v \in recorded

SetMapVersionAlias(v) ==
    /\ AdminIdle
    /\ CanName(v)
    /\ alias' = v
    /\ due' = due \cup {"alias"}
    /\ UNCHANGED <<vars, cached, excused, bounds, reader, removed>>

DeleteMapVersionAlias ==
    /\ AdminIdle
    /\ alias # NoVersion
    /\ alias' = NoVersion
    /\ due' = due \cup {"alias"}
    /\ UNCHANGED <<vars, cached, excused, bounds, reader, removed>>

EntryOf(w) == IF w = "alias" THEN "alias" ELSE "current"

Invalidate(w) ==
    /\ w \in due
    /\ due' = due \ {w}
    /\ cached' = [cached EXCEPT ![EntryOf(w)] = {}]
    /\ excused' = excused \ {EntryOf(w)}
    /\ UNCHANGED <<vars, alias, bounds, reader, removed>>

\* The process is started anew.
Restart ==
    /\ Crash
    /\ cached' = [n \in Names |-> {}]
    /\ excused' = {}
    /\ due' = {}
    /\ bounds' = [v \in Versions |-> {}]
    /\ reader' = [q \in Readers |-> Idle]
    /\ removed' = {}
    /\ UNCHANGED alias

-----------------------------------------------------------------------------
(***************************************************************************)
(* The readers                                                             *)
(***************************************************************************)
Goes(q, changed) == reader' = [reader EXCEPT ![q] = changed]

\* GetMap has found the map.
Ask(q) ==
    \E a \in Asked :
        LET asked == [Idle EXCEPT !.wants = a[1], !.bounds = a[2]] IN
        /\ reader[q].at = "idle"
        /\ mapRow
        /\ IF a[1] \in Names THEN Goes(q, [asked EXCEPT !.at = "resolve"])
           ELSE \E v \in Versions :
                    Goes(q, [asked EXCEPT !.at = IF a[2] THEN "scan" ELSE "open",
                                          !.version = v])
        /\ UNCHANGED <<vars, aliasVars, bounds, removed>>

\* 404 if the map has no current version.
Resolved(q, v) ==
    IF v = NoVersion THEN Idle
    ELSE [reader[q] EXCEPT !.at = IF reader[q].bounds THEN "scan" ELSE "open",
                           !.version = v]

\* GetCurrentVersion, GetMapVersionAlias: a hit, or the query; 404 if there
\* is no row.
Resolve(q) ==
    LET n == reader[q].wants
        found == IF n = "current" THEN mapRow ELSE alias # NoVersion
        row == IF n = "current" THEN currentVersion ELSE alias
    IN
    /\ reader[q].at = "resolve"
    /\ \/ \E v \in cached[n] : Goes(q, Resolved(q, v))
       \/ /\ cached[n] = {}
          /\ Goes(q, IF found THEN [reader[q] EXCEPT !.at = "store", !.version = row]
                     ELSE Idle)
    /\ UNCHANGED <<vars, aliasVars, bounds, removed>>

Store(q) ==
    LET n == reader[q].wants
        v == reader[q].version
        row == IF n = "current" THEN currentVersion ELSE alias
    IN
    /\ reader[q].at = "store"
    /\ cached' = [cached EXCEPT ![n] = {v}]
    /\ excused' = IF v = row THEN excused \ {n} ELSE excused \cup {n}
    /\ Goes(q, Resolved(q, v))
    /\ UNCHANGED <<vars, alias, due, bounds, removed>>

\* The file server opens the file, if it is there.
Open(q) ==
    /\ reader[q].at = "open"
    /\ Goes(q, Idle)
    /\ UNCHANGED <<vars, aliasVars, bounds, removed>>

BoundsCached(q) ==
    /\ reader[q].at = "scan"
    /\ bounds[reader[q].version] # {}
    /\ Goes(q, Idle)
    /\ UNCHANGED <<vars, aliasVars, bounds, removed>>

\* What a directory may be seen to hold.
Seen(v) == {dirs[v]} \cup {t \in {Partial} : dirs[v] # NoTiles /\ BeingRemoved(v)}

\* Mutant: that there are no tiles is remembered as well.
ScanZooms_KeepsNone(q) ==
    LET v == reader[q].version IN
    /\ reader[q].at = "scan"
    /\ bounds[v] = {}
    /\ \E tiles \in Seen(v) :
        /\ Goes(q, IF tiles = NoTiles THEN Idle
                   ELSE [reader[q] EXCEPT !.at = "keep", !.zooms = tiles])
        /\ bounds' = IF tiles = NoTiles
                     THEN [bounds EXCEPT ![v] = {<<NoTiles, NoTiles>>}] ELSE bounds
    /\ UNCHANGED <<vars, aliasVars, removed>>

\* computeTileBounds: the zooms that the version has; none is no bounds.
ScanZooms(q) ==
    /\ reader[q].at = "scan"
    /\ bounds[reader[q].version] = {}
    /\ \E tiles \in Seen(reader[q].version) :
        Goes(q, IF tiles = NoTiles THEN Idle
                ELSE [reader[q] EXCEPT !.at = "keep", !.zooms = tiles])
    /\ UNCHANGED <<vars, aliasVars, bounds, removed>>

\* Then the extent of the lowest, and the result is kept.
ScanExtent(q) ==
    LET v == reader[q].version IN
    /\ reader[q].at = "keep"
    /\ \E tiles \in Seen(v) :
        bounds' = IF tiles = NoTiles THEN bounds
                  ELSE [bounds EXCEPT ![v] = {<<reader[q].zooms, tiles>>}]
    /\ Goes(q, Idle)
    /\ UNCHANGED <<vars, aliasVars, removed>>

Read(q) ==
    \/ Ask(q)
    \/ Resolve(q)
    \/ Store(q)
    \/ Open(q)
    \/ BoundsCached(q)
    \/ ScanZooms(q)
    \/ ScanExtent(q)

Expire(n) ==
    /\ cached[n] # {}
    /\ cached' = [cached EXCEPT ![n] = {}]
    /\ excused' = excused \ {n}
    /\ UNCHANGED <<vars, alias, due, bounds, reader, removed>>

ServingNext ==
    \/ \E u \in Uploads : Upload(u)
    \/ \E r \in Remotes : Sync(r)
    \/ Put
    \/ \E d \in Deletes : Delete(d)
    \/ \E v \in Versions : SetMapVersionAlias(v)
    \/ DeleteMapVersionAlias
    \/ \E w \in due : Invalidate(w)
    \/ Restart
    \/ \E q \in Readers : Read(q)
    \/ \E n \in Names : Expire(n)

ServingSpec == ServingInit /\ [][ServingNext]_<<vars, servingVars>>

-----------------------------------------------------------------------------
(***************************************************************************)
(* Properties                                                              *)
(***************************************************************************)

\* Whoever asks a mirror for its current version, or for an alias, finds the
\* version's tiles, however long ago the name was looked up and stored.
ResolvedServable ==
    \A q \in Readers :
        /\ reader[q].at \in {"open", "scan", "keep"}
        /\ reader[q].wants \in Names
        => dirs[reader[q].version] # NoTiles

\* A cached name is out of date only until its writer has invalidated it, or
\* if it was looked up before the change and stored after the invalidate, or
\* if it is an alias that went with its map.
CachedNameExplained ==
    \A n \in Names, v \in VersionOrNone :
        cached[n] = {v} =>
            \/ v = IF n = "current" THEN currentVersion ELSE alias
            \/ n \in excused
            \/ \E w \in due : EntryOf(w) = n

\* Bounds that are kept are those of the version's tiles, unless a writer
\* has begun to remove a tree of the version since the process started.
BoundsExplained ==
    \A v \in Versions \ removed : bounds[v] \subseteq {<<dirs[v], dirs[v]>>}
=============================================================================
