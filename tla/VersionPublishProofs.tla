------------------------ MODULE VersionPublishProofs ------------------------
(***************************************************************************)
(* Theorems about VersionPublish and TileServing, for any number of        *)
(* uploads, remotes, delete requests, versions and readers.                *)
(***************************************************************************)
EXTENDS TileServing, TLAPS

-----------------------------------------------------------------------------
(***************************************************************************)
(* Type correctness                                                        *)
(***************************************************************************)

\* TypeOK alone is not inductive: an upload records the version it holds,
\* so that version must not be NoVersion.
TypeInv ==
    /\ TypeOK
    /\ \A u \in Uploads :
        upc[u] \in {"locked", "recorded", "published", "lost"}
            => uver[u] \in Versions

\* What the type invariant needs to know of version numbers and tiles.
LEMMA TypeFacts ==
    /\ Versions \subseteq VersionOrNone
    /\ NoVersion \in VersionOrNone
    /\ RemoteVersions \subseteq Versions
    /\ PutVersions \subseteq Versions
    /\ \A u \in Uploads : u \in Tiles /\ u \in Writers
    /\ \A r \in Remotes : r \in Writers
    /\ \A r \in Remotes, v \in Versions : <<r, v>> \in Tiles
BY RemoteVersionsAssumption, PutVersionsAssumption
   DEF VersionOrNone, Tiles, Writers

LEMMA TypeInit == Init => TypeInv
<1> SUFFICES ASSUME Init PROVE TypeInv
  OBVIOUS
<1>1. mapRow \in BOOLEAN
  BY DEF Init, DbInit
<1>2. DbTypeOK
  BY <1>1, TypeFacts DEF Init, DbInit, DbTypeOK
<1>3. QED
  BY <1>2, TypeFacts
     DEF Init, DirInit, TypeInv, TypeOK, DirTypeOK,
         UploadStates, SyncStates, DeleteStates

LEMMA TypeStep == TypeInv /\ [Next]_vars => TypeInv'
<1> USE TypeFacts
    DEF TypeInv, TypeOK, DbTypeOK, DirTypeOK, UploadStates, SyncStates,
        DeleteStates, dbVars, dirVars, uploadVars, syncVars, deleteVars
<1> SUFFICES ASSUME TypeInv, [Next]_vars PROVE TypeInv'
  OBVIOUS
<1>1. ASSUME NEW u \in Uploads, UploadExtract(u) PROVE TypeInv'
  BY <1>1 DEF UploadExtract, ExtractArchive, UploadGoto
<1>2. ASSUME NEW u \in Uploads, UploadMapNotFound(u) PROVE TypeInv'
  BY <1>2 DEF UploadMapNotFound, RemoveStaging, UploadGoto
<1>3. ASSUME NEW u \in Uploads, UploadIncrementBegin(u) PROVE TypeInv'
  BY <1>3 DEF UploadIncrementBegin, IncrementBegin, UploadGoto
<1>4. ASSUME NEW u \in Uploads, UploadIncrementCommit(u) PROVE TypeInv'
  BY <1>4 DEF UploadIncrementCommit, IncrementCommit, UploadGoto
<1>5. ASSUME NEW u \in Uploads, UploadIncrementRollback(u) PROVE TypeInv'
  BY <1>5 DEF UploadIncrementRollback, IncrementRollback, RemoveStaging, UploadGoto
<1>6. ASSUME NEW u \in Uploads, UploadRename(u) PROVE TypeInv'
  BY <1>6 DEF UploadRename, Rename, CanRename, UploadGoto
<1>7. ASSUME NEW u \in Uploads, UploadRenameFails(u) PROVE TypeInv'
  BY <1>7 DEF UploadRenameFails, RemoveStaging, UploadGoto
<1>8. ASSUME NEW r \in Remotes, SyncUpsert(r) PROVE TypeInv'
  BY <1>8 DEF SyncUpsert, UpsertSyncedMap, SyncGoto
<1>9. ASSUME NEW r \in Remotes, SyncList(r) PROVE TypeInv'
  BY <1>9 DEF SyncList, SyncGoto
<1>10. ASSUME NEW r \in Remotes, SyncAdvance(r) PROVE TypeInv'
  BY <1>10 DEF SyncAdvance, SetSyncedCurrentVersion, HasMapVersion, SyncGoto
<1>11. ASSUME NEW r \in Remotes, SyncFails(r) PROVE TypeInv'
  BY <1>11 DEF SyncFails, RemoveStaging, SyncGoto
<1>12. ASSUME NEW r \in Remotes, NEW v \in Versions, PullSkip(r, v) PROVE TypeInv'
  BY <1>12 DEF PullSkip
<1>13. ASSUME NEW r \in Remotes, NEW v \in Versions, PullStart(r, v) PROVE TypeInv'
  BY <1>13 DEF PullStart, SyncGoto
<1>14. ASSUME NEW r \in Remotes, NEW v \in Versions, PullExtract(r, v) PROVE TypeInv'
  BY <1>14 DEF PullExtract, ExtractArchive, SyncGoto
<1>15. ASSUME NEW r \in Remotes, NEW v \in Versions, PullClear(r, v) PROVE TypeInv'
  BY <1>15 DEF PullClear, RemoveVersionDir, SyncGoto
<1>16. ASSUME NEW r \in Remotes, NEW v \in Versions, PullRename(r, v) PROVE TypeInv'
  BY <1>16 DEF PullRename, Rename, CanRename, SyncGoto
<1>17. ASSUME NEW r \in Remotes, NEW v \in Versions, PullRecord(r, v) PROVE TypeInv'
  BY <1>17 DEF PullRecord, RecordSyncedMapVersion, SyncGoto
<1>18. ASSUME NEW v \in PutVersions, PutMap(v) PROVE TypeInv'
  BY <1>18 DEF PutMap, UpdateMap
<1>19. ASSUME NEW d \in Deletes, DeleteRow(d) PROVE TypeInv'
  <2>1. mapRow' \in BOOLEAN
    BY <1>19 DEF DeleteRow, DeleteMap
  <2>2. QED
    BY <1>19, <2>1 DEF DeleteRow, DeleteMap
<1>20. ASSUME NEW d \in Deletes, DeleteNotFound(d) PROVE TypeInv'
  BY <1>20 DEF DeleteNotFound
<1>21. ASSUME NEW d \in Deletes, DeleteFiles(d) PROVE TypeInv'
  BY <1>21 DEF DeleteFiles, RemoveMapDir
<1>22. ASSUME Crash PROVE TypeInv'
  BY <1>22 DEF Crash, DbCrash, DirCrash
<1>23. CASE UNCHANGED vars
  BY <1>23 DEF vars
<1>24. QED
  BY <1>1, <1>2, <1>3, <1>4, <1>5, <1>6, <1>7, <1>8, <1>9, <1>10, <1>11,
     <1>12, <1>13, <1>14, <1>15, <1>16, <1>17, <1>18, <1>19, <1>20, <1>21,
     <1>22, <1>23 DEF Next, UploadStep, SyncStep

\* Every variable keeps its type in every interleaving of the handlers, the
\* sync passes and crashes.
THEOREM TypeCorrect == Spec => []TypeOK
<1>1. TypeInv => TypeOK
  BY DEF TypeInv
<1>2. QED
  BY <1>1, TypeInit, TypeStep, PTL DEF Spec

-----------------------------------------------------------------------------
(***************************************************************************)
(* Version assignment                                                      *)
(***************************************************************************)

\* UploadVersionsDistinct is not inductive.  It needs that an upload inside
\* its transaction has the row lock and a version nobody has recorded, and
\* that a version assigned in this era of the map is still recorded.
AssignInv ==
    /\ \A u \in Uploads :
        upc[u] = "locked" => rowLock = {u} /\ uver[u] \notin recorded
    /\ \A u \in Uploads :
        Assigned(u) =>
            /\ uera[u] <= era
            /\ uera[u] = era => uver[u] \in recorded
    /\ UploadVersionsDistinct

\* The version after the last one is not recorded.
LEMMA NextIsFresh ==
    ASSUME DbTypeOK, NEW n \in Versions, IsLastVersion(n - 1)
    PROVE  n \notin recorded
BY DEF DbTypeOK, IsLastVersion, Versions, NoVersion

LEMMA AssignInit == Init => AssignInv
BY DEF Init, AssignInv, Assigned, UploadVersionsDistinct

LEMMA AssignStep == TypeInv /\ AssignInv /\ [Next]_vars => AssignInv'
<1> USE DEF TypeInv, TypeOK, DbTypeOK, AssignInv, Assigned,
        UploadVersionsDistinct, RowFree, UploadStates,
        dbVars, dirVars, uploadVars, syncVars, deleteVars
<1> SUFFICES ASSUME TypeInv, AssignInv, [Next]_vars PROVE AssignInv'
  OBVIOUS
<1>1. ASSUME NEW u \in Uploads, UploadExtract(u) PROVE AssignInv'
  BY <1>1 DEF UploadExtract, ExtractArchive, UploadGoto
<1>2. ASSUME NEW u \in Uploads, UploadMapNotFound(u) PROVE AssignInv'
  BY <1>2 DEF UploadMapNotFound, RemoveStaging, UploadGoto
<1>3. ASSUME NEW u \in Uploads, UploadIncrementBegin(u) PROVE AssignInv'
  BY <1>3, NextIsFresh DEF UploadIncrementBegin, IncrementBegin, UploadGoto
<1>4. ASSUME NEW u \in Uploads, UploadIncrementCommit(u) PROVE AssignInv'
  BY <1>4 DEF UploadIncrementCommit, IncrementCommit, UploadGoto
<1>5. ASSUME NEW u \in Uploads, UploadIncrementRollback(u) PROVE AssignInv'
  BY <1>5 DEF UploadIncrementRollback, IncrementRollback, RemoveStaging, UploadGoto
<1>6. ASSUME NEW u \in Uploads, UploadRename(u) PROVE AssignInv'
  BY <1>6 DEF UploadRename, Rename, CanRename, UploadGoto
<1>7. ASSUME NEW u \in Uploads, UploadRenameFails(u) PROVE AssignInv'
  BY <1>7 DEF UploadRenameFails, RemoveStaging, UploadGoto
<1>8. ASSUME NEW r \in Remotes, SyncUpsert(r) PROVE AssignInv'
  BY <1>8 DEF SyncUpsert, UpsertSyncedMap, SyncGoto
<1>9. ASSUME NEW r \in Remotes, SyncList(r) PROVE AssignInv'
  BY <1>9 DEF SyncList, SyncGoto
<1>10. ASSUME NEW r \in Remotes, SyncAdvance(r) PROVE AssignInv'
  BY <1>10 DEF SyncAdvance, SetSyncedCurrentVersion, HasMapVersion, SyncGoto
<1>11. ASSUME NEW r \in Remotes, SyncFails(r) PROVE AssignInv'
  BY <1>11 DEF SyncFails, RemoveStaging, SyncGoto
<1>12. ASSUME NEW r \in Remotes, NEW v \in Versions, PullSkip(r, v)
      PROVE  AssignInv'
  BY <1>12 DEF PullSkip
<1>13. ASSUME NEW r \in Remotes, NEW v \in Versions, PullStart(r, v)
      PROVE  AssignInv'
  BY <1>13 DEF PullStart, HasMapVersion, SyncGoto
<1>14. ASSUME NEW r \in Remotes, NEW v \in Versions, PullExtract(r, v)
      PROVE  AssignInv'
  BY <1>14 DEF PullExtract, ExtractArchive, SyncGoto
<1>15. ASSUME NEW r \in Remotes, NEW v \in Versions, PullClear(r, v)
      PROVE  AssignInv'
  BY <1>15 DEF PullClear, RemoveVersionDir, SyncGoto
<1>16. ASSUME NEW r \in Remotes, NEW v \in Versions, PullRename(r, v)
      PROVE  AssignInv'
  BY <1>16 DEF PullRename, Rename, CanRename, SyncGoto
<1>17. ASSUME NEW r \in Remotes, NEW v \in Versions, PullRecord(r, v)
      PROVE  AssignInv'
  BY <1>17 DEF PullRecord, RecordSyncedMapVersion, SyncGoto
<1>18. ASSUME NEW v \in PutVersions, PutMap(v) PROVE AssignInv'
  BY <1>18 DEF PutMap, UpdateMap
<1>19. ASSUME NEW d \in Deletes, DeleteRow(d) PROVE AssignInv'
  BY <1>19 DEF DeleteRow, DeleteMap
<1>20. ASSUME NEW d \in Deletes, DeleteNotFound(d) PROVE AssignInv'
  BY <1>20 DEF DeleteNotFound
<1>21. ASSUME NEW d \in Deletes, DeleteFiles(d) PROVE AssignInv'
  BY <1>21 DEF DeleteFiles, RemoveMapDir
<1>22. ASSUME Crash PROVE AssignInv'
  BY <1>22 DEF Crash, DbCrash, DirCrash
<1>23. CASE UNCHANGED vars
  BY <1>23 DEF vars
<1>24. QED
  BY <1>1, <1>2, <1>3, <1>4, <1>5, <1>6, <1>7, <1>8, <1>9, <1>10, <1>11,
     <1>12, <1>13, <1>14, <1>15, <1>16, <1>17, <1>18, <1>19, <1>20, <1>21,
     <1>22, <1>23 DEF Next, UploadStep, SyncStep

\* No two uploads are assigned the same version of one incarnation of the
\* map, for every interleaving of any number of uploads, pulls, PUTs, deletes
\* and crashes: the row lock makes "read the maximum, store its successor"
\* atomic against every other writer of map_versions.
THEOREM UploadsGetDistinctVersions == Spec => []UploadVersionsDistinct
<1>1. AssignInv => UploadVersionsDistinct
  BY DEF AssignInv
<1>2. QED
  BY <1>1, TypeInit, TypeStep, AssignInit, AssignStep, PTL DEF Spec

\* The row lock is held by an upload inside its transaction or by nobody.
LockInv == \A u \in Uploads : u \in rowLock <=> upc[u] = "locked"

LEMMA LockStep == TypeInv /\ AssignInv /\ LockInv /\ [Next]_vars => LockInv'
<1> USE DEF TypeInv, TypeOK, DbTypeOK, AssignInv, LockInv, UploadStates,
        UploadGoto, dbVars, uploadVars
<1> SUFFICES ASSUME TypeInv, AssignInv, LockInv, [Next]_vars PROVE LockInv'
  OBVIOUS
<1>1. ASSUME NEW u \in Uploads, UploadIncrementBegin(u) PROVE LockInv'
  BY <1>1 DEF UploadIncrementBegin, IncrementBegin, RowFree
<1>2. ASSUME NEW u \in Uploads,
             UploadIncrementCommit(u) \/ UploadIncrementRollback(u)
      PROVE  LockInv'
  BY <1>2 DEF UploadIncrementCommit, UploadIncrementRollback, IncrementCommit,
     IncrementRollback
<1>3. ASSUME NEW u \in Uploads,
             \/ UploadExtract(u) \/ UploadMapNotFound(u)
             \/ UploadRename(u) \/ UploadRenameFails(u)
      PROVE  LockInv'
  BY <1>3 DEF UploadExtract, UploadMapNotFound, UploadRename, UploadRenameFails
<1>4. ASSUME NEW r \in Remotes, SyncStep(r) PROVE LockInv'
  BY <1>4 DEF SyncStep, SyncUpsert, SyncList, SyncAdvance, SyncFails,
     PullSkip, PullStart, PullExtract, PullClear, PullRename, PullRecord,
     UpsertSyncedMap, RecordSyncedMapVersion, SetSyncedCurrentVersion
<1>5. ASSUME NEW v \in PutVersions, PutMap(v) PROVE LockInv'
  BY <1>5 DEF PutMap, UpdateMap
<1>6. ASSUME NEW d \in Deletes, DeleteRow(d) \/ DeleteNotFound(d) \/ DeleteFiles(d)
      PROVE  LockInv'
  BY <1>6 DEF DeleteRow, DeleteMap, DeleteNotFound, DeleteFiles
<1>7. CASE Crash
  BY <1>7 DEF Crash, DbCrash
<1>8. CASE UNCHANGED vars
  BY <1>8 DEF vars
<1>9. QED
  BY <1>1, <1>2, <1>3, <1>4, <1>5, <1>6, <1>7, <1>8 DEF Next, UploadStep

\* Nobody waits for a lock that nobody will release: whoever holds the row
\* lock is an upload whose next step commits or rolls back, and the lock does
\* not outlive its transaction in a failure or a crash.
THEOREM RowLockHeldAtWork ==
    Spec => [](\A u \in Uploads : u \in rowLock <=> upc[u] = "locked")
<1>1. Init => LockInv
  BY DEF Init, DbInit, LockInv
<1>2. QED
  BY <1>1, TypeInit, TypeStep, AssignInit, AssignStep, LockStep, PTL
     DEF Spec, LockInv

-----------------------------------------------------------------------------
(***************************************************************************)
(* Where tiles are filed                                                   *)
(***************************************************************************)

\* A writer's staging directory holds its own tiles, and a pull's tiles are
\* those of the version it is working on until it has renamed them.
TilesInv ==
    /\ \A u \in Uploads : staging[u] \in {u, NoTiles}
    /\ \A r \in Remotes, v \in Versions :
        spc[r] \in {"clearing", "renaming"} /\ Pulling(r, v)
            => staging[r] \in {<<r, v>>, NoTiles}
    /\ TilesBelongToVersion

LEMMA TilesInit == Init => TilesInv
BY DEF Init, DirInit, TilesInv, TilesBelongToVersion, Writers

\* A pass pulls one version at a time, the smallest.
LEMMA PullingIsUnique ==
    ASSUME TypeOK, NEW r \in Remotes, NEW v \in Versions, NEW w \in Versions,
           Pulling(r, v), Pulling(r, w)
    PROVE  v = w
BY DEF TypeOK, Pulling, Versions

LEMMA TilesStep == TypeInv /\ TilesInv /\ [Next]_vars => TilesInv'
<1> USE TypeFacts, WritersAssumption, TilesAssumption
    DEF TypeInv, TypeOK, DirTypeOK, TilesInv, TilesBelongToVersion, Assigned,
        Pulling, SyncStates, UploadStates,
        dbVars, dirVars, uploadVars, syncVars, deleteVars
<1> SUFFICES ASSUME TypeInv, TilesInv, [Next]_vars PROVE TilesInv'
  OBVIOUS
<1>1. ASSUME NEW u \in Uploads, UploadExtract(u) PROVE TilesInv'
  BY <1>1 DEF UploadExtract, ExtractArchive, UploadGoto
<1>2. ASSUME NEW u \in Uploads, UploadMapNotFound(u) PROVE TilesInv'
  BY <1>2 DEF UploadMapNotFound, RemoveStaging, UploadGoto
<1>3. ASSUME NEW u \in Uploads, UploadIncrementBegin(u) PROVE TilesInv'
  BY <1>3 DEF UploadIncrementBegin, IncrementBegin, UploadGoto
<1>4. ASSUME NEW u \in Uploads, UploadIncrementCommit(u) PROVE TilesInv'
  BY <1>4 DEF UploadIncrementCommit, IncrementCommit, UploadGoto
<1>5. ASSUME NEW u \in Uploads, UploadIncrementRollback(u) PROVE TilesInv'
  BY <1>5 DEF UploadIncrementRollback, IncrementRollback, RemoveStaging, UploadGoto
<1>6. ASSUME NEW u \in Uploads, UploadRename(u) PROVE TilesInv'
  BY <1>6 DEF UploadRename, Rename, CanRename, UploadGoto
<1>7. ASSUME NEW u \in Uploads, UploadRenameFails(u) PROVE TilesInv'
  BY <1>7 DEF UploadRenameFails, RemoveStaging, UploadGoto
<1>8. ASSUME NEW r \in Remotes, SyncUpsert(r) PROVE TilesInv'
  BY <1>8 DEF SyncUpsert, UpsertSyncedMap, SyncGoto
<1>9. ASSUME NEW r \in Remotes, SyncList(r) PROVE TilesInv'
  BY <1>9 DEF SyncList, SyncGoto
<1>10. ASSUME NEW r \in Remotes, SyncAdvance(r) PROVE TilesInv'
  BY <1>10 DEF SyncAdvance, SetSyncedCurrentVersion, HasMapVersion, SyncGoto
<1>11. ASSUME NEW r \in Remotes, SyncFails(r) PROVE TilesInv'
  BY <1>11 DEF SyncFails, RemoveStaging, SyncGoto
<1>12. ASSUME NEW r \in Remotes, NEW v \in Versions, PullSkip(r, v)
      PROVE  TilesInv'
  BY <1>12 DEF PullSkip
<1>13. ASSUME NEW r \in Remotes, NEW v \in Versions, PullStart(r, v)
      PROVE  TilesInv'
  BY <1>13 DEF PullStart, HasMapVersion, SyncGoto
<1>14. ASSUME NEW r \in Remotes, NEW v \in Versions, PullExtract(r, v)
      PROVE  TilesInv'
  BY <1>14, PullingIsUnique DEF PullExtract, ExtractArchive, SyncGoto
<1>15. ASSUME NEW r \in Remotes, NEW v \in Versions, PullClear(r, v)
      PROVE  TilesInv'
  BY <1>15 DEF PullClear, RemoveVersionDir, SyncGoto
<1>16. ASSUME NEW r \in Remotes, NEW v \in Versions, PullRename(r, v)
      PROVE  TilesInv'
  BY <1>16 DEF PullRename, Rename, CanRename, SyncGoto
<1>17. ASSUME NEW r \in Remotes, NEW v \in Versions, PullRecord(r, v)
      PROVE  TilesInv'
  BY <1>17 DEF PullRecord, RecordSyncedMapVersion, SyncGoto
<1>18. ASSUME NEW v \in PutVersions, PutMap(v) PROVE TilesInv'
  BY <1>18 DEF PutMap, UpdateMap
<1>19. ASSUME NEW d \in Deletes, DeleteRow(d) PROVE TilesInv'
  BY <1>19 DEF DeleteRow, DeleteMap
<1>20. ASSUME NEW d \in Deletes, DeleteNotFound(d) PROVE TilesInv'
  BY <1>20 DEF DeleteNotFound
<1>21. ASSUME NEW d \in Deletes, DeleteFiles(d) PROVE TilesInv'
  BY <1>21 DEF DeleteFiles, RemoveMapDir
<1>22. ASSUME Crash PROVE TilesInv'
  BY <1>22 DEF Crash, DbCrash, DirCrash
<1>23. CASE UNCHANGED vars
  BY <1>23 DEF vars
<1>24. QED
  BY <1>1, <1>2, <1>3, <1>4, <1>5, <1>6, <1>7, <1>8, <1>9, <1>10, <1>11,
     <1>12, <1>13, <1>14, <1>15, <1>16, <1>17, <1>18, <1>19, <1>20, <1>21,
     <1>22, <1>23 DEF Next, UploadStep, SyncStep

\* Every directory holds the tiles of exactly its version.
THEOREM TilesFiledUnderTheirVersion == Spec => []TilesBelongToVersion
<1>1. TilesInv => TilesBelongToVersion
  BY DEF TilesInv
<1>2. QED
  BY <1>1, TypeInit, TypeStep, TilesInit, TilesStep, PTL DEF Spec

-----------------------------------------------------------------------------
(***************************************************************************)
(* A map that no remote mirrors                                            *)
(***************************************************************************)

\* A deleted map does not come back, so a handler that still has to remove
\* its directory cannot hit a living map.
LocalInv ==
    /\ PublishedUploadKept
    /\ \A d \in Deletes : dpc[d] = "removing" => ~mapRow

LEMMA LocalInit == Init => LocalInv
BY DEF Init, LocalInv, PublishedUploadKept

LEMMA LocalStep ==
    ASSUME Remotes = {}
    PROVE  TypeInv /\ TilesInv /\ LocalInv /\ [Next]_vars => LocalInv'
<1> USE TypeFacts, TilesAssumption
    DEF TypeInv, TypeOK, DbTypeOK, DirTypeOK, TilesInv, LocalInv,
        PublishedUploadKept, UploadStates, DeleteStates,
        dbVars, dirVars, uploadVars, syncVars, deleteVars
<1> SUFFICES ASSUME TypeInv, TilesInv, LocalInv, [Next]_vars PROVE LocalInv'
  OBVIOUS
<1>1. ASSUME NEW u \in Uploads, UploadExtract(u) PROVE LocalInv'
  BY <1>1 DEF UploadExtract, ExtractArchive, UploadGoto
<1>2. ASSUME NEW u \in Uploads, UploadMapNotFound(u) PROVE LocalInv'
  BY <1>2 DEF UploadMapNotFound, RemoveStaging, UploadGoto
<1>3. ASSUME NEW u \in Uploads, UploadIncrementBegin(u) PROVE LocalInv'
  BY <1>3 DEF UploadIncrementBegin, IncrementBegin, UploadGoto
<1>4. ASSUME NEW u \in Uploads, UploadIncrementCommit(u) PROVE LocalInv'
  BY <1>4 DEF UploadIncrementCommit, IncrementCommit, UploadGoto
<1>5. ASSUME NEW u \in Uploads, UploadIncrementRollback(u) PROVE LocalInv'
  BY <1>5 DEF UploadIncrementRollback, IncrementRollback, RemoveStaging, UploadGoto
<1>6. ASSUME NEW u \in Uploads, UploadRename(u) PROVE LocalInv'
  BY <1>6 DEF UploadRename, Rename, CanRename, UploadGoto
<1>7. ASSUME NEW u \in Uploads, UploadRenameFails(u) PROVE LocalInv'
  BY <1>7 DEF UploadRenameFails, RemoveStaging, UploadGoto
<1>8. ASSUME NEW r \in Remotes, SyncUpsert(r) PROVE LocalInv'
  BY <1>8 DEF SyncUpsert, UpsertSyncedMap, SyncGoto
<1>9. ASSUME NEW r \in Remotes, SyncList(r) PROVE LocalInv'
  BY <1>9 DEF SyncList, SyncGoto
<1>10. ASSUME NEW r \in Remotes, SyncAdvance(r) PROVE LocalInv'
  BY <1>10 DEF SyncAdvance, SetSyncedCurrentVersion, HasMapVersion, SyncGoto
<1>11. ASSUME NEW r \in Remotes, SyncFails(r) PROVE LocalInv'
  BY <1>11 DEF SyncFails, RemoveStaging, SyncGoto
<1>12. ASSUME NEW r \in Remotes, NEW v \in Versions, PullSkip(r, v)
      PROVE  LocalInv'
  BY <1>12 DEF PullSkip
<1>13. ASSUME NEW r \in Remotes, NEW v \in Versions, PullStart(r, v)
      PROVE  LocalInv'
  BY <1>13 DEF PullStart, HasMapVersion, SyncGoto
<1>14. ASSUME NEW r \in Remotes, NEW v \in Versions, PullExtract(r, v)
      PROVE  LocalInv'
  BY <1>14 DEF PullExtract, ExtractArchive, SyncGoto
<1>15. ASSUME NEW r \in Remotes, NEW v \in Versions, PullClear(r, v)
      PROVE  LocalInv'
  BY <1>15 DEF PullClear, RemoveVersionDir, SyncGoto
<1>16. ASSUME NEW r \in Remotes, NEW v \in Versions, PullRename(r, v)
      PROVE  LocalInv'
  BY <1>16 DEF PullRename, Rename, CanRename, SyncGoto
<1>17. ASSUME NEW r \in Remotes, NEW v \in Versions, PullRecord(r, v)
      PROVE  LocalInv'
  BY <1>17 DEF PullRecord, RecordSyncedMapVersion, SyncGoto
<1>18. ASSUME NEW v \in PutVersions, PutMap(v) PROVE LocalInv'
  BY <1>18 DEF PutMap, UpdateMap
<1>19. ASSUME NEW d \in Deletes, DeleteRow(d) PROVE LocalInv'
  BY <1>19 DEF DeleteRow, DeleteMap
<1>20. ASSUME NEW d \in Deletes, DeleteNotFound(d) PROVE LocalInv'
  BY <1>20 DEF DeleteNotFound
<1>21. ASSUME NEW d \in Deletes, DeleteFiles(d) PROVE LocalInv'
  BY <1>21 DEF DeleteFiles, RemoveMapDir
<1>22. ASSUME Crash PROVE LocalInv'
  BY <1>22 DEF Crash, DbCrash, DirCrash
<1>23. CASE UNCHANGED vars
  BY <1>23 DEF vars
<1>24. QED
  BY <1>1, <1>2, <1>3, <1>4, <1>5, <1>6, <1>7, <1>8, <1>9, <1>10, <1>11,
     <1>12, <1>13, <1>14, <1>15, <1>16, <1>17, <1>18, <1>19, <1>20, <1>21,
     <1>22, <1>23 DEF Next, UploadStep, SyncStep

\* Without sync, an upload answered with 201 keeps its tiles until the map is
\* deleted: no later upload, PUT or crash touches them.
THEOREM PublishedUploadsAreKept ==
    ASSUME Remotes = {}
    PROVE  Spec => []PublishedUploadKept
<1>1. LocalInv => PublishedUploadKept
  BY DEF LocalInv
<1>2. QED
  BY <1>1, TypeInit, TypeStep, TilesInit, TilesStep, LocalInit, LocalStep, PTL
     DEF Spec

-----------------------------------------------------------------------------
(***************************************************************************)
(* A map that one remote mirrors and nobody uploads to or deletes          *)
(***************************************************************************)

\* What the pull has done when it reaches each of its steps.
MirrorInv ==
    /\ \A v \in recorded : dirs[v] # NoTiles
    /\ \A r \in Remotes, v \in Versions : Pulling(r, v) =>
        /\ spc[r] \in {"fetching", "clearing", "renaming", "recording"}
            => v \notin recorded
        /\ spc[r] = "recording" => dirs[v] # NoTiles
    /\ currentVersion # NoVersion => currentVersion \in recorded

LEMMA MirrorInit == ASSUME PutVersions = {} PROVE Init => MirrorInv
BY DEF Init, DbInit, MirrorInv

LEMMA MirrorStep ==
    ASSUME Uploads = {}, Deletes = {}, PutVersions = {},
           \A r, s \in Remotes : r = s
    PROVE  TypeInv /\ MirrorInv /\ [Next]_vars => MirrorInv'
<1> USE TypeFacts, TilesAssumption
    DEF TypeInv, TypeOK, DbTypeOK, DirTypeOK, MirrorInv, Pulling, SyncStates,
        dbVars, dirVars, uploadVars, syncVars, deleteVars
<1> SUFFICES ASSUME TypeInv, MirrorInv, [Next]_vars PROVE MirrorInv'
  OBVIOUS
<1>1. ASSUME NEW u \in Uploads, UploadExtract(u) PROVE MirrorInv'
  BY <1>1 DEF UploadExtract, ExtractArchive, UploadGoto
<1>2. ASSUME NEW u \in Uploads, UploadMapNotFound(u) PROVE MirrorInv'
  BY <1>2 DEF UploadMapNotFound, RemoveStaging, UploadGoto
<1>3. ASSUME NEW u \in Uploads, UploadIncrementBegin(u) PROVE MirrorInv'
  BY <1>3 DEF UploadIncrementBegin, IncrementBegin, UploadGoto
<1>4. ASSUME NEW u \in Uploads, UploadIncrementCommit(u) PROVE MirrorInv'
  BY <1>4 DEF UploadIncrementCommit, IncrementCommit, UploadGoto
<1>5. ASSUME NEW u \in Uploads, UploadIncrementRollback(u) PROVE MirrorInv'
  BY <1>5 DEF UploadIncrementRollback, IncrementRollback, RemoveStaging, UploadGoto
<1>6. ASSUME NEW u \in Uploads, UploadRename(u) PROVE MirrorInv'
  BY <1>6 DEF UploadRename, Rename, CanRename, UploadGoto
<1>7. ASSUME NEW u \in Uploads, UploadRenameFails(u) PROVE MirrorInv'
  BY <1>7 DEF UploadRenameFails, RemoveStaging, UploadGoto
<1>8. ASSUME NEW r \in Remotes, SyncUpsert(r) PROVE MirrorInv'
  BY <1>8 DEF SyncUpsert, UpsertSyncedMap, SyncGoto
<1>9. ASSUME NEW r \in Remotes, SyncList(r) PROVE MirrorInv'
  BY <1>9 DEF SyncList, SyncGoto
<1>10. ASSUME NEW r \in Remotes, SyncAdvance(r) PROVE MirrorInv'
  BY <1>10 DEF SyncAdvance, SetSyncedCurrentVersion, HasMapVersion, SyncGoto
<1>11. ASSUME NEW r \in Remotes, SyncFails(r) PROVE MirrorInv'
  BY <1>11 DEF SyncFails, RemoveStaging, SyncGoto
<1>12. ASSUME NEW r \in Remotes, NEW v \in Versions, PullSkip(r, v)
      PROVE  MirrorInv'
  BY <1>12 DEF PullSkip
<1>13. ASSUME NEW r \in Remotes, NEW v \in Versions, PullStart(r, v)
      PROVE  MirrorInv'
  BY <1>13, PullingIsUnique DEF PullStart, HasMapVersion, SyncGoto
<1>14. ASSUME NEW r \in Remotes, NEW v \in Versions, PullExtract(r, v)
      PROVE  MirrorInv'
  BY <1>14 DEF PullExtract, ExtractArchive, SyncGoto
<1>15. ASSUME NEW r \in Remotes, NEW v \in Versions, PullClear(r, v)
      PROVE  MirrorInv'
  BY <1>15 DEF PullClear, RemoveVersionDir, SyncGoto
<1>16. ASSUME NEW r \in Remotes, NEW v \in Versions, PullRename(r, v)
      PROVE  MirrorInv'
  BY <1>16, PullingIsUnique DEF PullRename, Rename, CanRename, SyncGoto
<1>17. ASSUME NEW r \in Remotes, NEW v \in Versions, PullRecord(r, v)
      PROVE  MirrorInv'
  BY <1>17 DEF PullRecord, RecordSyncedMapVersion, SyncGoto
<1>18. ASSUME NEW v \in PutVersions, PutMap(v) PROVE MirrorInv'
  BY <1>18 DEF PutMap, UpdateMap
<1>19. ASSUME NEW d \in Deletes, DeleteRow(d) PROVE MirrorInv'
  BY <1>19 DEF DeleteRow, DeleteMap
<1>20. ASSUME NEW d \in Deletes, DeleteNotFound(d) PROVE MirrorInv'
  BY <1>20 DEF DeleteNotFound
<1>21. ASSUME NEW d \in Deletes, DeleteFiles(d) PROVE MirrorInv'
  BY <1>21 DEF DeleteFiles, RemoveMapDir
<1>22. ASSUME Crash PROVE MirrorInv'
  BY <1>22 DEF Crash, DbCrash, DirCrash
<1>23. CASE UNCHANGED vars
  BY <1>23 DEF vars
<1>24. QED
  BY <1>1, <1>2, <1>3, <1>4, <1>5, <1>6, <1>7, <1>8, <1>9, <1>10, <1>11,
     <1>12, <1>13, <1>14, <1>15, <1>16, <1>17, <1>18, <1>19, <1>20, <1>21,
     <1>22, <1>23 DEF Next, UploadStep, SyncStep

\* With one remote as the only writer, map_versions is the source of truth
\* pullVersion takes it for: through failures and crashes, a recorded version
\* always has its directory.
THEOREM MirrorRecordedOnDisk ==
    ASSUME Uploads = {}, Deletes = {}, PutVersions = {},
           \A r, s \in Remotes : r = s
    PROVE  Spec => []RecordedOnDisk
<1>1. MirrorInv => RecordedOnDisk
  BY DEF MirrorInv, RecordedOnDisk
<1>2. QED
  BY <1>1, TypeInit, TypeStep, MirrorInit, MirrorStep, PTL DEF Spec

\* Under the same conditions the version that "current" resolves to can be
\* served.
THEOREM MirrorCurrentServable ==
    ASSUME Uploads = {}, Deletes = {}, PutVersions = {},
           \A r, s \in Remotes : r = s
    PROVE  Spec => []CurrentServable
<1>1. MirrorInv => CurrentServable
  BY DEF MirrorInv, CurrentServable
<1>2. QED
  BY <1>1, TypeInit, TypeStep, MirrorInit, MirrorStep, PTL DEF Spec

\* And a version once recorded keeps its tiles: a pull clears a directory
\* only while its version is not recorded.
THEOREM MirrorRecordedImmutable ==
    ASSUME Uploads = {}, Deletes = {}, PutVersions = {},
           \A r, s \in Remotes : r = s
    PROVE  Spec => RecordedImmutable
<1> DEFINE Kept == \A v \in Versions :
        v \in recorded /\ v \in recorded' /\ dirs[v] # NoTiles
            => dirs'[v] = dirs[v]
<1>1. ASSUME TypeInv, MirrorInv, [Next]_vars PROVE Kept
  <2> USE <1>1 DEF TypeInv, TypeOK, DirTypeOK, MirrorInv,
          dbVars, dirVars, uploadVars, syncVars, deleteVars
  <2>1. ASSUME NEW u \in Uploads, UploadExtract(u) PROVE Kept
    BY <2>1 DEF UploadExtract, ExtractArchive, UploadGoto
  <2>2. ASSUME NEW u \in Uploads, UploadMapNotFound(u) PROVE Kept
    BY <2>2 DEF UploadMapNotFound, RemoveStaging, UploadGoto
  <2>3. ASSUME NEW u \in Uploads, UploadIncrementBegin(u) PROVE Kept
    BY <2>3 DEF UploadIncrementBegin, IncrementBegin, UploadGoto
  <2>4. ASSUME NEW u \in Uploads, UploadIncrementCommit(u) PROVE Kept
    BY <2>4 DEF UploadIncrementCommit, IncrementCommit, UploadGoto
  <2>5. ASSUME NEW u \in Uploads, UploadIncrementRollback(u) PROVE Kept
    BY <2>5 DEF UploadIncrementRollback, IncrementRollback, RemoveStaging, UploadGoto
  <2>6. ASSUME NEW u \in Uploads, UploadRename(u) PROVE Kept
    BY <2>6 DEF UploadRename, Rename, CanRename, UploadGoto
  <2>7. ASSUME NEW u \in Uploads, UploadRenameFails(u) PROVE Kept
    BY <2>7 DEF UploadRenameFails, RemoveStaging, UploadGoto
  <2>8. ASSUME NEW r \in Remotes, SyncUpsert(r) PROVE Kept
    BY <2>8 DEF SyncUpsert, UpsertSyncedMap, SyncGoto
  <2>9. ASSUME NEW r \in Remotes, SyncList(r) PROVE Kept
    BY <2>9 DEF SyncList, SyncGoto
  <2>10. ASSUME NEW r \in Remotes, SyncAdvance(r) PROVE Kept
    BY <2>10 DEF SyncAdvance, SetSyncedCurrentVersion, HasMapVersion, SyncGoto
  <2>11. ASSUME NEW r \in Remotes, SyncFails(r) PROVE Kept
    BY <2>11 DEF SyncFails, RemoveStaging, SyncGoto
  <2>12. ASSUME NEW r \in Remotes, NEW v \in Versions, PullSkip(r, v)
        PROVE  Kept
    BY <2>12 DEF PullSkip
  <2>13. ASSUME NEW r \in Remotes, NEW v \in Versions, PullStart(r, v)
        PROVE  Kept
    BY <2>13 DEF PullStart, HasMapVersion, SyncGoto
  <2>14. ASSUME NEW r \in Remotes, NEW v \in Versions, PullExtract(r, v)
        PROVE  Kept
    BY <2>14 DEF PullExtract, ExtractArchive, SyncGoto
  <2>15. ASSUME NEW r \in Remotes, NEW v \in Versions, PullClear(r, v)
        PROVE  Kept
    BY <2>15 DEF PullClear, RemoveVersionDir, SyncGoto
  <2>16. ASSUME NEW r \in Remotes, NEW v \in Versions, PullRename(r, v)
        PROVE  Kept
    BY <2>16 DEF PullRename, Rename, CanRename, SyncGoto
  <2>17. ASSUME NEW r \in Remotes, NEW v \in Versions, PullRecord(r, v)
        PROVE  Kept
    BY <2>17 DEF PullRecord, RecordSyncedMapVersion, SyncGoto
  <2>18. ASSUME NEW v \in PutVersions, PutMap(v) PROVE Kept
    BY <2>18 DEF PutMap, UpdateMap
  <2>19. ASSUME NEW d \in Deletes, DeleteRow(d) PROVE Kept
    BY <2>19 DEF DeleteRow, DeleteMap
  <2>20. ASSUME NEW d \in Deletes, DeleteNotFound(d) PROVE Kept
    BY <2>20 DEF DeleteNotFound
  <2>21. ASSUME NEW d \in Deletes, DeleteFiles(d) PROVE Kept
    BY <2>21 DEF DeleteFiles, RemoveMapDir
  <2>22. ASSUME Crash PROVE Kept
    BY <2>22 DEF Crash, DbCrash, DirCrash
  <2>23. CASE UNCHANGED vars
    BY <2>23 DEF vars
  <2>24. QED
    BY <2>1, <2>2, <2>3, <2>4, <2>5, <2>6, <2>7, <2>8, <2>9, <2>10, <2>11,
       <2>12, <2>13, <2>14, <2>15, <2>16, <2>17, <2>18, <2>19, <2>20, <2>21,
       <2>22, <2>23 DEF Next, UploadStep, SyncStep
<1>2. QED
  BY <1>1, TypeInit, TypeStep, MirrorInit, MirrorStep, PTL
     DEF Spec, RecordedImmutable

-----------------------------------------------------------------------------
(***************************************************************************)
(* A map that is only uploaded to, by a server that does not fail          *)
(***************************************************************************)

\* An upload at work has its tiles staged, and only one that succeeded has
\* them in a version directory.
QuietInv ==
    /\ RecordedOnDisk
    /\ \A u \in Uploads :
        /\ upc[u] \in {"staged", "locked", "recorded"} => staging[u] = u
        /\ \A v \in Versions : dirs[v] = u => upc[u] = "published"
        /\ uera[u] = 0
    /\ era = 0

LEMMA QuietInit == Init => QuietInv
BY TilesAssumption DEF Init, DbInit, DirInit, QuietInv, RecordedOnDisk, Tiles

LEMMA QuietStep ==
    ASSUME Remotes = {}, Deletes = {}, Faults = FALSE
    PROVE  TypeInv /\ AssignInv /\ TilesInv /\ QuietInv /\ [Next]_vars
            => QuietInv'
<1> USE TypeFacts, TilesAssumption
    DEF TypeInv, TypeOK, DbTypeOK, DirTypeOK, QuietInv, RecordedOnDisk,
        UploadStates, dbVars, dirVars, uploadVars, syncVars, deleteVars
<1> SUFFICES ASSUME TypeInv, AssignInv, TilesInv, QuietInv, [Next]_vars
             PROVE  QuietInv'
  OBVIOUS
<1>1. ASSUME NEW u \in Uploads, UploadExtract(u) PROVE QuietInv'
  BY <1>1 DEF UploadExtract, ExtractArchive, UploadGoto
<1>2. ASSUME NEW u \in Uploads, UploadMapNotFound(u) PROVE QuietInv'
  BY <1>2 DEF UploadMapNotFound, RemoveStaging, UploadGoto
<1>3. ASSUME NEW u \in Uploads, UploadIncrementBegin(u) PROVE QuietInv'
  BY <1>3 DEF UploadIncrementBegin, IncrementBegin, UploadGoto
<1>4. ASSUME NEW u \in Uploads, UploadIncrementCommit(u) PROVE QuietInv'
  BY <1>4 DEF UploadIncrementCommit, IncrementCommit, UploadGoto
<1>5. ASSUME NEW u \in Uploads, UploadIncrementRollback(u) PROVE QuietInv'
  BY <1>5 DEF UploadIncrementRollback, IncrementRollback, RemoveStaging, UploadGoto
<1>6. ASSUME NEW u \in Uploads, UploadRename(u) PROVE QuietInv'
  <2>1. /\ upc[u] = "recorded" /\ uver[u] \in Versions
        /\ staging[u] = u /\ u # NoTiles
    BY <1>6 DEF UploadRename
  <2>2. /\ upc' = [upc EXCEPT ![u] = "published"]
        /\ dirs' = [dirs EXCEPT ![uver[u]] = u]
        /\ staging' = [staging EXCEPT ![u] = NoTiles]
        /\ UNCHANGED <<recorded, uver, uera, era>>
    BY <1>6, <2>1 DEF UploadRename, Rename, UploadGoto
  <2>3. QED
    BY <2>1, <2>2
<1>7. ASSUME NEW u \in Uploads, UploadRenameFails(u) PROVE QuietInv'
  <2>1. CanRename(u, uver[u])
    <3>1. staging[u] # NoTiles /\ uver[u] \in Versions /\ Assigned(u)
      BY <1>7 DEF UploadRenameFails, Assigned
    <3>2. ASSUME dirs[uver[u]] # NoTiles PROVE FALSE
      <4>1. PICK w \in Uploads : dirs[uver[u]] = w /\ Assigned(w)
                                               /\ uver[w] = uver[u]
        BY <3>1, <3>2 DEF TilesInv, TilesBelongToVersion
      <4>2. w # u
        BY <3>1, <4>1, <1>7 DEF UploadRenameFails
      <4>3. QED
        BY <3>1, <4>1, <4>2 DEF AssignInv, UploadVersionsDistinct
    <3>3. QED
      BY <3>1, <3>2 DEF CanRename
  <2>2. QED
    BY <1>7, <2>1 DEF UploadRenameFails
<1>8. ASSUME NEW r \in Remotes, SyncUpsert(r) PROVE QuietInv'
  BY <1>8 DEF SyncUpsert, UpsertSyncedMap, SyncGoto
<1>9. ASSUME NEW r \in Remotes, SyncList(r) PROVE QuietInv'
  BY <1>9 DEF SyncList, SyncGoto
<1>10. ASSUME NEW r \in Remotes, SyncAdvance(r) PROVE QuietInv'
  BY <1>10 DEF SyncAdvance, SetSyncedCurrentVersion, HasMapVersion, SyncGoto
<1>11. ASSUME NEW r \in Remotes, SyncFails(r) PROVE QuietInv'
  BY <1>11 DEF SyncFails, RemoveStaging, SyncGoto
<1>12. ASSUME NEW r \in Remotes, NEW v \in Versions, PullSkip(r, v)
      PROVE  QuietInv'
  BY <1>12 DEF PullSkip
<1>13. ASSUME NEW r \in Remotes, NEW v \in Versions, PullStart(r, v)
      PROVE  QuietInv'
  BY <1>13 DEF PullStart, HasMapVersion, SyncGoto
<1>14. ASSUME NEW r \in Remotes, NEW v \in Versions, PullExtract(r, v)
      PROVE  QuietInv'
  BY <1>14 DEF PullExtract, ExtractArchive, SyncGoto
<1>15. ASSUME NEW r \in Remotes, NEW v \in Versions, PullClear(r, v)
      PROVE  QuietInv'
  BY <1>15 DEF PullClear, RemoveVersionDir, SyncGoto
<1>16. ASSUME NEW r \in Remotes, NEW v \in Versions, PullRename(r, v)
      PROVE  QuietInv'
  BY <1>16 DEF PullRename, Rename, CanRename, SyncGoto
<1>17. ASSUME NEW r \in Remotes, NEW v \in Versions, PullRecord(r, v)
      PROVE  QuietInv'
  BY <1>17 DEF PullRecord, RecordSyncedMapVersion, SyncGoto
<1>18. ASSUME NEW v \in PutVersions, PutMap(v) PROVE QuietInv'
  BY <1>18 DEF PutMap, UpdateMap
<1>19. ASSUME NEW d \in Deletes, DeleteRow(d) PROVE QuietInv'
  BY <1>19 DEF DeleteRow, DeleteMap
<1>20. ASSUME NEW d \in Deletes, DeleteNotFound(d) PROVE QuietInv'
  BY <1>20 DEF DeleteNotFound
<1>21. ASSUME NEW d \in Deletes, DeleteFiles(d) PROVE QuietInv'
  BY <1>21 DEF DeleteFiles, RemoveMapDir
<1>22. ASSUME Crash PROVE QuietInv'
  BY <1>22 DEF Crash, DbCrash, DirCrash
<1>23. CASE UNCHANGED vars
  BY <1>23 DEF vars
<1>24. QED
  BY <1>1, <1>2, <1>3, <1>4, <1>5, <1>6, <1>7, <1>8, <1>9, <1>10, <1>11,
     <1>12, <1>13, <1>14, <1>15, <1>16, <1>17, <1>18, <1>19, <1>20, <1>21,
     <1>22, <1>23 DEF Next, UploadStep, SyncStep

\* With uploads alone, an upload that has a version publishes it: the rename
\* after the commit never finds its target taken, however uploads overlap.
THEOREM UploadsRecordedOnDisk ==
    ASSUME Remotes = {}, Deletes = {}, Faults = FALSE
    PROVE  Spec => []RecordedOnDisk
<1>1. QuietInv => RecordedOnDisk
  BY DEF QuietInv
<1>2. QED
  BY <1>1, TypeInit, TypeStep, AssignInit, AssignStep, TilesInit, TilesStep,
     QuietInit, QuietStep, PTL DEF Spec

-----------------------------------------------------------------------------
(***************************************************************************)
(* Requests beside the writers (TileServing)                               *)
(***************************************************************************)
servingSpecVars == <<vars, servingVars>>

\* What the requests do to the rows and the files is nothing, and what the
\* writers do is what they do without them.
LEMMA ServingStepPublishes == [ServingNext]_servingSpecVars => [Next]_vars
BY DEF ServingNext, servingSpecVars, Upload, Sync, Put, Delete,
       SetMapVersionAlias, DeleteMapVersionAlias, Invalidate, Restart,
       Read, Ask, Resolve, Store, Open, BoundsCached, ScanZooms, ScanExtent,
       Expire, Next

\* Every behaviour with requests and caches is one of VersionPublish, so that
\* what is proved of the versions' writers above holds beside the readers.
THEOREM ServingImplementsPublish == ServingSpec => Spec
<1>1. ServingInit => Init
  BY DEF ServingInit
<1>2. QED
  BY <1>1, ServingStepPublishes, PTL DEF ServingSpec, Spec, servingSpecVars

\* Who invalidates, and where a request may be.
Announcers == Uploads \cup Remotes \cup Deletes \cup {"put", "alias"}

ReaderStates ==
    [at : {"idle", "resolve", "store", "open", "scan", "keep"},
     wants : Wants, bounds : BOOLEAN,
     version : VersionOrNone, zooms : Tiles \cup {NoTiles, Partial}]

\* At every step a request has what the step needs: a name to look up, or a
\* version to read.
ReaderTyped(state) ==
    /\ state \in ReaderStates
    /\ state.at \in {"resolve", "store"} => state.wants \in Names
    /\ state.at \in {"open", "scan", "keep"} => state.version \in Versions

\* ServingTypeOK alone is not inductive: a request that looks a name up must
\* have one.
ServingTypeInv ==
    /\ alias \in VersionOrNone
    /\ cached \in [Names -> SUBSET VersionOrNone]
    /\ \A n \in Names, v, w \in VersionOrNone : {v, w} \subseteq cached[n] => v = w
    /\ excused \in SUBSET Names
    /\ due \in SUBSET Announcers
    /\ bounds \in [Versions -> SUBSET Scans]
    /\ reader \in [Readers -> ReaderStates]
    /\ \A q \in Readers : ReaderTyped(reader[q])
    /\ removed \in SUBSET Versions

LEMMA ServingTypeSuffices == TypeInv /\ ServingTypeInv => ServingTypeOK
BY DEF TypeInv, ServingTypeInv, ServingTypeOK, ReaderTyped, ReaderStates,
       Announcers

LEMMA IdleTyped == ReaderTyped(Idle)
BY DEF ReaderTyped, ReaderStates, Idle, Wants, Names, VersionOrNone

LEMMA ServingTypeInit == ServingInit => ServingTypeInv
<1> SUFFICES ASSUME ServingInit PROVE ServingTypeInv
  OBVIOUS
<1>1. \A q \in Readers : ReaderTyped(reader[q])
  BY IdleTyped DEF ServingInit
<1>2. reader \in [Readers -> ReaderStates]
  BY IdleTyped DEF ServingInit, ReaderTyped
<1>3. QED
  BY <1>1, <1>2
     DEF ServingInit, ServingTypeInv, VersionOrNone, Names, Announcers

\* A writer's step keeps the types of the caches.
LEMMA FollowsTyped ==
    ASSUME ServingTypeInv, NEW announced \in SUBSET Announcers,
           Follows(announced)
    PROVE  ServingTypeInv'
BY TypeFacts DEF ServingTypeInv, Follows, Names

\* A request that goes on to a state of a request's keeps the types.
LEMMA GoesTyped ==
    ASSUME ServingTypeInv, NEW q \in Readers, NEW changed,
           ReaderTyped(changed), Goes(q, changed)
    PROVE  /\ reader' \in [Readers -> ReaderStates]
           /\ \A p \in Readers : ReaderTyped(reader'[p])
BY DEF ServingTypeInv, Goes, ReaderTyped

\* Where the answer to a look-up takes a request.
LEMMA ResolvedTyped ==
    ASSUME ServingTypeInv, NEW q \in Readers, NEW v \in VersionOrNone
    PROVE  ReaderTyped(Resolved(q, v))
<1>1. reader[q] \in ReaderStates
  BY DEF ServingTypeInv
<1>2. CASE v = NoVersion
  BY <1>2, IdleTyped DEF Resolved
<1>3. CASE v # NoVersion
  BY <1>1, <1>3 DEF Resolved, ReaderTyped, ReaderStates, VersionOrNone
<1>4. QED
  BY <1>2, <1>3

LEMMA ServingTypeStep ==
    TypeInv /\ ServingTypeInv /\ [ServingNext]_servingSpecVars
        => ServingTypeInv'
<1> USE TypeFacts
<1> SUFFICES ASSUME TypeInv, ServingTypeInv, [ServingNext]_servingSpecVars
             PROVE  ServingTypeInv'
  OBVIOUS
<1>1. ASSUME NEW u \in Uploads, Upload(u) PROVE ServingTypeInv'
  BY <1>1, FollowsTyped DEF Upload, Announcers
<1>2. ASSUME NEW r \in Remotes, Sync(r) PROVE ServingTypeInv'
  BY <1>2, FollowsTyped DEF Sync, SyncAnnounces, Announcers
<1>3. ASSUME Put PROVE ServingTypeInv'
  BY <1>3, FollowsTyped DEF Put, Announcers
<1>4. ASSUME NEW d \in Deletes, Delete(d) PROVE ServingTypeInv'
  BY <1>4, FollowsTyped DEF Delete, Announcers
<1>5. ASSUME NEW v \in Versions, SetMapVersionAlias(v) PROVE ServingTypeInv'
  BY <1>5 DEF SetMapVersionAlias, ServingTypeInv, Announcers
<1>6. ASSUME DeleteMapVersionAlias PROVE ServingTypeInv'
  BY <1>6 DEF DeleteMapVersionAlias, ServingTypeInv, Announcers
<1>7. ASSUME NEW w \in due, Invalidate(w) PROVE ServingTypeInv'
  BY <1>7 DEF Invalidate, ServingTypeInv
<1>8. ASSUME Restart PROVE ServingTypeInv'
  <2>1. \A q \in Readers : ReaderTyped(reader'[q])
    BY <1>8, IdleTyped DEF Restart
  <2>2. reader' \in [Readers -> ReaderStates]
    BY <1>8, IdleTyped DEF Restart, ReaderTyped
  <2>3. QED
    BY <1>8, <2>1, <2>2 DEF Restart, ServingTypeInv, Names
<1>9. ASSUME NEW q \in Readers, Ask(q) PROVE ServingTypeInv'
  <2>1. PICK a \in Asked : LET asked == [Idle EXCEPT !.wants = a[1], !.bounds = a[2]] IN
            IF a[1] \in Names THEN Goes(q, [asked EXCEPT !.at = "resolve"])
            ELSE \E v \in Versions :
                    Goes(q, [asked EXCEPT !.at = IF a[2] THEN "scan" ELSE "open",
                                          !.version = v])
    BY <1>9 DEF Ask
  <2>2. a[1] \in Wants /\ a[2] \in BOOLEAN
    BY AskedAssumption DEF Wants, Names
  <2>3. ReaderTyped(Idle) /\ Idle \in ReaderStates
    BY IdleTyped DEF ReaderTyped
  <2>4. \E state : ReaderTyped(state) /\ Goes(q, state)
    <3>1. CASE a[1] \in Names
      BY <2>1, <2>2, <2>3, <3>1 DEF ReaderTyped, ReaderStates
    <3>2. CASE a[1] \notin Names
      BY <2>1, <2>2, <2>3, <3>2 DEF ReaderTyped, ReaderStates
    <3>3. QED
      BY <3>1, <3>2
  <2>5. UNCHANGED <<aliasVars, bounds, removed>>
    BY <1>9 DEF Ask
  <2>6. QED
    BY <2>4, <2>5, GoesTyped DEF ServingTypeInv, aliasVars
<1>10. ASSUME NEW q \in Readers, Resolve(q) PROVE ServingTypeInv'
  <2>1. /\ reader[q] \in ReaderStates /\ reader[q].wants \in Names
        /\ ReaderTyped(reader[q])
    BY <1>10 DEF Resolve, ServingTypeInv, ReaderTyped
  <2>2. currentVersion \in VersionOrNone /\ alias \in VersionOrNone
    BY DEF TypeInv, TypeOK, DbTypeOK, ServingTypeInv
  <2>3. \A v \in cached[reader[q].wants] : v \in VersionOrNone
    BY <2>1 DEF ServingTypeInv
  <2>4. \A v \in VersionOrNone :
            ReaderTyped([reader[q] EXCEPT !.at = "store", !.version = v])
    BY <2>1 DEF ReaderTyped, ReaderStates
  <2>5. \E state : ReaderTyped(state) /\ Goes(q, state)
    BY <1>10, <2>2, <2>3, <2>4, ResolvedTyped, IdleTyped DEF Resolve
  <2>6. UNCHANGED <<aliasVars, bounds, removed>>
    BY <1>10 DEF Resolve
  <2>7. QED
    BY <2>5, <2>6, GoesTyped DEF ServingTypeInv, aliasVars
<1>11. ASSUME NEW q \in Readers, Store(q) PROVE ServingTypeInv'
  <2>1. reader[q].wants \in Names /\ reader[q].version \in VersionOrNone
    BY <1>11 DEF Store, ServingTypeInv, ReaderTyped, ReaderStates
  <2>2. /\ reader' \in [Readers -> ReaderStates]
        /\ \A p \in Readers : ReaderTyped(reader'[p])
    BY <1>11, <2>1, ResolvedTyped, GoesTyped DEF Store
  <2>3. QED
    BY <1>11, <2>1, <2>2 DEF Store, ServingTypeInv
<1>12. ASSUME NEW q \in Readers, Open(q) \/ BoundsCached(q)
       PROVE  ServingTypeInv'
  BY <1>12, IdleTyped, GoesTyped
     DEF Open, BoundsCached, ServingTypeInv, aliasVars
<1>13. ASSUME NEW q \in Readers, ScanZooms(q) PROVE ServingTypeInv'
  <2>1. /\ reader[q] \in ReaderStates /\ reader[q].version \in Versions
        /\ reader[q].at = "scan"
    BY <1>13 DEF ScanZooms, ServingTypeInv, ReaderTyped
  <2>2. Seen(reader[q].version) \subseteq Tiles \cup {NoTiles, Partial}
    BY <2>1 DEF Seen, TypeInv, TypeOK, DirTypeOK
  <2>3. \A tiles \in Tiles \cup {NoTiles, Partial} :
            ReaderTyped([reader[q] EXCEPT !.at = "keep", !.zooms = tiles])
    BY <2>1 DEF ReaderTyped, ReaderStates
  <2>4. \E state : ReaderTyped(state) /\ Goes(q, state)
    BY <1>13, <2>2, <2>3, IdleTyped DEF ScanZooms
  <2>5. UNCHANGED <<aliasVars, bounds, removed>>
    BY <1>13 DEF ScanZooms
  <2>6. QED
    BY <2>4, <2>5, GoesTyped DEF ServingTypeInv, aliasVars
<1>14. ASSUME NEW q \in Readers, ScanExtent(q) PROVE ServingTypeInv'
  <2>1. /\ reader[q].zooms \in Tiles \cup {NoTiles, Partial}
        /\ reader[q].version \in Versions
    BY <1>14 DEF ScanExtent, ServingTypeInv, ReaderTyped, ReaderStates
  <2>2. Seen(reader[q].version) \subseteq Tiles \cup {NoTiles, Partial}
    BY <2>1 DEF Seen, TypeInv, TypeOK, DirTypeOK
  <2>3. bounds' \in [Versions -> SUBSET Scans]
    BY <1>14, <2>1, <2>2 DEF ScanExtent, ServingTypeInv, Scans
  <2>4. /\ reader' \in [Readers -> ReaderStates]
        /\ \A p \in Readers : ReaderTyped(reader'[p])
    BY <1>14, IdleTyped, GoesTyped DEF ScanExtent
  <2>5. UNCHANGED <<aliasVars, removed>>
    BY <1>14 DEF ScanExtent
  <2>6. QED
    BY <2>3, <2>4, <2>5 DEF ServingTypeInv, aliasVars
<1>15. ASSUME NEW n \in Names, Expire(n) PROVE ServingTypeInv'
  BY <1>15 DEF Expire, ServingTypeInv
<1>16. CASE UNCHANGED servingSpecVars
  BY <1>16 DEF servingSpecVars, servingVars, aliasVars, ServingTypeInv
<1>17. QED
  BY <1>1, <1>2, <1>3, <1>4, <1>5, <1>6, <1>7, <1>8, <1>9, <1>10, <1>11,
     <1>12, <1>13, <1>14, <1>15, <1>16 DEF ServingNext, Read

\* Every variable of the requests and the caches keeps its type.
THEOREM ServingTypeCorrect == ServingSpec => []ServingTypeOK
<1>1. ServingInit => TypeInv
  BY TypeInit DEF ServingInit
<1>2. QED
  BY <1>1, ServingTypeSuffices, ServingTypeInit, TypeStep,
     ServingStepPublishes, ServingTypeStep, PTL DEF ServingSpec, servingSpecVars

-----------------------------------------------------------------------------
(***************************************************************************)
(* Cached names                                                            *)
(***************************************************************************)
\* Of an upload's steps, and of a pass's, only those after which the caches
\* are invalidated change the map's current version.
LEMMA UploadAnnounced ==
    ASSUME NEW u \in Uploads, UploadStep(u), currentVersion' # currentVersion,
           TypeOK
    PROVE  upc[u] = "locked" /\ upc'[u] = "recorded"
BY DEF UploadStep, UploadExtract, UploadMapNotFound, UploadIncrementBegin,
       UploadIncrementCommit, UploadIncrementRollback, UploadRename,
       UploadRenameFails, ExtractArchive, RemoveStaging, Rename, UploadGoto,
       IncrementBegin, IncrementCommit, IncrementRollback, dbVars, TypeOK

LEMMA SyncAnnounced ==
    ASSUME NEW r \in Remotes, SyncStep(r), currentVersion' # currentVersion
    PROVE  r \in SyncAnnounces(r)
<1>1. SyncAdvance(r) /\ HasMapVersion(scur[r])
  BY DEF SyncStep, SyncUpsert, SyncList, SyncAdvance, SyncFails, PullSkip,
         PullStart, PullExtract, PullClear, PullRename, PullRecord,
         UpsertSyncedMap, RecordSyncedMapVersion, SetSyncedCurrentVersion,
         dbVars
<1>2. QED
  BY <1>1 DEF SyncAnnounces

\* A writer's step that changes the row announces it.
LEMMA FollowsExplained ==
    ASSUME CachedNameExplained, NEW announced, Follows(announced),
           currentVersion' # currentVersion =>
                \E w \in announced : EntryOf(w) = "current"
    PROVE  CachedNameExplained'
<1>1. UNCHANGED cached /\ excused \subseteq excused' /\ due \subseteq due'
      /\ announced \subseteq due'
  BY DEF Follows
<1>2. alias' # alias => "alias" \in excused'
  BY DEF Follows
<1>3. SUFFICES ASSUME NEW n \in Names, NEW v \in VersionOrNone,
                      cached'[n] = {v}
               PROVE  \/ v = IF n = "current" THEN currentVersion' ELSE alias'
                      \/ n \in excused'
                      \/ \E w \in due' : EntryOf(w) = n
  BY DEF CachedNameExplained, EntryOf
<1>4. \/ v = IF n = "current" THEN currentVersion ELSE alias
      \/ n \in excused
      \/ \E w \in due : EntryOf(w) = n
  BY <1>1, <1>3 DEF CachedNameExplained
<1>5. CASE n \in excused \/ \E w \in due : EntryOf(w) = n
  BY <1>1, <1>5
<1>6. CASE n = "current" /\ v = currentVersion
  BY <1>1, <1>6
<1>7. CASE n = "alias" /\ v = alias
  BY <1>2, <1>7
<1>8. QED
  BY <1>4, <1>5, <1>6, <1>7 DEF Names

LEMMA ExplainedStep ==
    TypeInv /\ ServingTypeInv /\ CachedNameExplained /\
    [ServingNext]_servingSpecVars => CachedNameExplained'
<1> SUFFICES ASSUME TypeInv, ServingTypeInv, CachedNameExplained,
                    [ServingNext]_servingSpecVars
             PROVE  CachedNameExplained'
  OBVIOUS
<1>1. ASSUME NEW u \in Uploads, Upload(u) PROVE CachedNameExplained'
  <2>1. EntryOf(u) = "current"
    BY AdminAssumption DEF EntryOf
  <2>2. QED
    BY <1>1, <2>1, UploadAnnounced, FollowsExplained DEF Upload, TypeInv
<1>2. ASSUME NEW r \in Remotes, Sync(r) PROVE CachedNameExplained'
  <2>1. EntryOf(r) = "current"
    BY AdminAssumption DEF EntryOf
  <2>2. QED
    BY <1>2, <2>1, SyncAnnounced, FollowsExplained DEF Sync
<1>3. ASSUME Put PROVE CachedNameExplained'
  <2>1. EntryOf("put") = "current"
    BY DEF EntryOf
  <2>2. QED
    BY <1>3, <2>1, FollowsExplained DEF Put
<1>4. ASSUME NEW d \in Deletes, Delete(d) PROVE CachedNameExplained'
  <2>1. CASE DeleteRow(d) /\ Follows({d})
    <3>1. EntryOf(d) = "current"
      BY AdminAssumption DEF EntryOf
    <3>2. QED
      BY <2>1, <3>1, FollowsExplained
  <2>2. CASE (DeleteNotFound(d) \/ DeleteFiles(d)) /\ Follows({})
    <3>1. UNCHANGED currentVersion
      BY <2>2 DEF DeleteNotFound, DeleteFiles, dbVars
    <3>2. QED
      BY <2>2, <3>1, FollowsExplained
  <2>3. QED
    BY <1>4, <2>1, <2>2 DEF Delete
<1>5. ASSUME NEW v \in Versions, SetMapVersionAlias(v)
      PROVE  CachedNameExplained'
  <2>1. UNCHANGED <<currentVersion, cached, excused>> /\ due' = due \cup {"alias"}
    BY <1>5 DEF SetMapVersionAlias, vars, dbVars
  <2>2. EntryOf("alias") = "alias"
    BY DEF EntryOf
  <2>3. QED
    BY <2>1, <2>2 DEF CachedNameExplained, Names, EntryOf
<1>6. ASSUME DeleteMapVersionAlias PROVE CachedNameExplained'
  <2>1. UNCHANGED <<currentVersion, cached, excused>> /\ due' = due \cup {"alias"}
    BY <1>6 DEF DeleteMapVersionAlias, vars, dbVars
  <2>2. EntryOf("alias") = "alias"
    BY DEF EntryOf
  <2>3. QED
    BY <2>1, <2>2 DEF CachedNameExplained, Names, EntryOf
<1>7. ASSUME NEW w \in due, Invalidate(w) PROVE CachedNameExplained'
  <2>1. UNCHANGED <<currentVersion, alias>>
    BY <1>7 DEF Invalidate, vars, dbVars
  <2>2. SUFFICES ASSUME NEW n \in Names, NEW v \in VersionOrNone,
                        cached'[n] = {v}
                 PROVE  \/ v = IF n = "current" THEN currentVersion ELSE alias
                        \/ n \in excused'
                        \/ \E x \in due' : EntryOf(x) = n
    BY <2>1 DEF CachedNameExplained, EntryOf
  <2>3. n # EntryOf(w) /\ cached[n] = {v}
    BY <1>7, <2>2 DEF Invalidate, ServingTypeInv
  <2>4. QED
    BY <1>7, <2>3 DEF Invalidate, CachedNameExplained
<1>8. ASSUME Restart PROVE CachedNameExplained'
  BY <1>8 DEF Restart, CachedNameExplained
<1>9. ASSUME NEW q \in Readers,
             \/ Ask(q) \/ Resolve(q) \/ Open(q) \/ BoundsCached(q)
             \/ ScanZooms(q) \/ ScanExtent(q)
      PROVE  CachedNameExplained'
  <2>1. UNCHANGED <<currentVersion, alias, cached, excused, due>>
    BY <1>9 DEF Ask, Resolve, Open, BoundsCached, ScanZooms, ScanExtent,
                vars, dbVars, aliasVars
  <2>2. QED
    BY <2>1 DEF CachedNameExplained, EntryOf
<1>10. ASSUME NEW q \in Readers, Store(q) PROVE CachedNameExplained'
  <2>1. UNCHANGED <<currentVersion, alias, due>>
    BY <1>10 DEF Store, vars, dbVars
  <2>2. reader[q].wants \in Names
    BY <1>10 DEF Store, ServingTypeInv, ReaderTyped
  <2>3. QED
    BY <1>10, <2>1, <2>2
       DEF Store, CachedNameExplained, ServingTypeInv, Names, EntryOf
<1>11. ASSUME NEW n \in Names, Expire(n) PROVE CachedNameExplained'
  <2>1. UNCHANGED <<currentVersion, alias, due>>
    BY <1>11 DEF Expire, vars, dbVars
  <2>2. QED
    BY <1>11, <2>1 DEF Expire, CachedNameExplained, ServingTypeInv, EntryOf
<1>12. CASE UNCHANGED servingSpecVars
  BY <1>12 DEF servingSpecVars, servingVars, aliasVars, vars, dbVars,
               CachedNameExplained, EntryOf
<1>13. QED
  BY <1>1, <1>2, <1>3, <1>4, <1>5, <1>6, <1>7, <1>8, <1>9, <1>10, <1>11,
     <1>12 DEF ServingNext, Read

\* Whatever the interleaving, a cached name that is out of date has its
\* reason: an invalidate still to come, a fill that overlapped the change, or
\* an alias that went with its version.
THEOREM CachedNamesExplained == ServingSpec => []CachedNameExplained
<1>1. ServingInit => CachedNameExplained
  BY DEF ServingInit, CachedNameExplained
<1>2. ServingInit => TypeInv
  BY TypeInit DEF ServingInit
<1>3. QED
  BY <1>1, <1>2, ServingTypeInit, TypeStep, ServingStepPublishes,
     ServingTypeStep, ExplainedStep, PTL DEF ServingSpec, servingSpecVars

-----------------------------------------------------------------------------
(***************************************************************************)
(* The bounds of a version                                                 *)
(***************************************************************************)

\* BoundsExplained is not inductive.  It needs that a version with bounds has
\* a tree, that a scan under way saw this tree, and that a tree about to be
\* removed has been noted.
BoundsInv ==
    /\ \A v \in Versions : BeingRemoved(v) /\ dirs[v] # NoTiles => v \in removed
    /\ \A v \in Versions \ removed :
        bounds[v] # {} => bounds[v] = {<<dirs[v], dirs[v]>>} /\ dirs[v] # NoTiles
    /\ \A q \in Readers :
        reader[q].at = "keep" /\ reader[q].version \notin removed =>
            /\ reader[q].zooms = dirs[reader[q].version]
            /\ dirs[reader[q].version] # NoTiles

\* A writer replaces a tree only where there is none, and removes one only
\* when it has announced so by the state it is in.
LEMMA DirsReplaced ==
    ASSUME TypeInv, [Next]_vars, NEW v \in Versions, dirs[v] # NoTiles,
           ~BeingRemoved(v)
    PROVE  dirs'[v] = dirs[v]
<1> USE DEF TypeInv, TypeOK, DirTypeOK,
        dbVars, dirVars, uploadVars, syncVars, deleteVars
<1>1. ASSUME NEW u \in Uploads, UploadStep(u) PROVE dirs'[v] = dirs[v]
  BY <1>1 DEF UploadStep, UploadExtract, UploadMapNotFound,
     UploadIncrementBegin, UploadIncrementCommit, UploadIncrementRollback,
     UploadRename, UploadRenameFails, ExtractArchive, RemoveStaging, Rename,
     CanRename
<1>2. ASSUME NEW r \in Remotes, SyncStep(r) PROVE dirs'[v] = dirs[v]
  BY <1>2 DEF SyncStep, SyncUpsert, SyncList, SyncAdvance, SyncFails,
     PullSkip, PullStart, PullExtract, PullClear, PullRename, PullRecord,
     ExtractArchive, RemoveStaging, RemoveVersionDir, Rename, CanRename,
     BeingRemoved
<1>3. ASSUME NEW w \in PutVersions, PutMap(w) PROVE dirs'[v] = dirs[v]
  BY <1>3 DEF PutMap
<1>4. ASSUME NEW d \in Deletes, DeleteRow(d) \/ DeleteNotFound(d) \/ DeleteFiles(d)
      PROVE  dirs'[v] = dirs[v]
  BY <1>4 DEF DeleteRow, DeleteNotFound, DeleteFiles, RemoveMapDir, BeingRemoved
<1>5. ASSUME Crash PROVE dirs'[v] = dirs[v]
  BY <1>5 DEF Crash, DirCrash
<1>6. CASE UNCHANGED vars
  BY <1>6 DEF vars
<1>7. QED
  BY <1>1, <1>2, <1>3, <1>4, <1>5, <1>6 DEF Next

\* A scan of a version of which nothing is being removed sees its tree.
LEMMA SeenIsTree ==
    ASSUME BoundsInv, NEW v \in Versions \ removed, NEW tiles \in Seen(v),
           tiles # NoTiles
    PROVE  tiles = dirs[v]
BY DEF BoundsInv, Seen

LEMMA FollowsBounds ==
    ASSUME TypeInv, ServingTypeInv, BoundsInv, [Next]_vars,
           NEW announced, Follows(announced)
    PROVE  BoundsInv'
<1>1. /\ UNCHANGED <<bounds, reader>>
      /\ removed \subseteq removed'
      /\ \A v \in Versions : BeingRemoved(v)' /\ dirs'[v] # NoTiles => v \in removed'
  BY DEF Follows
<1>2. ASSUME NEW v \in Versions, v \notin removed', dirs[v] # NoTiles
      PROVE  dirs'[v] = dirs[v]
  BY <1>1, <1>2, DirsReplaced DEF BoundsInv
<1>3. \A q \in Readers : reader[q].at = "keep" => reader[q].version \in Versions
  BY DEF ServingTypeInv, ReaderTyped
<1>4. \A v \in Versions \ removed' :
        bounds'[v] # {} => bounds'[v] = {<<dirs'[v], dirs'[v]>>} /\ dirs'[v] # NoTiles
  BY <1>1, <1>2 DEF BoundsInv
<1>5. \A q \in Readers :
        reader'[q].at = "keep" /\ reader'[q].version \notin removed' =>
            /\ reader'[q].zooms = dirs'[reader'[q].version]
            /\ dirs'[reader'[q].version] # NoTiles
  BY <1>1, <1>2, <1>3 DEF BoundsInv
<1>6. QED
  BY <1>1, <1>4, <1>5 DEF BoundsInv

\* What a request or an administrator's alias leaves alone.
LEMMA UnmovedBounds ==
    ASSUME UNCHANGED vars
    PROVE  /\ UNCHANGED dirs
           /\ \A v \in Versions : BeingRemoved(v)' = BeingRemoved(v)
BY DEF vars, dirVars, syncVars, deleteVars, BeingRemoved, Pulling

LEMMA BoundsStep ==
    TypeInv /\ ServingTypeInv /\ BoundsInv /\ [ServingNext]_servingSpecVars
        => BoundsInv'
<1> SUFFICES ASSUME TypeInv, ServingTypeInv, BoundsInv,
                    [ServingNext]_servingSpecVars
             PROVE  BoundsInv'
  OBVIOUS
<1>1. [Next]_vars
  BY ServingStepPublishes
<1>2. ASSUME NEW announced, Follows(announced) PROVE BoundsInv'
  BY <1>1, <1>2, FollowsBounds
<1>3. ASSUME \/ \E u \in Uploads : Upload(u)
             \/ \E r \in Remotes : Sync(r)
             \/ Put
             \/ \E d \in Deletes : Delete(d)
      PROVE  BoundsInv'
  BY <1>2, <1>3 DEF Upload, Sync, Put, Delete
<1>4. ASSUME UNCHANGED <<vars, bounds, removed>>,
             UNCHANGED reader \/ \E q \in Readers : \E changed :
                changed.at # "keep" /\ Goes(q, changed)
      PROVE  BoundsInv'
  <2>1. /\ UNCHANGED dirs
        /\ \A v \in Versions : BeingRemoved(v)' = BeingRemoved(v)
    BY <1>4, UnmovedBounds
  <2>2. \A q \in Readers : reader'[q].at = "keep" => reader'[q] = reader[q]
    BY <1>4 DEF Goes, ServingTypeInv
  <2>3. QED
    BY <1>4, <2>1, <2>2 DEF BoundsInv
<1>5. ASSUME \/ \E v \in Versions : SetMapVersionAlias(v)
             \/ DeleteMapVersionAlias
             \/ \E w \in due : Invalidate(w)
             \/ \E n \in Names : Expire(n)
      PROVE  BoundsInv'
  BY <1>4, <1>5 DEF SetMapVersionAlias, DeleteMapVersionAlias, Invalidate, Expire
<1>6. ASSUME Restart PROVE BoundsInv'
  <2>1. \A v \in Versions : ~BeingRemoved(v)'
    BY <1>6 DEF Restart, Crash, BeingRemoved, DeleteStates, TypeInv, TypeOK
  <2>2. QED
    BY <1>6, <2>1 DEF Restart, BoundsInv, Idle
<1>7. ASSUME NEW q \in Readers, Ask(q) PROVE BoundsInv'
  <2>1. \E changed : changed.at # "keep" /\ Goes(q, changed)
    BY <1>7 DEF Ask, Idle
  <2>2. QED
    BY <1>4, <1>7, <2>1 DEF Ask
<1>8. ASSUME NEW q \in Readers, Resolve(q) PROVE BoundsInv'
  <2>1. \A v : Resolved(q, v).at # "keep"
    BY DEF Resolved, Idle, ServingTypeInv, ReaderStates
  <2>2. \E changed : changed.at # "keep" /\ Goes(q, changed)
    BY <1>8, <2>1 DEF Resolve, Idle, ServingTypeInv, ReaderStates
  <2>3. QED
    BY <1>4, <1>8, <2>2 DEF Resolve
<1>9. ASSUME NEW q \in Readers, Store(q) PROVE BoundsInv'
  <2>1. \A v : Resolved(q, v).at # "keep"
    BY DEF Resolved, Idle, ServingTypeInv, ReaderStates
  <2>2. QED
    BY <1>4, <1>9, <2>1 DEF Store
<1>10. ASSUME NEW q \in Readers, Open(q) \/ BoundsCached(q) PROVE BoundsInv'
  BY <1>4, <1>10 DEF Open, BoundsCached, Idle
<1>11. ASSUME NEW q \in Readers, ScanZooms(q) PROVE BoundsInv'
  <2> DEFINE v == reader[q].version
  <2>1. v \in Versions /\ reader[q] \in ReaderStates
    BY <1>11 DEF ScanZooms, ServingTypeInv, ReaderTyped
  <2>2. PICK tiles \in Seen(v) :
            Goes(q, IF tiles = NoTiles THEN Idle
                    ELSE [reader[q] EXCEPT !.at = "keep", !.zooms = tiles])
    BY <1>11 DEF ScanZooms
  <2>3. UNCHANGED <<vars, bounds, removed>>
    BY <1>11 DEF ScanZooms
  <2>4. CASE tiles = NoTiles
    BY <1>4, <2>2, <2>3, <2>4 DEF Idle
  <2>5. CASE tiles # NoTiles
    <3>1. /\ UNCHANGED dirs
          /\ \A w \in Versions : BeingRemoved(w)' = BeingRemoved(w)
      BY <2>3, UnmovedBounds
    <3>2. v \notin removed => tiles = dirs[v]
      BY <2>1, <2>5, SeenIsTree
    <3>3. /\ reader'[q].version = v /\ reader'[q].zooms = tiles
          /\ \A p \in Readers : p # q => reader'[p] = reader[p]
      BY <2>1, <2>2, <2>5 DEF Goes, ServingTypeInv, ReaderStates
    <3>4. QED
      BY <2>3, <2>5, <3>1, <3>2, <3>3 DEF BoundsInv
  <2>6. QED
    BY <2>4, <2>5
<1>12. ASSUME NEW q \in Readers, ScanExtent(q) PROVE BoundsInv'
  <2> DEFINE v == reader[q].version
  <2>1. v \in Versions /\ reader[q].at = "keep"
    BY <1>12 DEF ScanExtent, ServingTypeInv, ReaderTyped
  <2>2. PICK tiles \in Seen(v) :
            bounds' = IF tiles = NoTiles THEN bounds
                      ELSE [bounds EXCEPT ![v] = {<<reader[q].zooms, tiles>>}]
    BY <1>12 DEF ScanExtent
  <2>3. UNCHANGED <<vars, removed>> /\ Goes(q, Idle)
    BY <1>12 DEF ScanExtent
  <2>4. CASE tiles = NoTiles
    BY <1>4, <2>2, <2>3, <2>4 DEF Idle
  <2>5. CASE tiles # NoTiles
    <3>1. /\ UNCHANGED dirs
          /\ \A w \in Versions : BeingRemoved(w)' = BeingRemoved(w)
      BY <2>3, UnmovedBounds
    <3>2. v \notin removed =>
            bounds'[v] = {<<dirs[v], dirs[v]>>} /\ dirs[v] # NoTiles
      BY <2>1, <2>2, <2>5, SeenIsTree DEF BoundsInv, ServingTypeInv
    <3>3. \A w \in Versions : w # v => bounds'[w] = bounds[w]
      BY <2>2 DEF ServingTypeInv
    <3>4. \A p \in Readers : reader'[p].at = "keep" => reader'[p] = reader[p]
      BY <2>3 DEF Goes, Idle, ServingTypeInv
    <3>5. QED
      BY <2>3, <3>1, <3>2, <3>3, <3>4 DEF BoundsInv
  <2>6. QED
    BY <2>4, <2>5
<1>13. CASE UNCHANGED servingSpecVars
  BY <1>4, <1>13 DEF servingSpecVars, servingVars
<1>14. QED
  BY <1>3, <1>5, <1>6, <1>7, <1>8, <1>9, <1>10, <1>11, <1>12, <1>13
     DEF ServingNext, Read

\* Bounds once computed stay right for as long as the process keeps them,
\* unless a tree of the version was being removed: a writer fills a version's
\* directory only where there is none.
THEOREM BoundsAreExplained == ServingSpec => []BoundsExplained
<1>1. ServingInit => TypeInv /\ BoundsInv
  <2>1. ServingInit => BoundsInv
    BY DEF ServingInit, Init, DirInit, BoundsInv, BeingRemoved, Idle
  <2>2. QED
    BY <2>1, TypeInit DEF ServingInit
<1>2. BoundsInv => BoundsExplained
  BY DEF BoundsInv, BoundsExplained
<1>3. QED
  BY <1>1, <1>2, ServingTypeInit, TypeStep, ServingStepPublishes,
     ServingTypeStep, BoundsStep, PTL DEF ServingSpec, servingSpecVars

-----------------------------------------------------------------------------
(***************************************************************************)
(* What a name resolves to on a mirror                                     *)
(***************************************************************************)

\* A name is looked up in rows that name recorded versions only, and what is
\* recorded stays so; so wherever the answer is kept it is still recorded.
NamedVersion(v) == v \in recorded \cup {NoVersion}

NamesInv ==
    /\ NamedVersion(alias)
    /\ \A n \in Names : \A v \in cached[n] : NamedVersion(v)
    /\ \A q \in Readers :
        /\ reader[q].at = "store" => NamedVersion(reader[q].version)
        /\ reader[q].at \in {"open", "scan", "keep"} /\ reader[q].wants \in Names
            => reader[q].version \in recorded

\* Only a DELETE of the map takes versions out of map_versions.
LEMMA RecordedGrows ==
    ASSUME Deletes = {}, [Next]_vars
    PROVE  recorded \subseteq recorded'
BY DEF Next, vars, dbVars, UploadStep, UploadExtract, UploadMapNotFound,
       UploadIncrementBegin, UploadIncrementCommit, UploadIncrementRollback,
       UploadRename, UploadRenameFails, IncrementBegin, IncrementCommit,
       IncrementRollback, SyncStep, SyncUpsert, SyncList, SyncAdvance,
       SyncFails, PullSkip, PullStart, PullExtract, PullClear, PullRename,
       PullRecord, UpsertSyncedMap, RecordSyncedMapVersion,
       SetSyncedCurrentVersion, PutMap, UpdateMap, Crash, DbCrash

\* A request that goes on from where the names are sound.
LEMMA GoesNamed ==
    ASSUME ServingTypeInv, NamesInv, UNCHANGED <<vars, alias>>,
           \A n \in Names : \A v \in cached'[n] : NamedVersion(v),
           NEW q \in Readers, NEW changed, Goes(q, changed),
           changed.at = "store" => NamedVersion(changed.version),
           changed.at \in {"open", "scan", "keep"} /\ changed.wants \in Names
                => changed.version \in recorded
    PROVE  NamesInv'
BY DEF NamesInv, NamedVersion, Goes, ServingTypeInv, vars, dbVars

LEMMA ResolvedNamed ==
    ASSUME ServingTypeInv, NEW q \in Readers, NEW v, NamedVersion(v)
    PROVE  /\ Resolved(q, v).at # "store"
           /\ Resolved(q, v).at \in {"open", "scan", "keep"}
                => Resolved(q, v).version \in recorded
<1>1. reader[q] \in ReaderStates
  BY DEF ServingTypeInv
<1>2. CASE v = NoVersion
  BY <1>2 DEF Resolved, Idle
<1>3. CASE v # NoVersion
  BY <1>1, <1>3 DEF Resolved, ReaderStates, NamedVersion
<1>4. QED
  BY <1>2, <1>3

LEMMA NamesStep ==
    ASSUME Deletes = {}
    PROVE  ServingTypeInv /\ MirrorInv /\ NamesInv /\
           [ServingNext]_servingSpecVars => NamesInv'
<1> SUFFICES ASSUME ServingTypeInv, MirrorInv, NamesInv,
                    [ServingNext]_servingSpecVars
             PROVE  NamesInv'
  OBVIOUS
<1>1. recorded \subseteq recorded'
  BY ServingStepPublishes, RecordedGrows
<1>2. ASSUME NEW announced, Follows(announced) PROVE NamesInv'
  <2>1. alias' \in recorded' \cup {NoVersion}
    BY <1>2 DEF Follows
  <2>2. UNCHANGED <<cached, reader>>
    BY <1>2 DEF Follows
  <2>3. QED
    BY <1>1, <2>1, <2>2 DEF NamesInv, NamedVersion
<1>3. ASSUME \/ \E u \in Uploads : Upload(u)
             \/ \E r \in Remotes : Sync(r)
             \/ Put
             \/ \E d \in Deletes : Delete(d)
      PROVE  NamesInv'
  BY <1>2, <1>3 DEF Upload, Sync, Put, Delete
<1>4. ASSUME NEW v \in Versions, SetMapVersionAlias(v) PROVE NamesInv'
  BY <1>1, <1>4 DEF SetMapVersionAlias, CanName, NamesInv, NamedVersion
<1>5. ASSUME DeleteMapVersionAlias PROVE NamesInv'
  BY <1>1, <1>5 DEF DeleteMapVersionAlias, NamesInv, NamedVersion
<1>6. ASSUME \/ \E w \in due : Invalidate(w)
             \/ \E n \in Names : Expire(n)
      PROVE  NamesInv'
  BY <1>1, <1>6 DEF Invalidate, Expire, NamesInv, NamedVersion, ServingTypeInv
<1>7. ASSUME Restart PROVE NamesInv'
  BY <1>1, <1>7 DEF Restart, NamesInv, NamedVersion, Idle
<1>8. ASSUME NEW q \in Readers, Ask(q) PROVE NamesInv'
  <2>1. UNCHANGED <<vars, aliasVars>>
    BY <1>8 DEF Ask
  <2>2. PICK a \in Asked :
            LET asked == [Idle EXCEPT !.wants = a[1], !.bounds = a[2]] IN
            IF a[1] \in Names THEN Goes(q, [asked EXCEPT !.at = "resolve"])
            ELSE \E v \in Versions :
                    Goes(q, [asked EXCEPT !.at = IF a[2] THEN "scan" ELSE "open",
                                          !.version = v])
    BY <1>8 DEF Ask
  <2>3. CASE a[1] \in Names
    BY <2>1, <2>2, <2>3, GoesNamed DEF NamesInv, aliasVars, Idle
  <2>4. CASE a[1] \notin Names
    BY <2>1, <2>2, <2>4, GoesNamed DEF NamesInv, aliasVars, Idle
  <2>5. QED
    BY <2>3, <2>4
<1>9. ASSUME NEW q \in Readers, Resolve(q) PROVE NamesInv'
  <2>1. UNCHANGED <<vars, aliasVars>>
    BY <1>9 DEF Resolve
  <2>2. /\ reader[q] \in ReaderStates /\ reader[q].wants \in Names
        /\ reader[q].at = "resolve"
    BY <1>9 DEF Resolve, ServingTypeInv, ReaderTyped
  <2>3. NamedVersion(currentVersion) /\ NamedVersion(alias)
    BY DEF MirrorInv, NamesInv, NamedVersion
  <2>4. CASE \E v \in cached[reader[q].wants] : Goes(q, Resolved(q, v))
    <3>1. PICK v \in cached[reader[q].wants] : Goes(q, Resolved(q, v))
      BY <2>4
    <3>2. NamedVersion(v)
      BY <2>2, <3>1 DEF NamesInv
    <3>3. QED
      BY <2>1, <3>1, <3>2, ResolvedNamed, GoesNamed DEF NamesInv, aliasVars
  <2>5. CASE \E v \in {currentVersion, alias} :
                Goes(q, [reader[q] EXCEPT !.at = "store", !.version = v])
    BY <2>1, <2>2, <2>3, <2>5, GoesNamed DEF NamesInv, aliasVars, ReaderStates
  <2>6. CASE Goes(q, Idle)
    BY <2>1, <2>6, GoesNamed DEF NamesInv, aliasVars, Idle
  <2>7. QED
    BY <1>9, <2>4, <2>5, <2>6 DEF Resolve
<1>10. ASSUME NEW q \in Readers, Store(q) PROVE NamesInv'
  <2>1. NamedVersion(reader[q].version) /\ reader[q].wants \in Names
    BY <1>10 DEF Store, NamesInv, ServingTypeInv, ReaderTyped
  <2>2. \A n \in Names : \A v \in cached'[n] : NamedVersion(v)
    BY <1>10, <2>1 DEF Store, NamesInv, ServingTypeInv
  <2>3. QED
    BY <1>10, <2>1, <2>2, ResolvedNamed, GoesNamed DEF Store
<1>11. ASSUME NEW q \in Readers, Open(q) \/ BoundsCached(q) PROVE NamesInv'
  BY <1>11, GoesNamed DEF Open, BoundsCached, Idle, NamesInv, aliasVars
<1>12. ASSUME NEW q \in Readers, ScanZooms(q) PROVE NamesInv'
  <2>1. UNCHANGED <<vars, aliasVars>>
    BY <1>12 DEF ScanZooms
  <2>2. PICK tiles : Goes(q, IF tiles = NoTiles THEN Idle
                      ELSE [reader[q] EXCEPT !.at = "keep", !.zooms = tiles])
    BY <1>12 DEF ScanZooms
  <2>3. reader[q].at = "scan" /\ reader[q] \in ReaderStates
    BY <1>12 DEF ScanZooms, ServingTypeInv
  <2>4. CASE tiles = NoTiles
    BY <2>1, <2>2, <2>4, GoesNamed DEF Idle, NamesInv, aliasVars
  <2>5. CASE tiles # NoTiles
    <3> DEFINE changed == [reader[q] EXCEPT !.at = "keep", !.zooms = tiles]
    <3>1. /\ changed.at = "keep" /\ changed.wants = reader[q].wants
          /\ changed.version = reader[q].version
      BY <2>3 DEF ReaderStates
    <3>2. changed.wants \in Names => changed.version \in recorded
      BY <2>3, <3>1 DEF NamesInv
    <3>3. Goes(q, changed)
      BY <2>2, <2>5
    <3> HIDE DEF changed
    <3>4. QED
      BY <2>1, <3>1, <3>2, <3>3, GoesNamed DEF NamesInv, aliasVars
  <2>6. QED
    BY <2>4, <2>5
<1>13. ASSUME NEW q \in Readers, ScanExtent(q) PROVE NamesInv'
  BY <1>13, GoesNamed DEF ScanExtent, Idle, NamesInv, aliasVars
<1>14. CASE UNCHANGED servingSpecVars
  BY <1>1, <1>14 DEF servingSpecVars, servingVars, aliasVars, NamesInv, NamedVersion
<1>15. QED
  BY <1>3, <1>4, <1>5, <1>6, <1>7, <1>8, <1>9, <1>10, <1>11, <1>12, <1>13,
     <1>14 DEF ServingNext, Read

\* On a mirror that nobody uploads to, PUTs to or deletes from, a request by
\* name always comes to a version whose tiles are there, through every cache
\* fill, expiry, change of the alias and restart.
THEOREM ResolvedAreServable ==
    ASSUME Uploads = {}, Deletes = {}, PutVersions = {},
           \A r, s \in Remotes : r = s
    PROVE  ServingSpec => []ResolvedServable
<1>1. ServingInit => TypeInv /\ MirrorInv /\ NamesInv
  <2>1. ServingInit => NamesInv
    BY DEF ServingInit, NamesInv, NamedVersion, Idle
  <2>2. QED
    BY <2>1, TypeInit, MirrorInit DEF ServingInit
<1>2. MirrorInv /\ NamesInv => ResolvedServable
  BY DEF MirrorInv, NamesInv, ResolvedServable
<1>3. TypeInv /\ MirrorInv /\ [ServingNext]_servingSpecVars => MirrorInv'
  BY MirrorStep, ServingStepPublishes
<1>4. ServingTypeInv /\ MirrorInv /\ NamesInv /\ [ServingNext]_servingSpecVars
        => NamesInv'
  BY NamesStep
<1>5. QED
  BY <1>1, <1>2, <1>3, <1>4, ServingTypeInit, TypeStep, ServingStepPublishes,
     ServingTypeStep, PTL DEF ServingSpec, servingSpecVars

\* Beside the requests, too, a mirror's recorded versions have their trees,
\* the current version among them, and keep them.
THEOREM MirrorServesRecorded ==
    ASSUME Uploads = {}, Deletes = {}, PutVersions = {},
           \A r, s \in Remotes : r = s
    PROVE  ServingSpec => []RecordedOnDisk /\ []CurrentServable /\ RecordedImmutable
BY ServingImplementsPublish, MirrorRecordedOnDisk, MirrorCurrentServable,
   MirrorRecordedImmutable
=============================================================================
