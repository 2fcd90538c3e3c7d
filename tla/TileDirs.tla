------------------------------ MODULE TileDirs ------------------------------
(***************************************************************************)
(* The directory of one map under the data root: one subdirectory per      *)
(* version and one ".upload-*" staging directory per writer at work.       *)
(*                                                                         *)
(* A tree is extracted, indexed, renamed or removed as a whole.            *)
(***************************************************************************)
EXTENDS MapTypes

VARIABLES
    dirs,   \* version -> the tiles its directory holds, or NoTiles
    staging \* writer -> the tiles its staging directory holds, or NoTiles

dirVars == <<dirs, staging>>

DirTypeOK ==
    /\ dirs \in [Versions -> Tiles \cup {NoTiles}]
    /\ staging \in [Writers -> Tiles \cup {NoTiles}]

DirInit ==
    /\ dirs = [v \in Versions |-> NoTiles]
    /\ staging = [w \in Writers |-> NoTiles]

\* ExtractArchive, then WriteTileIndex: w's staging directory is complete.
ExtractArchive(w, tiles) ==
    /\ staging' = [staging EXCEPT ![w] = tiles]
    /\ UNCHANGED dirs

\* rename(2) wants a source that exists and a target that is not a
\* non-empty directory; a version directory always holds its index.json.
CanRename(w, v) == staging[w] # NoTiles /\ dirs[v] = NoTiles

Rename(w, v) ==
    /\ CanRename(w, v)
    /\ dirs' = [dirs EXCEPT ![v] = staging[w]]
    /\ staging' = [staging EXCEPT ![w] = NoTiles]

\* The deferred os.RemoveAll(stagingDir) of a writer that gives up.
RemoveStaging(w) ==
    /\ staging' = [staging EXCEPT ![w] = NoTiles]
    /\ UNCHANGED dirs

RemoveVersionDir(v) ==
    /\ dirs' = [dirs EXCEPT ![v] = NoTiles]
    /\ UNCHANGED staging

\* os.RemoveAll(MapDir) takes the staging directories with it.
RemoveMapDir ==
    /\ dirs' = [v \in Versions |-> NoTiles]
    /\ staging' = [w \in Writers |-> NoTiles]

\* Directories survive a crash.  A staging directory that survives has a
\* random name nobody looks for again, so it is gone for the model.
DirCrash ==
    /\ staging' = [w \in Writers |-> NoTiles]
    /\ UNCHANGED dirs
=============================================================================
