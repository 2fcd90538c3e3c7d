------------------------------ MODULE MapTypes ------------------------------
(***************************************************************************)
(* The constants shared by the modules about one map's versions.           *)
(*                                                                         *)
(* Everything is about ONE map UUID: no statement of internal/store and no *)
(* file operation of the upload, delete and sync code touches the rows or  *)
(* the directories of two maps at once.                                    *)
(***************************************************************************)
EXTENDS Integers

CONSTANTS
    MaxVersion, \* bound: the highest version number the model may assign
    Uploads,    \* POST /maps/{id}/upload requests, each with its own tiles
    Remotes,    \* upstream servers with a sync worker that mirrors this map
    NoTiles     \* "this directory does not exist"

(***************************************************************************)
(* Version numbers are decimal strings in the code, always strconv.Itoa of *)
(* a positive int; the empty string of maps.current_version is NoVersion.  *)
(***************************************************************************)
Versions == 1..MaxVersion
NoVersion == 0
VersionOrNone == Versions \cup {NoVersion}

(***************************************************************************)
(* A process that owns a staging directory: an upload or a sync worker.    *)
(***************************************************************************)
Writers == Uploads \cup Remotes

(***************************************************************************)
(* What a version directory can contain: the tiles of one upload, or the   *)
(* tiles a remote serves for one version.  Every upload and every pair of  *)
(* a remote and a version is distinct content.                             *)
(***************************************************************************)
Tiles == Uploads \cup (Remotes \X Versions)

ASSUME MaxVersionAssumption == MaxVersion \in Nat
ASSUME WritersAssumption == Uploads \cap Remotes = {}
ASSUME TilesAssumption ==
    /\ NoTiles \notin Tiles
    /\ Uploads \cap (Remotes \X Versions) = {}
=============================================================================
