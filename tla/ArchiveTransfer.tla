-------------------------- MODULE ArchiveTransfer ---------------------------
(***************************************************************************)
(* One version on its way from a remote to its mirror: the remote walks    *)
(* the version's directory and writes a zip as it goes; the mirror         *)
(* downloads it, extracts it and records the version.  Meanwhile files may *)
(* be unreadable, the remote's map may be deleted (which removes its files *)
(* one by one), and the connection may break.                              *)
(***************************************************************************)
EXTENDS Integers, FiniteSets

CONSTANTS
    Files,     \* the tiles of the version
    CanDelete, \* the remote's map may be deleted during the walk
    CanMisread \* reading a file on the remote may fail

ASSUME SwitchesAssumption == CanDelete \in BOOLEAN /\ CanMisread \in BOOLEAN

VARIABLES
    disk,    \* files in the remote's version directory
    left,    \* files the walk has not come to
    stream,  \* state of the response body
    whole,   \* files the zip has, with all their bytes
    partial, \* files the zip has, with some of their bytes or none
    puller,  \* where pullVersion is
    tiles    \* files stored for the version, once it is recorded

sentVars == <<left, stream, whole, partial>>
transferVars == <<disk, sentVars, puller, tiles>>

TransferTypeOK ==
    /\ disk \in SUBSET Files
    /\ left \in SUBSET Files
    /\ stream \in {"none", "open", "closed", "broken"}
    /\ whole \in SUBSET Files
    /\ partial \in SUBSET Files
    /\ puller \in {"idle", "downloading", "extracting", "recorded"}
    /\ tiles \in SUBSET Files

TransferInit ==
    /\ disk = Files
    /\ left = {}
    /\ stream = "none"
    /\ whole = {}
    /\ partial = {}
    /\ puller = "idle"
    /\ tiles = {}

-----------------------------------------------------------------------------
(***************************************************************************)
(* mapVersionArchiveHandler                                                *)
(***************************************************************************)
\* os.Stat finds the directory; 404 changes nothing on either side.
BeginArchive ==
    /\ puller = "idle"
    /\ disk # {}
    /\ puller' = "downloading"
    /\ stream' = "open"
    /\ left' = Files
    /\ whole' = {}
    /\ partial' = {}
    /\ UNCHANGED <<disk, tiles>>

SendFile(f) ==
    /\ stream = "open"
    /\ f \in left \cap disk
    /\ left' = left \ {f}
    /\ whole' = whole \cup {f}
    /\ UNCHANGED <<disk, stream, partial, puller, tiles>>

\* Gone before its directory was listed, so the walk never hears of it.
PassOver(f) ==
    /\ stream = "open"
    /\ f \in left \ disk
    /\ left' = left \ {f}
    /\ UNCHANGED <<disk, stream, whole, partial, puller, tiles>>

\* Mutant: an error of one file does not end the walk.
WalkFails_GoesOn(f) ==
    /\ stream = "open"
    /\ f \in left
    /\ f \notin disk \/ CanMisread
    /\ left' = left \ {f}
    /\ partial' = partial \cup {f}
    /\ UNCHANGED <<disk, stream, whole, puller, tiles>>

\* Opening or reading a file fails after its entry was created.  The walk
\* ends there; the deferred zw.Close writes the directory of the zip.
WalkFails(f) ==
    /\ stream = "open"
    /\ f \in left
    /\ f \notin disk \/ CanMisread
    /\ stream' = "closed"
    /\ partial' = partial \cup {f}
    /\ UNCHANGED <<disk, left, whole, puller, tiles>>

WalkEnds ==
    /\ stream = "open"
    /\ left = {}
    /\ stream' = "closed"
    /\ UNCHANGED <<disk, left, whole, partial, puller, tiles>>

\* The network, WriteTimeout, or the end of the remote's process.
ConnectionBreaks ==
    /\ stream = "open"
    /\ stream' = "broken"
    /\ UNCHANGED <<disk, left, whole, partial, puller, tiles>>

RemoveFile(f) ==
    /\ CanDelete
    /\ f \in disk
    /\ disk' = disk \ {f}
    /\ UNCHANGED <<sentVars, puller, tiles>>

-----------------------------------------------------------------------------
(***************************************************************************)
(* DownloadArchive and pullVersion                                         *)
(***************************************************************************)
\* Mutant: the error of io.Copy is dropped.
Downloaded_AnyEnd ==
    /\ puller = "downloading"
    /\ stream \in {"closed", "broken"}
    /\ puller' = "extracting"
    /\ UNCHANGED <<disk, sentVars, tiles>>

Downloaded ==
    /\ puller = "downloading"
    /\ stream = "closed"
    /\ puller' = "extracting"
    /\ UNCHANGED <<disk, sentVars, tiles>>

\* The body ends early; or any later step fails.  The next pass begins anew.
PullFails ==
    /\ \/ puller = "downloading" /\ stream = "broken"
       \/ puller = "extracting"
    /\ puller' = "idle"
    /\ UNCHANGED <<disk, sentVars, tiles>>

\* extractZip takes every entry of a readable zip, whatever its length.
ExtractAndRecord ==
    /\ puller = "extracting"
    /\ puller' = "recorded"
    /\ tiles' = whole \cup partial
    /\ UNCHANGED <<disk, sentVars>>

TransferNext ==
    \/ BeginArchive
    \/ \E f \in Files :
        SendFile(f) \/ PassOver(f) \/ WalkFails(f) \/ RemoveFile(f)
    \/ WalkEnds
    \/ ConnectionBreaks
    \/ Downloaded
    \/ PullFails
    \/ ExtractAndRecord

TransferSpec == TransferInit /\ [][TransferNext]_transferVars

-----------------------------------------------------------------------------
\* Tiles are missing from a recorded version only if they were missing, or
\* could not be read, on the remote: no connection that breaks, and no
\* download that is begun again, leaves a part of a version behind.
MissingOnlyByRemote ==
    puller = "recorded" /\ disk = Files /\ partial = {} => tiles = Files

\* What holds whatever happens on the remote: the files that arrive whole
\* are recorded, and of the others at most the one the walk stopped at.
AtMostOnePartial ==
    puller = "recorded" =>
        /\ whole \subseteq tiles
        /\ Cardinality(tiles \ whole) <= 1
=============================================================================
