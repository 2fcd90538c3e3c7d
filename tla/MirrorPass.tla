----------------------------- MODULE MirrorPass -----------------------------
(***************************************************************************)
(* syncRemoteOnce, again and again, of one remote whose maps, versions,    *)
(* current versions and aliases change while a pass is under way: which    *)
(* maps a pass takes, what it reads when, the order it writes in, and what *)
(* a failure in one map does to the others.                                *)
(*                                                                         *)
(* One step pulls one version (VersionPublish has the steps of a pull, and *)
(* the other writers of a map).  Geo objects are left out.                 *)
(***************************************************************************)
EXTENDS Integers, Sequences, FiniteSets

CONSTANTS
    Maps,
    Aliases,
    Current,      \* the pointer that is maps.current_version
    MaxVersion,   \* bound: versions of a map
    MaxEdits,     \* bound: edits of the remote's maps
    MaxFaults,    \* bound: steps that fail
    SyncAllMaps,  \* the remote's selective-sync policy
    SyncNewMaps,
    Selected,     \* sync_remote_maps
    MaxConcurrentMapSyncs

ASSUME BoundsAssumption ==
    MaxVersion \in Nat /\ MaxEdits \in Nat /\ MaxFaults \in Nat
ASSUME PolicyAssumption ==
    SyncAllMaps \in BOOLEAN /\ SyncNewMaps \in BOOLEAN /\ Selected \subseteq Maps
ASSUME CurrentAssumption == Current \notin Aliases
ASSUME LimitAssumption == MaxConcurrentMapSyncs \in Nat \ {0}

Versions == 1..MaxVersion
Unset == 0
Pointers == Aliases \cup {Current}

VARIABLES
    visible,   \* maps the remote lists to our API key
    published, \* map -> how many versions the remote has of it
    moves,     \* map -> pointer -> the values it has had on the remote
    edits,     \* how many edits the remote has had
    known,     \* maps with a row here
    mirrored,  \* map -> versions pulled and recorded
    pointer,   \* map -> pointer -> its value here
    followed,  \* history: which of the remote's moves that value is
    passing,   \* a pass is under way
    aborted,   \* the pass's errgroup context is cancelled
    task,      \* map -> where this pass is with it
    seen,      \* map -> how many versions the remote listed
    target,    \* map -> pointer -> the last move the remote reported
    todo,      \* map -> aliases not yet reconciled in this pass
    faults     \* how many steps have failed

remoteVars == <<visible, published, moves, edits>>
localVars == <<known, mirrored, pointer, followed>>
passVars == <<passing, aborted, task, seen, target, todo>>
vars == <<remoteVars, localVars, passVars, faults>>

TaskStates == {"none", "queued", "listing", "pulling", "aliasing",
               "pointing", "done", "failed"}
Positions == 1..(MaxEdits + 1)

TypeOK ==
    /\ visible \in SUBSET Maps
    /\ published \in [Maps -> 0..MaxVersion]
    /\ moves \in [Maps -> [Pointers -> Seq(Versions \cup {Unset})]]
    /\ edits \in 0..MaxEdits
    /\ known \in SUBSET Maps
    /\ mirrored \in [Maps -> SUBSET Versions]
    /\ pointer \in [Maps -> [Pointers -> Versions \cup {Unset}]]
    /\ followed \in [Maps -> [Pointers -> Positions]]
    /\ passing \in BOOLEAN
    /\ aborted \in BOOLEAN
    /\ task \in [Maps -> TaskStates]
    /\ seen \in [Maps -> 0..MaxVersion]
    /\ target \in [Maps -> [Pointers -> Positions]]
    /\ todo \in [Maps -> SUBSET Aliases]
    /\ faults \in 0..MaxFaults

Init ==
    /\ visible \in SUBSET Maps
    /\ published = [m \in Maps |-> 0]
    /\ moves = [m \in Maps |-> [p \in Pointers |-> <<Unset>>]]
    /\ edits = 0
    /\ known = {}
    /\ mirrored = [m \in Maps |-> {}]
    /\ pointer = [m \in Maps |-> [p \in Pointers |-> Unset]]
    /\ followed = [m \in Maps |-> [p \in Pointers |-> 1]]
    /\ passing = FALSE
    /\ aborted = FALSE
    /\ task = [m \in Maps |-> "none"]
    /\ seen = [m \in Maps |-> 0]
    /\ target = [m \in Maps |-> [p \in Pointers |-> 1]]
    /\ todo = [m \in Maps |-> {}]
    /\ faults = 0

-----------------------------------------------------------------------------
(***************************************************************************)
(* The remote's users                                                      *)
(***************************************************************************)
CreateMap(m) ==
    /\ m \notin visible
    /\ visible' = visible \cup {m}
    /\ UNCHANGED <<published, moves, edits, localVars, passVars, faults>>

Latest(m, p) == moves[m][p][Len(moves[m][p])]

MovePointer(m, p, v) ==
    /\ edits < MaxEdits
    /\ edits' = edits + 1
    /\ moves' = [moves EXCEPT ![m][p] = Append(@, v)]

\* An upload to the remote: a version, and at once the current one.
Publish(m) ==
    /\ m \in visible
    /\ published[m] < MaxVersion
    /\ published' = [published EXCEPT ![m] = @ + 1]
    /\ MovePointer(m, Current, published[m] + 1)
    /\ UNCHANGED <<visible, localVars, passVars, faults>>

\* PUT of an older current version; PUT and DELETE of an alias.
Repoint(m, p, v) ==
    /\ v \in 1..published[m] \/ (v = Unset /\ p # Current)
    /\ v # Latest(m, p)
    /\ MovePointer(m, p, v)
    /\ UNCHANGED <<visible, published, localVars, passVars, faults>>

-----------------------------------------------------------------------------
(***************************************************************************)
(* One pass                                                                *)
(***************************************************************************)
\* Mutant: a selected map is left alone once it is known.
MapsToSync_OnlyNew ==
    IF SyncAllMaps THEN visible \ known
    ELSE {m \in visible : m \notin known /\ (m \in Selected \/ SyncNewMaps)}

MapsToSync ==
    IF SyncAllMaps THEN visible
    ELSE {m \in visible : m \in Selected \/ (SyncNewMaps /\ m \notin known)}

\* ListMaps reports each map's current version with it.
BeginPass ==
    /\ ~passing
    /\ passing' = TRUE
    /\ aborted' = FALSE
    /\ task' = [m \in Maps |-> IF m \in MapsToSync THEN "queued" ELSE "none"]
    /\ target' = [m \in Maps |->
            [target[m] EXCEPT ![Current] = Len(moves[m][Current])]]
    /\ UNCHANGED <<remoteVars, localVars, seen, todo, faults>>

\* mapsForRemote fails: the pass ends before it has begun.
ListMapsFails ==
    /\ ~passing
    /\ faults < MaxFaults
    /\ faults' = faults + 1
    /\ UNCHANGED <<remoteVars, localVars, passVars>>

Goto(m, state) == task' = [task EXCEPT ![m] = state]

\* A call of this pass can succeed.
At(m, state) == task[m] = state /\ ~aborted

Busy == {m \in Maps : task[m] \in {"listing", "pulling", "aliasing", "pointing"}}

\* errgroup's limit, then UpsertSyncedMap.
UpsertSyncedMap(m) ==
    /\ At(m, "queued")
    /\ Cardinality(Busy) < MaxConcurrentMapSyncs
    /\ known' = known \cup {m}
    /\ Goto(m, "listing")
    /\ UNCHANGED <<remoteVars, mirrored, pointer, followed, passing, aborted,
                   seen, target, todo, faults>>

ListVersions(m) ==
    /\ At(m, "listing")
    /\ seen' = [seen EXCEPT ![m] = published[m]]
    /\ Goto(m, "pulling")
    /\ UNCHANGED <<remoteVars, localVars, passing, aborted, target, todo,
                   faults>>

VersionsToPull(m) == 1..seen[m] \ mirrored[m]

\* Mutant: in whatever order the remote lists them.
NextToPull_AnyOrder(m) == VersionsToPull(m)

\* versionsToPull sorts by creation time.
NextToPull(m) ==
    {v \in VersionsToPull(m) : \A w \in VersionsToPull(m) : v <= w}

PullVersion(m) ==
    /\ At(m, "pulling")
    /\ \E v \in NextToPull(m) :
        mirrored' = [mirrored EXCEPT ![m] = @ \cup {v}]
    /\ UNCHANGED <<remoteVars, known, pointer, followed, passVars, faults>>

\* Mutant: a version that cannot be pulled now is left for the next pass.
ListAliases_SkipsPulls(m) ==
    /\ At(m, "pulling")
    /\ target' = [target EXCEPT ![m] = [p \in Pointers |->
            IF p = Current THEN target[m][p] ELSE Len(moves[m][p])]]
    /\ todo' = [todo EXCEPT ![m] = Aliases]
    /\ Goto(m, "aliasing")
    /\ UNCHANGED <<remoteVars, localVars, passing, aborted, seen, faults>>

ListAliases(m) ==
    /\ At(m, "pulling")
    /\ VersionsToPull(m) = {}
    /\ target' = [target EXCEPT ![m] = [p \in Pointers |->
            IF p = Current THEN target[m][p] ELSE Len(moves[m][p])]]
    /\ todo' = [todo EXCEPT ![m] = Aliases]
    /\ Goto(m, "aliasing")
    /\ UNCHANGED <<remoteVars, localVars, passing, aborted, seen, faults>>

TargetVersion(m, p) == moves[m][p][target[m][p]]

SetPointer(m, p) ==
    /\ pointer' = [pointer EXCEPT ![m][p] = TargetVersion(m, p)]
    /\ followed' = [followed EXCEPT ![m][p] = target[m][p]]

\* An alias that agrees already, or whose target is not recorded here, is
\* left alone; one the remote does not have is deleted.
ReconcileAlias(m, a) ==
    /\ At(m, "aliasing")
    /\ a \in todo[m]
    /\ todo' = [todo EXCEPT ![m] = @ \ {a}]
    /\ IF TargetVersion(m, a) \in mirrored[m] \cup {Unset}
       THEN SetPointer(m, a)
       ELSE UNCHANGED <<pointer, followed>>
    /\ UNCHANGED <<remoteVars, known, mirrored, passing, aborted, task, seen,
                   target, faults>>

AliasesReconciled(m) ==
    /\ At(m, "aliasing")
    /\ todo[m] = {}
    /\ Goto(m, "pointing")
    /\ UNCHANGED <<remoteVars, localVars, passing, aborted, seen, target,
                   todo, faults>>

\* ErrSyncedVersionNotRecorded is not an error here.
SetSyncedCurrentVersion(m) ==
    /\ At(m, "pointing")
    /\ IF TargetVersion(m, Current) \in mirrored[m]
       THEN SetPointer(m, Current)
       ELSE UNCHANGED <<pointer, followed>>
    /\ Goto(m, "done")
    /\ UNCHANGED <<remoteVars, known, mirrored, passing, aborted, seen,
                   target, todo, faults>>

\* Any call to the remote, to the database or to the file system fails.
Fail(m) ==
    /\ m \in Busy \/ task[m] = "queued"
    /\ ~aborted
    /\ faults < MaxFaults
    /\ faults' = faults + 1
    /\ aborted' = TRUE
    /\ Goto(m, "failed")
    /\ UNCHANGED <<remoteVars, localVars, passing, seen, target, todo>>

\* The other maps' calls fail with the errgroup's context.
GiveUp(m) ==
    /\ aborted
    /\ m \in Busy \/ task[m] = "queued"
    /\ Goto(m, "failed")
    /\ UNCHANGED <<remoteVars, localVars, passing, aborted, seen, target,
                   todo, faults>>

\* g.Wait returns, and the worker waits for its ticker.
EndPass ==
    /\ passing
    /\ \A m \in Maps : task[m] \in {"none", "done", "failed"}
    /\ passing' = FALSE
    /\ UNCHANGED <<remoteVars, localVars, aborted, task, seen, target, todo,
                   faults>>

SyncMap(m) ==
    \/ UpsertSyncedMap(m)
    \/ ListVersions(m)
    \/ PullVersion(m)
    \/ ListAliases(m)
    \/ \E a \in Aliases : ReconcileAlias(m, a)
    \/ AliasesReconciled(m)
    \/ SetSyncedCurrentVersion(m)
    \/ GiveUp(m)

Edit(m) ==
    \/ CreateMap(m)
    \/ Publish(m)
    \/ \E p \in Pointers, v \in Versions \cup {Unset} : Repoint(m, p, v)

Next ==
    \/ BeginPass
    \/ ListMapsFails
    \/ EndPass
    \/ \E m \in Maps : Edit(m) \/ SyncMap(m) \/ Fail(m)

\* The worker's ticker fires, and calls return (the client has timeouts).
\* That failures are transient is MaxFaults.
Fairness ==
    /\ WF_vars(BeginPass)
    /\ WF_vars(EndPass)
    /\ \A m \in Maps : WF_vars(SyncMap(m))

Spec == Init /\ [][Next]_vars
FairSpec == Spec /\ Fairness

-----------------------------------------------------------------------------
(***************************************************************************)
(* Properties                                                              *)
(***************************************************************************)
\* Whatever fails wherever, the local server is a mirror of the remote in
\* the sense of module Mirror: its versions are the remote's oldest ones,
\* and no pointer is ever set back, or ahead of the versions here.
Copied == INSTANCE Mirror WITH
    published <- published, moves <- moves,
    mirrored <- mirrored, pointer <- pointer, followed <- followed
IsMirror == Copied!Spec

\* By the time a pass sets the current version, the version it is to be set
\* to has been pulled, although the remote reported it before it reported
\* the versions and went on publishing since.
CurrentTargetPulled ==
    \A m \in Maps :
        task[m] = "pointing"
            => TargetVersion(m, Current) \in mirrored[m] \cup {Unset}

\* When the remote rests and no call fails any more, the maps that the
\* policy always mirrors become equal to the remote's, and stay so.
Mirrored(m) ==
    /\ mirrored[m] = 1..published[m]
    /\ \A p \in Pointers : pointer[m][p] = Latest(m, p)
Converges ==
    \A m \in Maps :
        <>[](m \in visible /\ (SyncAllMaps \/ m \in Selected) => Mirrored(m))
=============================================================================
