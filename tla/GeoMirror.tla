----------------------------- MODULE GeoMirror -----------------------------
(***************************************************************************)
(* The geo objects of one map version, kept here as a mirror of the remotes*)
(* that offer the map.  They are edited in place, here and on the remotes, *)
(* while each remote's pass lists its objects, lists ours, and then writes *)
(* and deletes one object after the other, with nothing held in between.   *)
(* A remote may itself mirror another one and so show its objects late.    *)
(*                                                                         *)
(* The content of an object is its updated_at: every write takes a time    *)
(* of its own.  The map's row and its versions are MirrorPass's matter:    *)
(* here the version is recorded, or not, and a pass records it first.      *)
(***************************************************************************)
EXTENDS Integers, FiniteSets

CONSTANTS
    Remotes,
    Objects,    \* ids; an id is given out once, here or on a remote
    MaxChanges, \* bound: changes made by people or by a remote's own mirroring
    MaxFaults   \* bound: passes that fail

ASSUME BoundsAssumption == MaxChanges \in Nat /\ MaxFaults \in Nat

Absent == 0
Times == 1..MaxChanges
None == [o \in Objects |-> Absent]

VARIABLES
    recorded, \* the version has its row in map_versions here
    here,     \* object -> its updated_at here
    theirs,   \* remote -> object -> its updated_at there
    pass,     \* remote -> its pass over this version
    given,    \* ids given out
    changes,
    faults,
    touched   \* remote -> what others changed here since its pass listed it

vars == <<recorded, here, theirs, pass, given, changes, faults, touched>>

Idle(at) == [at |-> at, listed |-> None, upserts |-> {}, deletes |-> {}]

TypeOK ==
    /\ recorded \in BOOLEAN
    /\ here \in [Objects -> Times \cup {Absent}]
    /\ theirs \in [Remotes -> [Objects -> Times \cup {Absent}]]
    /\ pass \in [Remotes ->
                    [at : {"waiting", "local", "write", "done"},
                     listed : [Objects -> Times \cup {Absent}],
                     upserts : SUBSET Objects, deletes : SUBSET Objects]]
    /\ \A r \in Remotes : pass[r].upserts \cap pass[r].deletes = {}
    /\ given \subseteq Objects
    /\ changes \in 0..MaxChanges
    /\ faults \in 0..MaxFaults
    /\ touched \in [Remotes -> SUBSET Objects]

Init ==
    /\ recorded = FALSE
    /\ here = None
    /\ theirs = [r \in Remotes |-> None]
    /\ pass = [r \in Remotes |-> Idle("waiting")]
    /\ given = {}
    /\ changes = 0
    /\ faults = 0
    /\ touched = [r \in Remotes |-> {}]

Existing(objects) == {o \in Objects : objects[o] # Absent}

\* What anyone but the pass of r changes behind its back.
Touch(changed, byOthersThan) ==
    touched' = [r \in Remotes |->
                    IF r \in byOthersThan THEN touched[r] ELSE touched[r] \cup changed]

----------------------------------------------------------------------------
(* Requests to this server and to a remote.                                *)

Stamp ==
    /\ changes < MaxChanges
    /\ changes' = changes + 1

WriteHere(o, time) ==
    /\ here' = [here EXCEPT ![o] = time]
    /\ Touch({o}, {})
    /\ UNCHANGED <<recorded, theirs, pass, faults>>

\* No row in map_versions: the foreign key refuses the object.
CreateGeoObject(o) ==
    /\ Stamp
    /\ recorded
    /\ o \notin given
    /\ given' = given \cup {o}
    /\ WriteHere(o, changes')

UpdateGeoObject(o) ==
    /\ Stamp
    /\ o \in Existing(here)
    /\ WriteHere(o, changes')
    /\ UNCHANGED given

DeleteGeoObject(o) ==
    /\ Stamp
    /\ o \in Existing(here)
    /\ WriteHere(o, Absent)
    /\ UNCHANGED given

\* The map's deletion takes its versions and their objects with it.
DeleteMap ==
    /\ Stamp
    /\ recorded
    /\ recorded' = FALSE
    /\ here' = None
    /\ Touch(Existing(here), {})
    /\ UNCHANGED <<theirs, pass, given, faults>>

WriteThere(r, o, time) ==
    /\ theirs' = [theirs EXCEPT ![r][o] = time]
    /\ UNCHANGED <<recorded, here, pass, faults, touched>>

RemoteCreates(r, o) ==
    /\ Stamp
    /\ o \notin given
    /\ given' = given \cup {o}
    /\ WriteThere(r, o, changes')

RemoteUpdates(r, o) ==
    /\ Stamp
    /\ o \in Existing(theirs[r])
    /\ WriteThere(r, o, changes')
    /\ UNCHANGED given

RemoteDeletes(r, o) ==
    /\ Stamp
    /\ o \in Existing(theirs[r])
    /\ WriteThere(r, o, Absent)
    /\ UNCHANGED given

\* Remote r mirrors remote q, and comes to object o.
RemoteMirrors(r, q, o) ==
    /\ Stamp
    /\ theirs[r][o] # theirs[q][o]
    /\ WriteThere(r, o, theirs[q][o])
    /\ UNCHANGED given

----------------------------------------------------------------------------
(* A remote's pass.                                                        *)

Become(r, p) == pass' = [pass EXCEPT ![r] = p]

\* The version is pulled if it is missing, and the remote's objects listed.
ListRemote(r) ==
    /\ pass[r].at \in {"waiting", "done"}
    /\ recorded' = TRUE
    /\ Become(r, [Idle("local") EXCEPT !.listed = theirs[r]])
    /\ UNCHANGED <<here, theirs, given, changes, faults, touched>>

\* Mutant: an object is overwritten only when the remote's is the newer one.
Outdated_Older(listed, local) ==
    {o \in Existing(listed) : listed[o] > local[o]}

\* New here, or of another updated_at.
Outdated(listed, local) ==
    {o \in Existing(listed) : listed[o] # local[o]}

Surplus(listed, local) == Existing(local) \ Existing(listed)

ListLocal(r) ==
    /\ pass[r].at = "local"
    /\ Become(r, [pass[r] EXCEPT !.at = "write",
                                 !.upserts = Outdated(pass[r].listed, here),
                                 !.deletes = Surplus(pass[r].listed, here)])
    /\ touched' = [touched EXCEPT ![r] = {}]
    /\ UNCHANGED <<recorded, here, theirs, given, changes, faults>>

\* The object as listed, whatever became of it here or there since.  Without
\* the version's row the foreign key refuses it, and the pass ends.
Upsert(r, o) ==
    /\ pass[r].at = "write"
    /\ o \in pass[r].upserts
    /\ \/ /\ recorded
          /\ here' = [here EXCEPT ![o] = pass[r].listed[o]]
          /\ Become(r, [pass[r] EXCEPT !.upserts = @ \ {o}])
          /\ Touch({o}, {r})
       \/ /\ ~recorded
          /\ Become(r, Idle("waiting"))
          /\ UNCHANGED <<here, touched>>
    /\ UNCHANGED <<recorded, theirs, given, changes, faults>>

\* One that is gone already is no error.
Delete(r, o) ==
    /\ pass[r].at = "write"
    /\ pass[r].upserts = {}
    /\ o \in pass[r].deletes
    /\ here' = [here EXCEPT ![o] = Absent]
    /\ Become(r, [pass[r] EXCEPT !.deletes = @ \ {o}])
    /\ Touch({o} \cap Existing(here), {r})
    /\ UNCHANGED <<recorded, theirs, given, changes, faults>>

\* Mutant: the pass over a version ends with its upserts.
Finish_KeepsSurplus(r) ==
    /\ pass[r].at = "write"
    /\ pass[r].upserts = {}
    /\ Become(r, [pass[r] EXCEPT !.at = "done", !.deletes = {}])
    /\ UNCHANGED <<recorded, here, theirs, given, changes, faults, touched>>

Finish(r) ==
    /\ pass[r].at = "write"
    /\ pass[r].upserts = {}
    /\ pass[r].deletes = {}
    /\ Become(r, [pass[r] EXCEPT !.at = "done"])
    /\ UNCHANGED <<recorded, here, theirs, given, changes, faults, touched>>

\* A request or a statement fails, or the process dies: the rest is left
\* for a later pass.
Fail(r) ==
    /\ pass[r].at \in {"local", "write"}
    /\ faults < MaxFaults
    /\ faults' = faults + 1
    /\ Become(r, Idle("waiting"))
    /\ UNCHANGED <<recorded, here, theirs, given, changes, touched>>

----------------------------------------------------------------------------

Request(o) ==
    \/ CreateGeoObject(o)
    \/ UpdateGeoObject(o)
    \/ DeleteGeoObject(o)

RemoteRequest(r, o) ==
    \/ RemoteCreates(r, o)
    \/ RemoteUpdates(r, o)
    \/ RemoteDeletes(r, o)
    \/ \E q \in Remotes : RemoteMirrors(r, q, o)

Step(r) ==
    \/ ListRemote(r)
    \/ ListLocal(r)
    \/ \E o \in Objects : Upsert(r, o) \/ Delete(r, o)
    \/ Finish(r)

Next ==
    \/ DeleteMap
    \/ \E o \in Objects : Request(o) \/ \E r \in Remotes : RemoteRequest(r, o)
    \/ \E r \in Remotes : Step(r) \/ Fail(r)

Spec == Init /\ [][Next]_vars

\* A remote's worker starts one pass after the other and goes on with it.
FairSpec == Spec /\ \A r \in Remotes : WF_vars(Step(r))

----------------------------------------------------------------------------

\* A finished pass has left each object as the remote had it when the pass
\* listed it, other than those somebody else has changed here since: edits on
\* either side, a pass of another remote and failed passes never make the
\* comparison by updated_at skip an object (reconcileGeoObjects).
CopyComplete ==
    \A r \in Remotes : pass[r].at = "done" =>
        \A o \in Objects : o \in touched[r] \/ here[o] = pass[r].listed[o]

\* No object outlives its version, although a pass goes on writing what it
\* listed while the map is deleted (ErrGeoObjectInvalid).
NoOrphans == ~recorded => Existing(here) = {}

Agreed == \A q, r \in Remotes : theirs[q] = theirs[r]

\* Once nothing changes and the remotes agree, the objects here come to be
\* theirs, whatever was edited here and whichever passes failed half-way.
Converges ==
    <>[]Agreed => <>[](\A r \in Remotes : here = theirs[r])
=============================================================================
