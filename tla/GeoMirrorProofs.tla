--------------------------- MODULE GeoMirrorProofs ---------------------------
(***************************************************************************)
(* CopyComplete and NoOrphans, for any remotes, objects and bounds.  The   *)
(* strengthening follows a pass through its writes: an object that is not  *)
(* yet as the pass listed it is still to be written or deleted, unless     *)
(* somebody else has changed it.                                           *)
(***************************************************************************)
EXTENDS GeoMirror, TLAPS

Row == [Objects -> Times \cup {Absent}]

\* The parts of TypeOK the claims rest on.
PassType ==
    /\ pass \in [Remotes ->
                    [at : {"waiting", "local", "write", "done"}, listed : Row,
                     upserts : SUBSET Objects, deletes : SUBSET Objects]]
    /\ touched \in [Remotes -> SUBSET Objects]

RowType ==
    /\ recorded \in BOOLEAN
    /\ here \in Row
    /\ theirs \in [Remotes -> Row]
    /\ changes \in 0..MaxChanges

\* An object to be upserted was listed, one to be deleted was not.
Sorted ==
    \A r \in Remotes :
        /\ pass[r].upserts \subseteq Existing(pass[r].listed)
        /\ pass[r].deletes \cap Existing(pass[r].listed) = {}

Pending ==
    \A r \in Remotes : pass[r].at = "write" =>
        \A o \in Objects :
            \/ o \in touched[r] \cup pass[r].upserts \cup pass[r].deletes
            \/ here[o] = pass[r].listed[o]

Complete ==
    \A r \in Remotes : pass[r].at = "done" =>
        \A o \in Objects : o \in touched[r] \/ here[o] = pass[r].listed[o]

Orphanless == ~recorded => \A o \in Objects : here[o] = Absent

IInv == RowType /\ PassType /\ Sorted /\ Pending /\ Complete /\ Orphanless

LEMMA IdleType ==
    ASSUME NEW at \in {"waiting", "local", "write", "done"}, NEW row \in Row
    PROVE  /\ Idle(at) \in [at : {"waiting", "local", "write", "done"}, listed : Row,
                            upserts : SUBSET Objects, deletes : SUBSET Objects]
           /\ Idle(at).at = at
           /\ Idle(at).upserts = {} /\ Idle(at).deletes = {}
  BY BoundsAssumption DEF Idle, None, Row, Absent

LEMMA Initial == Init => IInv
<1>1. None \in Row
  BY DEF None, Row
<1>2. ASSUME Init PROVE IInv
  <2>1. RowType
    <3>1. recorded \in BOOLEAN
      BY <1>2, Zenon DEF Init
    <3>2. here \in Row /\ theirs \in [Remotes -> Row]
      BY <1>1, <1>2, Zenon DEF Init
    <3>3. changes \in 0..MaxChanges
      BY <1>2, BoundsAssumption DEF Init
    <3> QED
      BY <3>1, <3>2, <3>3 DEF RowType
  <2>2. PassType
    BY <1>1, <1>2, IdleType DEF Init, PassType
  <2>3. Sorted /\ Pending /\ Complete
    BY <1>1, <1>2, IdleType DEF Init, Sorted, Pending, Complete
  <2>4. Orphanless
    BY <1>2 DEF Init, Orphanless, None
  <2> QED
    BY <2>1, <2>2, <2>3, <2>4 DEF IInv
<1> QED
  BY <1>2

(***************************************************************************)
(* A change by anyone but a pass: the object is touched for every pass.    *)
(***************************************************************************)
LEMMA HereChanges ==
    ASSUME IInv, NEW changed \in SUBSET Objects,
           here' \in Row, recorded' \in BOOLEAN, changes' \in 0..MaxChanges,
           \A o \in Objects \ changed : here'[o] = here[o],
           Orphanless',
           Touch(changed, {}), UNCHANGED <<theirs, pass>>
    PROVE  IInv'
<1>1. \A r \in Remotes : touched'[r] = touched[r] \cup changed
  BY DEF Touch
<1>2. RowType' /\ PassType'
  BY DEF IInv, RowType, PassType, Touch
<1>3. Sorted'
  BY DEF IInv, Sorted, Existing
<1>4. Pending' /\ Complete'
  BY <1>1 DEF IInv, Pending, Complete
<1> QED
  BY <1>2, <1>3, <1>4 DEF IInv

LEMMA StampType ==
    ASSUME IInv, Stamp
    PROVE  changes' \in 0..MaxChanges /\ changes' \in Times
  BY BoundsAssumption DEF IInv, RowType, Stamp, Times

LEMMA WriteHereKeeps ==
    ASSUME IInv, NEW o \in Objects, NEW time \in Times \cup {Absent},
           recorded \/ time = Absent, Stamp, WriteHere(o, time)
    PROVE  IInv'
<1>1. here' \in Row /\ \A x \in Objects \ {o} : here'[x] = here[x]
  BY DEF IInv, RowType, Row, WriteHere
<1>2. Orphanless'
  BY DEF IInv, Orphanless, WriteHere, RowType, Row
<1>3. recorded' \in BOOLEAN /\ UNCHANGED <<theirs, pass>> /\ Touch({o}, {})
  BY DEF IInv, RowType, WriteHere
<1> QED
  BY <1>1, <1>2, <1>3, StampType, HereChanges

LEMMA WriteThereKeeps ==
    ASSUME IInv, NEW r \in Remotes, NEW o \in Objects, NEW time \in Times \cup {Absent},
           Stamp, WriteThere(r, o, time)
    PROVE  IInv'
<1>1. RowType'
  BY StampType DEF IInv, RowType, Row, WriteThere
<1>2. PassType' /\ Sorted' /\ Pending' /\ Complete' /\ Orphanless'
  BY DEF IInv, PassType, Sorted, Pending, Complete, Orphanless, WriteThere, Existing
<1> QED
  BY <1>1, <1>2 DEF IInv

(***************************************************************************)
(* A step of r's own pass: what it leaves of the other passes' claims.     *)
(***************************************************************************)
\* The record r's pass becomes, and what the invariant asks of it.
Fits(p, r) ==
    /\ p \in [at : {"waiting", "local", "write", "done"}, listed : Row,
              upserts : SUBSET Objects, deletes : SUBSET Objects]
    /\ p.upserts \subseteq Existing(p.listed)
    /\ p.deletes \cap Existing(p.listed) = {}
    /\ p.at = "write" =>
        \A o \in Objects : o \in touched'[r] \cup p.upserts \cup p.deletes
                           \/ here'[o] = p.listed[o]
    /\ p.at = "done" => \A o \in Objects : o \in touched'[r] \/ here'[o] = p.listed[o]

LEMMA PassSteps ==
    ASSUME IInv, NEW r \in Remotes, NEW p, Become(r, p), Fits(p, r),
           RowType', Orphanless',
           touched' \in [Remotes -> SUBSET Objects],
           \A q \in Remotes \ {r} : touched[q] \subseteq touched'[q],
           \A q \in Remotes \ {r}, o \in Objects :
               here'[o] = here[o] \/ o \in touched'[q]
    PROVE  IInv'
<1>1. \A q \in Remotes : pass'[q] = IF q = r THEN p ELSE pass[q]
  BY DEF Become, IInv, PassType
<1>2. PassType'
  BY DEF Become, IInv, PassType, Fits
<1>3. Sorted'
  BY <1>1 DEF Sorted, IInv, Fits, Existing
<1>4. Pending'
  <2> SUFFICES ASSUME NEW q \in Remotes, pass'[q].at = "write", NEW o \in Objects
               PROVE  \/ o \in touched'[q] \cup pass'[q].upserts \cup pass'[q].deletes
                      \/ here'[o] = pass'[q].listed[o]
    BY DEF Pending
  <2>1. CASE q = r
    BY <1>1, <2>1 DEF Fits
  <2>2. CASE q # r
    BY <1>1, <2>2 DEF IInv, Pending
  <2> QED
    BY <2>1, <2>2
<1>5. Complete'
  BY <1>1 DEF Complete, IInv, Fits
<1> QED
  BY <1>2, <1>3, <1>4, <1>5 DEF IInv

LEMMA ListRemoteKeeps ==
    ASSUME IInv, NEW r \in Remotes, ListRemote(r) PROVE IInv'
<1> DEFINE p == [Idle("local") EXCEPT !.listed = theirs[r]]
<1>1. theirs[r] \in Row /\ None \in Row
  BY DEF IInv, RowType, None, Row
<1>2. Fits(p, r)
  BY <1>1, IdleType DEF Fits, Idle
<1>3. Become(r, p) /\ RowType' /\ Orphanless'
  BY DEF ListRemote, IInv, RowType, Orphanless
<1>4. touched' = touched /\ here' = here /\ touched \in [Remotes -> SUBSET Objects]
  BY DEF ListRemote, IInv, PassType
<1> QED
  BY <1>2, <1>3, <1>4, PassSteps

LEMMA ListLocalKeeps ==
    ASSUME IInv, NEW r \in Remotes, ListLocal(r) PROVE IInv'
<1> DEFINE listed == pass[r].listed
           p == [pass[r] EXCEPT !.at = "write",
                                !.upserts = Outdated(listed, here),
                                !.deletes = Surplus(listed, here)]
<1>1. pass[r] \in [at : {"waiting", "local", "write", "done"}, listed : Row,
                   upserts : SUBSET Objects, deletes : SUBSET Objects]
  BY DEF IInv, PassType
<1>2. here \in Row /\ listed \in Row
  BY <1>1 DEF IInv, RowType
<1>3. here' = here /\ touched' = [touched EXCEPT ![r] = {}]
  BY DEF ListLocal
<1>4. Outdated(listed, here) \subseteq Existing(listed)
  BY DEF Outdated
<1>5. Surplus(listed, here) \cap Existing(listed) = {}
  BY DEF Surplus
<1>6. \A o \in Objects : \/ o \in Outdated(listed, here) \cup Surplus(listed, here)
                         \/ here[o] = listed[o]
  BY DEF Outdated, Surplus, Existing
<1>7. p.at = "write" /\ p.listed = listed
      /\ p.upserts = Outdated(listed, here) /\ p.deletes = Surplus(listed, here)
  BY <1>1
<1>8. p \in [at : {"waiting", "local", "write", "done"}, listed : Row,
             upserts : SUBSET Objects, deletes : SUBSET Objects]
  <2>1. Outdated(listed, here) \subseteq Objects /\ Surplus(listed, here) \subseteq Objects
    BY DEF Outdated, Surplus, Existing
  <2> QED
    BY <1>1, <2>1
<1> HIDE DEF p, listed
<1>9. Fits(p, r)
  BY <1>3, <1>4, <1>5, <1>6, <1>7, <1>8 DEF Fits
<1>10. Become(r, p)
  BY DEF ListLocal, p, listed
<1>11. RowType' /\ Orphanless'
  BY DEF ListLocal, IInv, RowType, Orphanless
<1>12. touched' \in [Remotes -> SUBSET Objects]
       /\ \A q \in Remotes \ {r} : touched'[q] = touched[q]
  BY <1>3 DEF IInv, PassType
<1> QED
  BY <1>3, <1>9, <1>10, <1>11, <1>12, PassSteps

(***************************************************************************)
(* A write of r's pass: to object o, which was still to be written.        *)
(***************************************************************************)
LEMMA OwnTouch ==
    ASSUME IInv, NEW r \in Remotes, NEW changed \in SUBSET Objects, Touch(changed, {r})
    PROVE  /\ touched' \in [Remotes -> SUBSET Objects]
           /\ touched'[r] = touched[r]
           /\ \A q \in Remotes \ {r} : touched'[q] = touched[q] \cup changed
  BY DEF Touch, IInv, PassType

LEMMA UpsertKeeps ==
    ASSUME IInv, NEW r \in Remotes, NEW o \in Objects, Upsert(r, o) PROVE IInv'
<1>1. pass[r] \in [at : {"waiting", "local", "write", "done"}, listed : Row,
                   upserts : SUBSET Objects, deletes : SUBSET Objects]
  BY DEF IInv, PassType
<1>2. CASE recorded
  <2> DEFINE p == [pass[r] EXCEPT !.upserts = @ \ {o}]
  <2>1. Become(r, p) /\ Touch({o}, {r})
        /\ here' = [here EXCEPT ![o] = pass[r].listed[o]]
        /\ UNCHANGED <<recorded, theirs, changes>>
    BY <1>2 DEF Upsert
  <2>2. p.at = "write" /\ p.listed = pass[r].listed
        /\ p.upserts = pass[r].upserts \ {o} /\ p.deletes = pass[r].deletes
    BY <1>1 DEF Upsert
  <2>3. p \in [at : {"waiting", "local", "write", "done"}, listed : Row,
               upserts : SUBSET Objects, deletes : SUBSET Objects]
    BY <1>1
  <2> HIDE DEF p
  <2>4. here' \in Row /\ here'[o] = pass[r].listed[o]
        /\ \A x \in Objects \ {o} : here'[x] = here[x]
    BY <1>1, <2>1 DEF IInv, RowType, Row
  <2>5. \A x \in Objects : \/ x \in touched'[r] \cup p.upserts \cup p.deletes
                           \/ here'[x] = p.listed[x]
    <3>1. touched'[r] = touched[r]
      BY <2>1, OwnTouch
    <3>2. \A x \in Objects :
            \/ x \in touched[r] \cup pass[r].upserts \cup pass[r].deletes
            \/ here[x] = pass[r].listed[x]
      BY DEF IInv, Pending, Upsert
    <3> QED
      BY <2>2, <2>4, <3>1, <3>2
  <2>6. Fits(p, r)
    <3>1. p.upserts \subseteq Existing(p.listed) /\ p.deletes \cap Existing(p.listed) = {}
      BY <2>2 DEF IInv, Sorted
    <3> QED
      BY <2>2, <2>3, <2>5, <3>1 DEF Fits
  <2>7. RowType' /\ Orphanless'
    BY <1>2, <2>1, <2>4 DEF IInv, RowType, Orphanless
  <2>8. touched' \in [Remotes -> SUBSET Objects]
        /\ \A q \in Remotes \ {r} : touched'[q] = touched[q] \cup {o}
    BY <2>1, OwnTouch
  <2>9. /\ \A q \in Remotes \ {r} : touched[q] \subseteq touched'[q]
        /\ \A q \in Remotes \ {r}, x \in Objects : here'[x] = here[x] \/ x \in touched'[q]
    BY <2>4, <2>8
  <2> QED
    BY <2>1, <2>6, <2>7, <2>8, <2>9, PassSteps
<1>3. CASE ~recorded
  <2>1. Become(r, Idle("waiting")) /\ here' = here /\ touched' = touched
        /\ UNCHANGED <<recorded, theirs, changes>>
    BY <1>3 DEF Upsert
  <2>2. Fits(Idle("waiting"), r)
    BY IdleType DEF Fits, None, Row, Idle
  <2>3. RowType' /\ Orphanless' /\ touched \in [Remotes -> SUBSET Objects]
    BY <2>1 DEF IInv, RowType, Orphanless, PassType
  <2> QED
    BY <2>1, <2>2, <2>3, PassSteps
<1> QED
  BY <1>2, <1>3 DEF IInv, RowType

LEMMA DeleteKeeps ==
    ASSUME IInv, NEW r \in Remotes, NEW o \in Objects, Delete(r, o) PROVE IInv'
<1> DEFINE p == [pass[r] EXCEPT !.deletes = @ \ {o}]
<1>1. pass[r] \in [at : {"waiting", "local", "write", "done"}, listed : Row,
                   upserts : SUBSET Objects, deletes : SUBSET Objects]
  BY DEF IInv, PassType
<1>2. Become(r, p) /\ Touch({o} \cap Existing(here), {r})
      /\ here' = [here EXCEPT ![o] = Absent]
      /\ UNCHANGED <<recorded, theirs, changes>>
  BY DEF Delete
<1>3. p.at = "write" /\ p.listed = pass[r].listed
      /\ p.upserts = pass[r].upserts /\ p.deletes = pass[r].deletes \ {o}
  BY <1>1 DEF Delete
<1>4. p \in [at : {"waiting", "local", "write", "done"}, listed : Row,
             upserts : SUBSET Objects, deletes : SUBSET Objects]
  BY <1>1
<1> HIDE DEF p
<1>5. here' \in Row /\ here'[o] = Absent /\ \A x \in Objects \ {o} : here'[x] = here[x]
  BY <1>2 DEF IInv, RowType, Row
<1>6. pass[r].listed[o] = Absent
  BY DEF Delete, IInv, Sorted, Existing
<1>7. \A x \in Objects : \/ x \in touched'[r] \cup p.upserts \cup p.deletes
                         \/ here'[x] = p.listed[x]
  <2>1. touched'[r] = touched[r]
    BY <1>2, OwnTouch DEF Existing
  <2>2. \A x \in Objects :
          \/ x \in touched[r] \cup pass[r].upserts \cup pass[r].deletes
          \/ here[x] = pass[r].listed[x]
    BY DEF IInv, Pending, Delete
  <2> QED
    BY <1>3, <1>5, <1>6, <2>1, <2>2
<1>8. Fits(p, r)
  BY <1>3, <1>4, <1>7 DEF Fits, IInv, Sorted
<1>9. RowType' /\ Orphanless'
  BY <1>2, <1>5 DEF IInv, RowType, Orphanless
<1>10. \A q \in Remotes \ {r}, x \in Objects : here'[x] = here[x] \/ x \in touched'[q]
  <2>1. \A q \in Remotes \ {r} : touched'[q] = touched[q] \cup ({o} \cap Existing(here))
    BY <1>2, OwnTouch
  <2>2. o \in Existing(here) \/ here'[o] = here[o]
    BY <1>5 DEF Existing
  <2> QED
    BY <1>5, <2>1, <2>2
<1>11. touched' \in [Remotes -> SUBSET Objects]
       /\ \A q \in Remotes \ {r} : touched[q] \subseteq touched'[q]
  BY <1>2, OwnTouch
<1> QED
  BY <1>2, <1>8, <1>9, <1>10, <1>11, PassSteps

LEMMA FinishKeeps ==
    ASSUME IInv, NEW r \in Remotes, Finish(r) PROVE IInv'
<1> DEFINE p == [pass[r] EXCEPT !.at = "done"]
<1>1. pass[r] \in [at : {"waiting", "local", "write", "done"}, listed : Row,
                   upserts : SUBSET Objects, deletes : SUBSET Objects]
  BY DEF IInv, PassType
<1>2. p.at = "done" /\ p.listed = pass[r].listed
      /\ p.upserts = {} /\ p.deletes = {}
      /\ p \in [at : {"waiting", "local", "write", "done"}, listed : Row,
               upserts : SUBSET Objects, deletes : SUBSET Objects]
  BY <1>1 DEF Finish
<1>3. Become(r, p) /\ here' = here /\ touched' = touched
      /\ touched \in [Remotes -> SUBSET Objects] /\ RowType' /\ Orphanless'
  BY DEF Finish, IInv, RowType, Orphanless, PassType
<1> HIDE DEF p
<1>4. \A x \in Objects : x \in touched'[r] \/ here'[x] = p.listed[x]
  BY <1>2, <1>3 DEF IInv, Pending, Finish
<1>5. Fits(p, r)
  BY <1>2, <1>4 DEF Fits
<1> QED
  BY <1>3, <1>5, PassSteps

LEMMA FailKeeps ==
    ASSUME IInv, NEW r \in Remotes, Fail(r) PROVE IInv'
<1>1. Become(r, Idle("waiting")) /\ here' = here /\ touched' = touched
      /\ touched \in [Remotes -> SUBSET Objects] /\ RowType' /\ Orphanless'
  BY DEF Fail, IInv, RowType, Orphanless, PassType
<1>2. Fits(Idle("waiting"), r)
  BY IdleType DEF Fits, None, Row, Idle
<1> QED
  BY <1>1, <1>2, PassSteps

LEMMA DeleteMapKeeps == ASSUME IInv, DeleteMap PROVE IInv'
<1>1. None \in Row /\ \A o \in Objects : None[o] = Absent
  BY DEF None, Row
<1>2. here' \in Row /\ Orphanless' /\ recorded' \in BOOLEAN
  BY <1>1 DEF DeleteMap, Orphanless
<1>3. \A o \in Objects \ Existing(here) : here'[o] = here[o]
  BY <1>1 DEF DeleteMap, Existing
<1>4. Touch(Existing(here), {}) /\ UNCHANGED <<theirs, pass>> /\ Stamp
  BY DEF DeleteMap
<1>5. Existing(here) \in SUBSET Objects
  BY DEF Existing
<1> QED
  BY <1>2, <1>3, <1>4, <1>5, StampType, HereChanges

LEMMA RequestKeeps ==
    ASSUME IInv, NEW o \in Objects, Request(o) PROVE IInv'
<1>1. ASSUME CreateGeoObject(o) PROVE IInv'
  BY <1>1, StampType, WriteHereKeeps DEF CreateGeoObject
<1>2. ASSUME UpdateGeoObject(o) PROVE IInv'
  <2>1. recorded
    BY <1>2 DEF UpdateGeoObject, IInv, Orphanless, Existing
  <2> QED
    BY <1>2, <2>1, StampType, WriteHereKeeps DEF UpdateGeoObject
<1>3. ASSUME DeleteGeoObject(o) PROVE IInv'
  BY <1>3, WriteHereKeeps DEF DeleteGeoObject
<1> QED
  BY <1>1, <1>2, <1>3 DEF Request

LEMMA RemoteRequestKeeps ==
    ASSUME IInv, NEW r \in Remotes, NEW o \in Objects, RemoteRequest(r, o) PROVE IInv'
<1>1. ASSUME RemoteCreates(r, o) PROVE IInv'
  BY <1>1, StampType, WriteThereKeeps DEF RemoteCreates
<1>2. ASSUME RemoteUpdates(r, o) PROVE IInv'
  BY <1>2, StampType, WriteThereKeeps DEF RemoteUpdates
<1>3. ASSUME RemoteDeletes(r, o) PROVE IInv'
  BY <1>3, WriteThereKeeps DEF RemoteDeletes
<1>4. ASSUME NEW q \in Remotes, RemoteMirrors(r, q, o) PROVE IInv'
  <2>1. theirs[q][o] \in Times \cup {Absent}
    BY DEF IInv, RowType, Row
  <2> QED
    BY <1>4, <2>1, WriteThereKeeps DEF RemoteMirrors
<1> QED
  BY <1>1, <1>2, <1>3, <1>4 DEF RemoteRequest

LEMMA StepKeeps == IInv /\ [Next]_vars => IInv'
<1> SUFFICES ASSUME IInv, [Next]_vars PROVE IInv'
  OBVIOUS
<1>1. CASE Next
  <2>1. ASSUME NEW r \in Remotes, Step(r) PROVE IInv'
    BY <2>1, ListRemoteKeeps, ListLocalKeeps, UpsertKeeps, DeleteKeeps, FinishKeeps DEF Step
  <2> QED
    BY <1>1, <2>1, DeleteMapKeeps, RequestKeeps, RemoteRequestKeeps, FailKeeps DEF Next
<1>2. CASE UNCHANGED vars
  BY <1>2 DEF vars, IInv, RowType, PassType, Sorted, Pending, Complete, Orphanless, Existing
<1> QED
  BY <1>1, <1>2

LEMMA Invariance == Spec => []IInv
  BY Initial, StepKeeps, PTL DEF Spec

\* What no claim about a pass rests on: the ids given out, the failures.
Counted == given \subseteq Objects /\ faults \in 0..MaxFaults

LEMMA CountedKeeps == Counted /\ [Next]_vars => Counted'
<1> USE BoundsAssumption DEF Counted
<1> SUFFICES ASSUME Counted, [Next]_vars PROVE Counted'
  OBVIOUS
<1>1. CASE DeleteMap
  BY <1>1 DEF DeleteMap
<1>2. ASSUME NEW o \in Objects, Request(o) PROVE Counted'
  BY <1>2 DEF Request, CreateGeoObject, UpdateGeoObject, DeleteGeoObject, WriteHere
<1>3. ASSUME NEW o \in Objects, NEW r \in Remotes, RemoteRequest(r, o) PROVE Counted'
  BY <1>3 DEF RemoteRequest, RemoteCreates, RemoteUpdates, RemoteDeletes, RemoteMirrors,
              WriteThere
<1>4. ASSUME NEW r \in Remotes, Step(r) PROVE Counted'
  BY <1>4 DEF Step, ListRemote, ListLocal, Upsert, Delete, Finish
<1>5. ASSUME NEW r \in Remotes, Fail(r) PROVE Counted'
  BY <1>5 DEF Fail
<1>6. CASE UNCHANGED vars
  BY <1>6 DEF vars
<1> QED
  BY <1>1, <1>2, <1>3, <1>4, <1>5, <1>6 DEF Next

\* The rows, passes and histories keep their types, and no pass is about to
\* both write and delete one object (reconcileGeoObjects' two loops).
THEOREM TypeCorrect == Spec => []TypeOK
<1>1. Init => Counted
  BY BoundsAssumption DEF Init, Counted
<1>2. IInv /\ Counted => TypeOK
  <2> SUFFICES ASSUME IInv, Counted PROVE TypeOK
    OBVIOUS
  <2>1. \A r \in Remotes : pass[r].upserts \cap pass[r].deletes = {}
    BY DEF IInv, Sorted
  <2> QED
    BY <2>1 DEF IInv, RowType, PassType, Row, Counted, TypeOK
<1> QED
  BY <1>1, <1>2, Invariance, CountedKeeps, PTL DEF Spec

\* A finished pass has left each object as listed, or touched by others.
THEOREM PassesCopyCompletely == Spec => []CopyComplete
<1>1. IInv => CopyComplete
  BY DEF IInv, Complete, CopyComplete
<1> QED
  BY <1>1, Invariance, PTL

\* No object is here without its version's row.
THEOREM ObjectsHaveTheirVersion == Spec => []NoOrphans
<1>1. IInv => NoOrphans
  BY DEF IInv, Orphanless, NoOrphans, Existing
<1> QED
  BY <1>1, Invariance, PTL
=============================================================================
