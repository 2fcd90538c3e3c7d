-------------------------- MODULE MirrorPassProofs --------------------------
(***************************************************************************)
(* Passes over any number of maps, however many edits the remote has and   *)
(* however many steps fail, are the steps of a mirror (module Mirror); and *)
(* what one pull brings of a version.                                      *)
(***************************************************************************)
EXTENDS MirrorPass, ArchiveTransfer, FiniteSetTheorems, TLAPS

Values == Versions \cup {Unset}

\* A pointer has had at most one value for each edit, and one before them.
TypeInv ==
    /\ TypeOK
    /\ \A m \in Maps, p \in Pointers : Len(moves[m][p]) \in 1..(edits + 1)

\* The moves of a pointer after one more.
LEMMA Moved ==
    ASSUME TypeInv, NEW m \in Maps, NEW p \in Pointers, NEW v \in Values,
           MovePointer(m, p, v)
    PROVE  /\ moves' \in [Maps -> [Pointers -> Seq(Values)]]
           /\ edits' = edits + 1 /\ edits' \in 0..MaxEdits
           /\ moves'[m][p] = Append(moves[m][p], v)
           /\ Len(moves'[m][p]) = Len(moves[m][p]) + 1
           /\ moves'[m][p][Len(moves[m][p]) + 1] = v
           /\ \A n \in Maps, q \in Pointers :
                <<n, q>> # <<m, p>> => moves'[n][q] = moves[n][q]
           /\ \A n \in Maps, q \in Pointers :
                /\ Len(moves[n][q]) <= Len(moves'[n][q])
                /\ Len(moves'[n][q]) \in 1..(edits' + 1)
                /\ \A i \in 1..Len(moves[n][q]) :
                    moves'[n][q][i] = moves[n][q][i]
<1>1. moves \in [Maps -> [Pointers -> Seq(Values)]] /\ edits \in 0..MaxEdits
  BY DEF TypeInv, TypeOK, Values
<1>2. edits' = edits + 1 /\ edits' \in 0..MaxEdits
  BY <1>1, BoundsAssumption DEF MovePointer
<1>3. moves[m][p] \in Seq(Values)
  BY <1>1
<1>4. /\ Append(moves[m][p], v) \in Seq(Values)
      /\ Len(Append(moves[m][p], v)) = Len(moves[m][p]) + 1
      /\ Append(moves[m][p], v)[Len(moves[m][p]) + 1] = v
      /\ \A i \in 1..Len(moves[m][p]) :
            Append(moves[m][p], v)[i] = moves[m][p][i]
  BY <1>3
<1>5. /\ moves' = [moves EXCEPT ![m] =
                [moves[m] EXCEPT ![p] = Append(moves[m][p], v)]]
  BY DEF MovePointer
<1>6. /\ moves'[m] = [moves[m] EXCEPT ![p] = Append(moves[m][p], v)]
      /\ \A n \in Maps : n # m => moves'[n] = moves[n]
  BY <1>1, <1>5
<1>7. /\ moves'[m][p] = Append(moves[m][p], v)
      /\ \A n \in Maps, q \in Pointers :
            n # m \/ q # p => moves'[n][q] = moves[n][q]
  BY <1>1, <1>6
<1>8. moves' \in [Maps -> [Pointers -> Seq(Values)]]
  BY <1>1, <1>4, <1>5
<1>9. ASSUME NEW n \in Maps, NEW q \in Pointers
      PROVE  /\ Len(moves[n][q]) <= Len(moves'[n][q])
             /\ Len(moves'[n][q]) \in 1..(edits' + 1)
             /\ \A i \in 1..Len(moves[n][q]) :
                    moves'[n][q][i] = moves[n][q][i]
  <2>1. Len(moves[n][q]) \in 1..(edits + 1)
    BY DEF TypeInv
  <2>2. CASE n = m /\ q = p
    <3>1. moves'[n][q] = Append(moves[m][p], v)
      BY <1>7, <2>2
    <3>2. Len(moves[n][q]) \in Nat /\ Len(moves[n][q]) + 1 \in 1..(edits' + 1)
      BY <1>1, <1>2, <2>1
    <3>3. QED
      BY <1>4, <2>2, <3>1, <3>2
  <2>3. CASE n # m \/ q # p
    <3>1. moves'[n][q] = moves[n][q]
      BY <1>7, <2>3
    <3>2. Len(moves[n][q]) \in 1..(edits' + 1)
      BY <1>1, <1>2, <2>1
    <3>3. QED
      BY <2>1, <3>1, <3>2
  <2>4. QED
    BY <2>2, <2>3
<1>10. QED
  BY <1>2, <1>4, <1>7, <1>8, <1>9

LEMMA TypeInit == Init => TypeInv
<1> SUFFICES ASSUME Init PROVE TypeInv
  OBVIOUS
<1>1. TypeOK
  <2>1. <<Unset>> \in Seq(Versions \cup {Unset})
    OBVIOUS
  <2>2. /\ 0 \in 0..MaxVersion /\ 0 \in 0..MaxEdits /\ 0 \in 0..MaxFaults
        /\ 1 \in Positions
    BY BoundsAssumption DEF Positions
  <2>3. QED
    BY <2>1, <2>2 DEF Init, TypeOK, TaskStates
<1>2. \A m \in Maps, p \in Pointers : Len(moves[m][p]) \in 1..(edits + 1)
  BY DEF Init
<1>3. QED
  BY <1>1, <1>2 DEF TypeInv

\* A position of a pointer's moves is one of the Positions.
LEMMA LenIsPosition ==
    ASSUME TypeInv, NEW m \in Maps, NEW p \in Pointers
    PROVE  Len(moves[m][p]) \in Positions
BY BoundsAssumption DEF TypeInv, TypeOK, Positions

LEMMA TypeStep == TypeInv /\ [Next]_vars => TypeInv'
<1> USE BoundsAssumption, CurrentAssumption
    DEF remoteVars, localVars, passVars, Values
<1> SUFFICES ASSUME TypeInv, [Next]_vars PROVE TypeInv'
  OBVIOUS
<1>0. TypeOK
  BY DEF TypeInv
<1>a. ASSUME UNCHANGED <<moves, edits>>, TypeOK' PROVE TypeInv'
  BY <1>a DEF TypeInv
<1>1. ASSUME NEW m \in Maps, CreateMap(m) PROVE TypeInv'
  <2>1. TypeOK'
    BY <1>0, <1>1 DEF CreateMap, TypeOK
  <2>2. QED
    BY <1>1, <1>a, <2>1 DEF CreateMap
<1>2. ASSUME NEW m \in Maps, Publish(m) PROVE TypeInv'
  <2>1. /\ published[m] + 1 \in Values /\ Current \in Pointers
        /\ published' \in [Maps -> 0..MaxVersion]
    BY <1>0, <1>2 DEF Publish, TypeOK, Versions, Pointers
  <2>2. /\ moves' \in [Maps -> [Pointers -> Seq(Values)]]
        /\ edits' \in 0..MaxEdits
        /\ \A n \in Maps, q \in Pointers : Len(moves'[n][q]) \in 1..(edits' + 1)
    BY <1>2, <2>1, Moved DEF Publish
  <2>3. QED
    BY <1>0, <1>2, <2>1, <2>2 DEF Publish, TypeInv, TypeOK
<1>3. ASSUME NEW m \in Maps, NEW p \in Pointers, NEW v \in Values,
             Repoint(m, p, v)
      PROVE  TypeInv'
  <2>1. /\ moves' \in [Maps -> [Pointers -> Seq(Values)]]
        /\ edits' \in 0..MaxEdits
        /\ \A n \in Maps, q \in Pointers : Len(moves'[n][q]) \in 1..(edits' + 1)
    BY <1>3, Moved DEF Repoint
  <2>2. QED
    BY <1>0, <1>3, <2>1 DEF Repoint, TypeInv, TypeOK
<1>4. ASSUME BeginPass PROVE TypeInv'
  <2>1. \A m \in Maps : Len(moves[m][Current]) \in Positions
    BY LenIsPosition DEF Pointers
  <2>2. target' \in [Maps -> [Pointers -> Positions]]
    BY <1>0, <1>4, <2>1 DEF BeginPass, TypeOK
  <2>3. task' \in [Maps -> TaskStates]
    BY <1>4 DEF BeginPass, TaskStates
  <2>4. TypeOK'
    BY <1>0, <1>4, <2>2, <2>3 DEF BeginPass, TypeOK
  <2>5. QED
    BY <1>4, <1>a, <2>4 DEF BeginPass
<1>5. ASSUME ListMapsFails PROVE TypeInv'
  <2>1. TypeOK'
    BY <1>0, <1>5 DEF ListMapsFails, TypeOK
  <2>2. QED
    BY <1>5, <1>a, <2>1 DEF ListMapsFails
<1>6. ASSUME EndPass PROVE TypeInv'
  <2>1. TypeOK'
    BY <1>0, <1>6 DEF EndPass, TypeOK
  <2>2. QED
    BY <1>6, <1>a, <2>1 DEF EndPass
<1>7. ASSUME NEW m \in Maps, UpsertSyncedMap(m) PROVE TypeInv'
  <2>1. TypeOK'
    BY <1>0, <1>7 DEF UpsertSyncedMap, Goto, TypeOK, TaskStates
  <2>2. QED
    BY <1>7, <1>a, <2>1 DEF UpsertSyncedMap
<1>8. ASSUME NEW m \in Maps, ListVersions(m) PROVE TypeInv'
  <2>1. TypeOK'
    BY <1>0, <1>8 DEF ListVersions, Goto, TypeOK, TaskStates
  <2>2. QED
    BY <1>8, <1>a, <2>1 DEF ListVersions
<1>9. ASSUME NEW m \in Maps, PullVersion(m) PROVE TypeInv'
  <2>1. PICK v \in NextToPull(m) :
            mirrored' = [mirrored EXCEPT ![m] = @ \cup {v}]
    BY <1>9 DEF PullVersion
  <2>2. v \in Versions
    BY <1>0, <2>1 DEF NextToPull, VersionsToPull, Versions, TypeOK
  <2>3. mirrored' \in [Maps -> SUBSET Versions]
    BY <1>0, <2>1, <2>2 DEF TypeOK
  <2>4. TypeOK'
    BY <1>0, <1>9, <2>3 DEF PullVersion, TypeOK
  <2>5. QED
    BY <1>9, <1>a, <2>4 DEF PullVersion
<1>10. ASSUME NEW m \in Maps, ListAliases(m) PROVE TypeInv'
  <2>1. \A p \in Pointers : Len(moves[m][p]) \in Positions
    BY LenIsPosition
  <2>2. target' \in [Maps -> [Pointers -> Positions]]
    BY <1>0, <1>10, <2>1 DEF ListAliases, TypeOK
  <2>3. TypeOK'
    BY <1>0, <1>10, <2>2 DEF ListAliases, Goto, TypeOK, TaskStates
  <2>4. QED
    BY <1>10, <1>a, <2>3 DEF ListAliases
<1>b. ASSUME NEW m \in Maps, NEW p \in Pointers, SetPointer(m, p),
             TargetVersion(m, p) \in Values
      PROVE  /\ pointer' \in [Maps -> [Pointers -> Values]]
             /\ followed' \in [Maps -> [Pointers -> Positions]]
  BY <1>0, <1>b DEF SetPointer, TypeOK
<1>11. ASSUME NEW m \in Maps, NEW a \in Aliases, ReconcileAlias(m, a)
       PROVE  TypeInv'
  <2>1. /\ pointer' \in [Maps -> [Pointers -> Values]]
        /\ followed' \in [Maps -> [Pointers -> Positions]]
    <3>1. CASE TargetVersion(m, a) \in mirrored[m] \cup {Unset}
      BY <1>0, <1>11, <1>b, <3>1 DEF ReconcileAlias, TypeOK, Pointers
    <3>2. CASE TargetVersion(m, a) \notin mirrored[m] \cup {Unset}
      BY <1>0, <1>11, <3>2 DEF ReconcileAlias, TypeOK
    <3>3. QED
      BY <3>1, <3>2
  <2>2. TypeOK'
    BY <1>0, <1>11, <2>1 DEF ReconcileAlias, TypeOK
  <2>3. QED
    BY <1>11, <1>a, <2>2 DEF ReconcileAlias
<1>12. ASSUME NEW m \in Maps, AliasesReconciled(m) PROVE TypeInv'
  <2>1. TypeOK'
    BY <1>0, <1>12 DEF AliasesReconciled, Goto, TypeOK, TaskStates
  <2>2. QED
    BY <1>12, <1>a, <2>1 DEF AliasesReconciled
<1>13. ASSUME NEW m \in Maps, SetSyncedCurrentVersion(m) PROVE TypeInv'
  <2>1. /\ pointer' \in [Maps -> [Pointers -> Values]]
        /\ followed' \in [Maps -> [Pointers -> Positions]]
    <3>1. CASE TargetVersion(m, Current) \in mirrored[m]
      BY <1>0, <1>13, <1>b, <3>1
         DEF SetSyncedCurrentVersion, TypeOK, Pointers
    <3>2. CASE TargetVersion(m, Current) \notin mirrored[m]
      BY <1>0, <1>13, <3>2 DEF SetSyncedCurrentVersion, TypeOK
    <3>3. QED
      BY <3>1, <3>2
  <2>2. task' \in [Maps -> TaskStates]
    BY <1>0, <1>13 DEF SetSyncedCurrentVersion, Goto, TypeOK, TaskStates
  <2>3. TypeOK'
    BY <1>0, <1>13, <2>1, <2>2 DEF SetSyncedCurrentVersion, TypeOK
  <2>4. QED
    BY <1>13, <1>a, <2>3 DEF SetSyncedCurrentVersion
<1>14. ASSUME NEW m \in Maps, Fail(m) PROVE TypeInv'
  <2>1. TypeOK'
    BY <1>0, <1>14 DEF Fail, Goto, TypeOK, TaskStates
  <2>2. QED
    BY <1>14, <1>a, <2>1 DEF Fail
<1>15. ASSUME NEW m \in Maps, GiveUp(m) PROVE TypeInv'
  <2>1. TypeOK'
    BY <1>0, <1>15 DEF GiveUp, Goto, TypeOK, TaskStates
  <2>2. QED
    BY <1>15, <1>a, <2>1 DEF GiveUp
<1>16. CASE UNCHANGED vars
  BY <1>0, <1>16 DEF vars, TypeInv, TypeOK
<1>17. QED
  BY <1>1, <1>2, <1>3, <1>4, <1>5, <1>6, <1>7, <1>8, <1>9, <1>10, <1>11,
     <1>12, <1>13, <1>14, <1>15, <1>16 DEF Next, Edit, SyncMap

\* What the passes know of the remote keeps its types.
THEOREM TypeCorrect == Spec => []TypeOK
<1>1. TypeInv => TypeOK
  BY DEF TypeInv
<1>2. QED
  BY <1>1, TypeInit, TypeStep, PTL DEF Spec

-----------------------------------------------------------------------------
(***************************************************************************)
(* What a mirror relies on: a pointer's local value is one of the remote's *)
(* moves, its position never ahead of the position last reported, which in *)
(* turn is one the remote has reached; and nothing the remote has listed,  *)
(* or ever pointed to, is ahead of what it has published.                  *)
(***************************************************************************)
Reported(m, p) ==
    /\ followed[m][p] <= target[m][p]
    /\ target[m][p] <= Len(moves[m][p])
    /\ pointer[m][p] = moves[m][p][followed[m][p]]

Reached(m, p) ==
    \A i \in 1..Len(moves[m][p]) : moves[m][p][i] <= published[m]

PosInv ==
    /\ \A m \in Maps, p \in Pointers : Reported(m, p) /\ Reached(m, p)
    /\ \A m \in Maps : seen[m] <= published[m]

LEMMA PosInit == Init => PosInv
BY DEF Init, PosInv, Reported, Reached, Unset

LEMMA PositionTypes ==
    ASSUME TypeInv, NEW m \in Maps, NEW p \in Pointers
    PROVE  /\ Len(moves[m][p]) \in Nat \ {0}
           /\ followed[m][p] \in Nat \ {0}
           /\ target[m][p] \in Nat \ {0}
           /\ published[m] \in Nat /\ seen[m] \in Nat
           /\ moves[m][p] \in Seq(Values)
BY BoundsAssumption DEF TypeInv, TypeOK, Positions, Values

\* A pointer that moves on the remote stays where it is here.
LEMMA PosMove ==
    ASSUME TypeInv, PosInv,
           NEW m \in Maps, NEW p \in Pointers, NEW v \in Values,
           MovePointer(m, p, v),
           published' \in [Maps -> Nat],
           \A n \in Maps : published[n] <= published'[n],
           v <= published'[m],
           UNCHANGED <<pointer, followed, target, seen>>
    PROVE  PosInv'
<1>1. ASSUME NEW n \in Maps, NEW q \in Pointers PROVE Reported(n, q)'
  <2>1. /\ followed[n][q] <= target[n][q]
        /\ target[n][q] <= Len(moves[n][q])
        /\ pointer[n][q] = moves[n][q][followed[n][q]]
    BY DEF PosInv, Reported
  <2>2. followed[n][q] \in 1..Len(moves[n][q])
    BY <2>1, PositionTypes
  <2>3. moves'[n][q][followed[n][q]] = moves[n][q][followed[n][q]]
    <3>1. \A i \in 1..Len(moves[n][q]) : moves'[n][q][i] = moves[n][q][i]
      BY Moved
    <3>2. QED
      BY <2>2, <3>1
  <2>4. Len(moves[n][q]) <= Len(moves'[n][q]) /\ Len(moves'[n][q]) \in Nat
    BY Moved, BoundsAssumption
  <2>5. target[n][q] <= Len(moves'[n][q])
    BY <2>1, <2>4, PositionTypes
  <2>6. QED
    BY <2>1, <2>3, <2>5 DEF Reported
<1>2. ASSUME NEW n \in Maps, NEW q \in Pointers,
             NEW i \in 1..Len(moves'[n][q])
      PROVE  moves'[n][q][i] <= published'[n]
  <2>1. CASE i \in 1..Len(moves[n][q])
    <3>1. moves'[n][q][i] = moves[n][q][i] /\ moves[n][q][i] \in Values
      BY <2>1, Moved, PositionTypes
    <3>2. moves[n][q][i] <= published[n]
      BY <2>1 DEF PosInv, Reached
    <3>3. moves[n][q][i] \in Nat /\ published[n] \in Nat /\ published'[n] \in Nat
      BY <3>1, PositionTypes, BoundsAssumption DEF Values, Versions, Unset
    <3>4. QED
      BY <3>1, <3>2, <3>3
  <2>2. CASE i \notin 1..Len(moves[n][q])
    <3>1. moves'[n][q] # moves[n][q]
      BY <2>2
    <3>2. n = m /\ q = p
      BY <3>1, Moved
    <3>3. i = Len(moves[m][p]) + 1
      BY <2>2, <3>2, Moved, PositionTypes
    <3>4. moves'[n][q][i] = v
      BY <3>2, <3>3, Moved
    <3>5. QED
      BY <3>2, <3>4
  <2>3. QED
    BY <2>1, <2>2
<1>3. ASSUME NEW n \in Maps PROVE seen'[n] <= published'[n]
  <2>1. seen[n] <= published[n] /\ seen[n] \in Nat /\ published[n] \in Nat
    BY BoundsAssumption DEF PosInv, TypeInv, TypeOK
  <2>2. QED
    BY <2>1
<1>4. QED
  BY <1>1, <1>2, <1>3 DEF PosInv, Reached

\* A report moves targets up to the positions the pointers have now.
LEMMA PosReport ==
    ASSUME TypeInv, PosInv,
           UNCHANGED <<published, moves, pointer, followed, seen>>,
           \A m \in Maps, p \in Pointers :
                \/ target'[m][p] = target[m][p]
                \/ target'[m][p] = Len(moves[m][p])
    PROVE  PosInv'
<1>1. ASSUME NEW m \in Maps, NEW p \in Pointers PROVE Reported(m, p)'
  <2>1. Reported(m, p)
    BY DEF PosInv
  <2>2. QED
    BY <2>1, PositionTypes DEF Reported
<1>2. QED
  BY <1>1 DEF PosInv, Reached

\* A pointer that is set to its target.
LEMMA PosSet ==
    ASSUME TypeInv, PosInv, NEW m \in Maps, NEW p \in Pointers,
           SetPointer(m, p),
           UNCHANGED <<published, moves, target, seen>>
    PROVE  PosInv'
<1>1. ASSUME NEW n \in Maps, NEW q \in Pointers PROVE Reported(n, q)'
  <2>1. Reported(n, q)
    BY DEF PosInv
  <2>2. \/ pointer'[n][q] = pointer[n][q] /\ followed'[n][q] = followed[n][q]
        \/ /\ pointer'[n][q] = moves[n][q][target[n][q]]
           /\ followed'[n][q] = target[n][q]
    BY DEF SetPointer, TargetVersion, TypeInv, TypeOK
  <2>3. target[n][q] <= target[n][q]
    BY PositionTypes
  <2>4. QED
    BY <2>1, <2>2, <2>3 DEF Reported
<1>2. QED
  BY <1>1 DEF PosInv, Reached

\* Steps that touch none of this.
LEMMA PosSame ==
    ASSUME PosInv, UNCHANGED <<published, moves, pointer, followed, target, seen>>
    PROVE  PosInv'
BY DEF PosInv, Reported, Reached

LEMMA PosStep == TypeInv /\ PosInv /\ [Next]_vars => PosInv'
<1> USE DEF remoteVars, localVars, passVars
<1> SUFFICES ASSUME TypeInv, PosInv, [Next]_vars PROVE PosInv'
  OBVIOUS
<1>0. /\ published \in [Maps -> 0..MaxVersion]
      /\ target \in [Maps -> [Pointers -> Positions]]
      /\ seen \in [Maps -> 0..MaxVersion]
  BY DEF TypeInv, TypeOK
<1>1. ASSUME NEW m \in Maps, CreateMap(m) PROVE PosInv'
  BY <1>1, PosSame DEF CreateMap
<1>2. ASSUME NEW m \in Maps, Publish(m) PROVE PosInv'
  <2>1. /\ published[m] + 1 \in Values /\ Current \in Pointers
        /\ published' = [published EXCEPT ![m] = @ + 1]
        /\ MovePointer(m, Current, published[m] + 1)
        /\ UNCHANGED <<pointer, followed, target, seen>>
    BY <1>0, <1>2, BoundsAssumption DEF Publish, Values, Versions, Pointers
  <2>2. /\ published' \in [Maps -> Nat]
        /\ \A n \in Maps : published[n] <= published'[n]
        /\ published[m] + 1 <= published'[m]
    BY <1>0, <2>1, BoundsAssumption
  <2>3. QED
    BY <2>1, <2>2, PosMove
<1>3. ASSUME NEW m \in Maps, NEW p \in Pointers, NEW v \in Values,
             Repoint(m, p, v)
      PROVE  PosInv'
  <2>1. /\ MovePointer(m, p, v)
        /\ UNCHANGED <<published, pointer, followed, target, seen>>
    BY <1>3 DEF Repoint
  <2>2. /\ published' \in [Maps -> Nat]
        /\ \A n \in Maps : published[n] <= published'[n]
    BY <1>0, <2>1, BoundsAssumption
  <2>3. v <= published'[m]
    BY <1>0, <1>3, <2>1, BoundsAssumption DEF Repoint, Unset
  <2>4. QED
    BY <2>1, <2>2, <2>3, PosMove
<1>4. ASSUME BeginPass PROVE PosInv'
  <2>1. \A m \in Maps, p \in Pointers :
            \/ target'[m][p] = target[m][p]
            \/ target'[m][p] = Len(moves[m][p])
    BY <1>0, <1>4 DEF BeginPass
  <2>2. QED
    BY <1>4, <2>1, PosReport DEF BeginPass
<1>5. ASSUME ListMapsFails PROVE PosInv'
  BY <1>5, PosSame DEF ListMapsFails
<1>6. ASSUME EndPass PROVE PosInv'
  BY <1>6, PosSame DEF EndPass
<1>7. ASSUME NEW m \in Maps, UpsertSyncedMap(m) PROVE PosInv'
  BY <1>7, PosSame DEF UpsertSyncedMap
<1>8. ASSUME NEW m \in Maps, ListVersions(m) PROVE PosInv'
  <2>1. \A n \in Maps : seen'[n] <= published'[n]
    BY <1>0, <1>8, BoundsAssumption DEF ListVersions, PosInv
  <2>2. QED
    BY <1>8, <2>1 DEF ListVersions, PosInv, Reported, Reached
<1>9. ASSUME NEW m \in Maps, PullVersion(m) PROVE PosInv'
  BY <1>9, PosSame DEF PullVersion
<1>10. ASSUME NEW m \in Maps, ListAliases(m) PROVE PosInv'
  <2>1. \A n \in Maps, p \in Pointers :
            \/ target'[n][p] = target[n][p]
            \/ target'[n][p] = Len(moves[n][p])
    BY <1>0, <1>10 DEF ListAliases
  <2>2. QED
    BY <1>10, <2>1, PosReport DEF ListAliases
<1>11. ASSUME NEW m \in Maps, NEW a \in Aliases, ReconcileAlias(m, a)
       PROVE  PosInv'
  <2>1. CASE SetPointer(m, a)
    BY <1>11, <2>1, PosSet DEF ReconcileAlias, Pointers
  <2>2. CASE UNCHANGED <<pointer, followed>>
    BY <1>11, <2>2, PosSame DEF ReconcileAlias
  <2>3. QED
    BY <1>11, <2>1, <2>2 DEF ReconcileAlias
<1>12. ASSUME NEW m \in Maps, AliasesReconciled(m) PROVE PosInv'
  BY <1>12, PosSame DEF AliasesReconciled
<1>13. ASSUME NEW m \in Maps, SetSyncedCurrentVersion(m) PROVE PosInv'
  <2>1. CASE SetPointer(m, Current)
    BY <1>13, <2>1, PosSet DEF SetSyncedCurrentVersion, Pointers
  <2>2. CASE UNCHANGED <<pointer, followed>>
    BY <1>13, <2>2, PosSame DEF SetSyncedCurrentVersion
  <2>3. QED
    BY <1>13, <2>1, <2>2 DEF SetSyncedCurrentVersion
<1>14. ASSUME NEW m \in Maps, Fail(m) PROVE PosInv'
  BY <1>14, PosSame DEF Fail
<1>15. ASSUME NEW m \in Maps, GiveUp(m) PROVE PosInv'
  BY <1>15, PosSame DEF GiveUp
<1>16. CASE UNCHANGED vars
  BY <1>16, PosSame DEF vars
<1>17. QED
  BY <1>1, <1>2, <1>3, <1>4, <1>5, <1>6, <1>7, <1>8, <1>9, <1>10, <1>11,
     <1>12, <1>13, <1>14, <1>15, <1>16 DEF Next, Edit, SyncMap, Values

-----------------------------------------------------------------------------
(***************************************************************************)
(* The refinement: every step is one of Mirror's, or changes nothing that  *)
(* Mirror knows of.                                                        *)
(***************************************************************************)
\* Setting a pointer to its target follows a move, or repeats the last one.
LEMMA SetIsFollow ==
    ASSUME TypeInv, PosInv, NEW m \in Maps, NEW p \in Pointers,
           SetPointer(m, p),
           TargetVersion(m, p) \in mirrored[m] \cup {Unset},
           UNCHANGED <<published, moves, mirrored>>
    PROVE  [Copied!Next]_(Copied!vars)
<1> DEFINE i == target[m][p]
<1>1. /\ i \in 1..Len(moves[m][p])
      /\ followed[m][p] <= i
      /\ pointer[m][p] = moves[m][p][followed[m][p]]
      /\ followed[m][p] \in Nat
  BY PositionTypes DEF PosInv, Reported
<1>2. /\ pointer' = [pointer EXCEPT ![m][p] = moves[m][p][i]]
      /\ followed' = [followed EXCEPT ![m][p] = i]
  BY DEF SetPointer, TargetVersion
<1>3. moves[m][p][i] \in mirrored[m] \cup {Unset}
  BY DEF TargetVersion
<1>4. CASE i > followed[m][p]
  BY <1>1, <1>2, <1>3, <1>4
     DEF Copied!Next, Copied!Follow, Copied!Unset, Unset
<1>5. CASE i = followed[m][p]
  <2>1. /\ pointer \in [Maps -> [Pointers -> Values]]
        /\ followed \in [Maps -> [Pointers -> Positions]]
    BY DEF TypeInv, TypeOK, Values
  <2>2. pointer' = pointer /\ followed' = followed
    BY <1>1, <1>2, <1>5, <2>1
  <2>3. QED
    BY <2>2 DEF Copied!vars
<1>6. QED
  BY <1>1, <1>4, <1>5

LEMMA StepIsMirrors ==
    TypeInv /\ PosInv /\ [Next]_vars => [Copied!Next]_(Copied!vars)
<1> USE DEF remoteVars, localVars, passVars
<1> SUFFICES ASSUME TypeInv, PosInv, [Next]_vars
             PROVE  [Copied!Next]_(Copied!vars)
  OBVIOUS
<1>a. ASSUME UNCHANGED <<published, moves, mirrored, pointer, followed>>
      PROVE  [Copied!Next]_(Copied!vars)
  BY <1>a DEF Copied!vars
<1>1. ASSUME NEW m \in Maps, CreateMap(m) PROVE UNCHANGED Copied!vars
  BY <1>1 DEF CreateMap, Copied!vars
<1>2. ASSUME NEW m \in Maps, Publish(m) PROVE Copied!Next
  <2>1. Copied!Publish(m, Current)
    BY <1>2 DEF Publish, MovePointer, Copied!Publish, Copied!mirrorVars
  <2>2. QED
    BY <2>1 DEF Copied!Next, Pointers
<1>3. ASSUME NEW m \in Maps, NEW p \in Pointers, NEW v \in Values,
             Repoint(m, p, v)
      PROVE  Copied!Next
  <2>1. v \in Copied!Versions \cup {Copied!Unset} /\ v <= published[m]
    BY <1>3, BoundsAssumption
       DEF Repoint, Values, Versions, Unset, Copied!Versions, Copied!Unset,
           TypeInv, TypeOK
  <2>2. Copied!Move(m, p)
    BY <1>3, <2>1 DEF Repoint, MovePointer, Copied!Move, Copied!mirrorVars
  <2>3. QED
    BY <2>2 DEF Copied!Next
<1>4. ASSUME NEW m \in Maps, PullVersion(m) PROVE Copied!Next
  <2>1. PICK v \in NextToPull(m) :
            mirrored' = [mirrored EXCEPT ![m] = @ \cup {v}]
    BY <1>4 DEF PullVersion
  <2>2. /\ v \in 1..seen[m] /\ v \notin mirrored[m]
        /\ \A w \in 1..seen[m] : w \notin mirrored[m] => v <= w
    BY <2>1 DEF NextToPull, VersionsToPull
  <2>3. seen[m] \in Nat /\ published[m] \in Nat /\ seen[m] <= published[m]
    BY BoundsAssumption DEF TypeInv, TypeOK, PosInv
  <2>4. v \in 1..published[m] /\ 1..(v - 1) \subseteq mirrored[m]
    BY <2>2, <2>3
  <2>5. Copied!Copy(m)
    BY <1>4, <2>1, <2>2, <2>4 DEF PullVersion, Copied!Copy
  <2>6. QED
    BY <2>5 DEF Copied!Next
<1>5. ASSUME NEW m \in Maps, NEW a \in Aliases, ReconcileAlias(m, a)
      PROVE  [Copied!Next]_(Copied!vars)
  <2>1. CASE TargetVersion(m, a) \in mirrored[m] \cup {Unset}
    BY <1>5, <2>1, SetIsFollow DEF ReconcileAlias, Pointers
  <2>2. CASE TargetVersion(m, a) \notin mirrored[m] \cup {Unset}
    BY <1>5, <1>a, <2>2 DEF ReconcileAlias
  <2>3. QED
    BY <2>1, <2>2
<1>6. ASSUME NEW m \in Maps, SetSyncedCurrentVersion(m)
      PROVE  [Copied!Next]_(Copied!vars)
  <2>1. CASE TargetVersion(m, Current) \in mirrored[m]
    BY <1>6, <2>1, SetIsFollow DEF SetSyncedCurrentVersion, Pointers
  <2>2. CASE TargetVersion(m, Current) \notin mirrored[m]
    BY <1>6, <1>a, <2>2 DEF SetSyncedCurrentVersion
  <2>3. QED
    BY <2>1, <2>2
<1>7. ASSUME \/ BeginPass \/ ListMapsFails \/ EndPass
             \/ \E m \in Maps : \/ UpsertSyncedMap(m) \/ ListVersions(m)
                                \/ ListAliases(m) \/ AliasesReconciled(m)
                                \/ Fail(m) \/ GiveUp(m)
      PROVE  [Copied!Next]_(Copied!vars)
  BY <1>7, <1>a
     DEF BeginPass, ListMapsFails, EndPass, UpsertSyncedMap, ListVersions,
         ListAliases, AliasesReconciled, Fail, GiveUp
<1>8. CASE UNCHANGED vars
  BY <1>8, <1>a DEF vars
<1>9. QED
  BY <1>1, <1>2, <1>3, <1>4, <1>5, <1>6, <1>7, <1>8
     DEF Next, Edit, SyncMap, Values

\* However its passes fail and are overtaken by edits of the remote, the
\* local server only ever takes the steps of a mirror.
THEOREM PassesMirror == Spec => IsMirror
<1>1. Init => Copied!Init
  BY DEF Init, Copied!Init, Unset, Copied!Unset
<1>2. QED
  BY <1>1, TypeInit, TypeStep, PosInit, PosStep, StepIsMirrors, PTL
     DEF Spec, IsMirror, Copied!Spec

-----------------------------------------------------------------------------
(***************************************************************************)
(* The versions are listed after the current version, so the current       *)
(* version reported is one of those listed, and those are pulled before    *)
(* the pass goes on.                                                       *)
(***************************************************************************)
ListedFor(m) ==
    /\ task[m] = "pulling" => TargetVersion(m, Current) <= seen[m]
    /\ task[m] \in {"aliasing", "pointing"} =>
        TargetVersion(m, Current) \in mirrored[m] \cup {Unset}

ListedInv == \A m \in Maps : ListedFor(m)

LEMMA ListedInit == Init => ListedInv
BY DEF Init, ListedInv, ListedFor

\* What a map's pass has listed and pulled stays so while others move.
LEMMA ListedSame ==
    ASSUME ListedInv, NEW m \in Maps,
           TargetVersion(m, Current)' = TargetVersion(m, Current),
           seen'[m] = seen[m], mirrored[m] \subseteq mirrored'[m],
           \/ task'[m] = task[m]
           \/ task'[m] \notin {"pulling", "aliasing", "pointing"}
           \/ task[m] = "aliasing" /\ task'[m] = "pointing"
    PROVE  ListedFor(m)'
BY DEF ListedInv, ListedFor

\* A target refers to the same version after a further move.
LEMMA TargetStays ==
    ASSUME TypeInv, PosInv, NEW m \in Maps, NEW p \in Pointers,
           NEW v \in Values, MovePointer(m, p, v), UNCHANGED target
    PROVE  \A n \in Maps :
                TargetVersion(n, Current)' = TargetVersion(n, Current)
<1> SUFFICES ASSUME NEW n \in Maps
             PROVE  TargetVersion(n, Current)' = TargetVersion(n, Current)
  OBVIOUS
<1>1. target[n][Current] \in 1..Len(moves[n][Current])
  BY PositionTypes DEF PosInv, Reported, Pointers
<1>2. Current \in Pointers
  BY DEF Pointers
<1>3. moves'[n][Current][target[n][Current]]
        = moves[n][Current][target[n][Current]]
  <2>1. \A i \in 1..Len(moves[n][Current]) :
            moves'[n][Current][i] = moves[n][Current][i]
    BY <1>2, Moved
  <2>2. QED
    BY <1>1, <2>1
<1>4. QED
  BY <1>3 DEF TargetVersion

LEMMA ListedStep ==
    TypeInv /\ PosInv /\ ListedInv /\ [Next]_vars => ListedInv'
<1> USE DEF remoteVars, localVars, passVars
<1> SUFFICES ASSUME TypeInv, PosInv, ListedInv, [Next]_vars
             PROVE  ListedInv'
  OBVIOUS
<1>0. /\ task \in [Maps -> TaskStates]
      /\ seen \in [Maps -> 0..MaxVersion]
      /\ mirrored \in [Maps -> SUBSET Versions]
      /\ target \in [Maps -> [Pointers -> Positions]]
  BY DEF TypeInv, TypeOK
<1>a. ASSUME UNCHANGED <<moves, target, seen, mirrored>>,
             \A n \in Maps :
                \/ task'[n] = task[n]
                \/ task'[n] \notin {"pulling", "aliasing", "pointing"}
                \/ task[n] = "aliasing" /\ task'[n] = "pointing"
      PROVE  ListedInv'
  BY <1>a, ListedSame DEF ListedInv, TargetVersion
<1>1. ASSUME NEW m \in Maps, CreateMap(m) PROVE ListedInv'
  BY <1>1, <1>a DEF CreateMap
<1>2. ASSUME NEW m \in Maps, Publish(m) PROVE ListedInv'
  <2>1. published[m] + 1 \in Values /\ Current \in Pointers
    BY <1>2, BoundsAssumption
       DEF Publish, Values, Versions, Pointers, TypeInv, TypeOK
  <2>2. QED
    BY <1>2, <2>1, TargetStays, ListedSame DEF Publish, ListedInv
<1>3. ASSUME NEW m \in Maps, NEW p \in Pointers, NEW v \in Values,
             Repoint(m, p, v)
      PROVE  ListedInv'
  BY <1>3, TargetStays, ListedSame DEF Repoint, ListedInv
<1>4. ASSUME BeginPass PROVE ListedInv'
  <2>1. \A n \in Maps : task'[n] \in {"queued", "none"}
    BY <1>4 DEF BeginPass
  <2>2. QED
    BY <2>1 DEF ListedInv, ListedFor
<1>5. ASSUME ListMapsFails PROVE ListedInv'
  BY <1>5, <1>a DEF ListMapsFails
<1>6. ASSUME EndPass PROVE ListedInv'
  BY <1>6, <1>a DEF EndPass
<1>7. ASSUME NEW m \in Maps, UpsertSyncedMap(m) PROVE ListedInv'
  BY <1>0, <1>7, <1>a DEF UpsertSyncedMap, Goto
<1>8. ASSUME NEW m \in Maps, ListVersions(m) PROVE ListedInv'
  <2>1. /\ UNCHANGED <<moves, target, mirrored>>
        /\ task' = [task EXCEPT ![m] = "pulling"]
        /\ seen' = [seen EXCEPT ![m] = published[m]]
    BY <1>8 DEF ListVersions, Goto
  <2>2. ASSUME NEW n \in Maps, n # m PROVE ListedFor(n)'
    BY <1>0, <2>1, <2>2, ListedSame DEF TargetVersion
  <2>3. ListedFor(m)'
    <3>1. target[m][Current] \in 1..Len(moves[m][Current])
      BY PositionTypes DEF PosInv, Reported, Pointers
    <3>2. TargetVersion(m, Current) <= published[m]
      BY <3>1 DEF PosInv, Reached, TargetVersion, Pointers
    <3>3. /\ TargetVersion(m, Current)' = TargetVersion(m, Current)
          /\ seen'[m] = published[m] /\ task'[m] = "pulling"
      BY <1>0, <2>1 DEF TargetVersion
    <3>4. QED
      BY <3>2, <3>3 DEF ListedFor
  <2>4. QED
    BY <2>2, <2>3 DEF ListedInv
<1>9. ASSUME NEW m \in Maps, PullVersion(m) PROVE ListedInv'
  <2>1. \A n \in Maps : mirrored[n] \subseteq mirrored'[n]
    BY <1>0, <1>9 DEF PullVersion
  <2>2. QED
    BY <1>9, <2>1, ListedSame DEF PullVersion, ListedInv, TargetVersion
<1>10. ASSUME NEW m \in Maps, ListAliases(m) PROVE ListedInv'
  <2>1. /\ UNCHANGED <<moves, seen, mirrored>>
        /\ task[m] = "pulling" /\ VersionsToPull(m) = {}
        /\ task' = [task EXCEPT ![m] = "aliasing"]
        /\ \A n \in Maps : target'[n][Current] = target[n][Current]
    BY <1>0, <1>10, CurrentAssumption DEF ListAliases, Goto, At, Pointers
  <2>2. \A n \in Maps :
            TargetVersion(n, Current)' = TargetVersion(n, Current)
    BY <2>1 DEF TargetVersion
  <2>3. ASSUME NEW n \in Maps, n # m PROVE ListedFor(n)'
    BY <1>0, <2>1, <2>2, <2>3, ListedSame
  <2>4. ListedFor(m)'
    <3>1. target[m][Current] \in 1..Len(moves[m][Current])
      BY PositionTypes DEF PosInv, Reported, Pointers
    <3>2. TargetVersion(m, Current) \in Values
      BY <3>1, PositionTypes DEF TargetVersion, Pointers
    <3>3. TargetVersion(m, Current) <= seen[m]
      BY <2>1 DEF ListedInv, ListedFor
    <3>4. TargetVersion(m, Current) \in 1..seen[m] \cup {Unset}
      BY <1>0, <3>2, <3>3, BoundsAssumption DEF Values, Versions, Unset
    <3>5. TargetVersion(m, Current) \in mirrored[m] \cup {Unset}
      BY <2>1, <3>4 DEF VersionsToPull
    <3>6. QED
      BY <1>0, <2>1, <2>2, <3>5 DEF ListedFor
  <2>5. QED
    BY <2>3, <2>4 DEF ListedInv
<1>11. ASSUME NEW m \in Maps, NEW a \in Aliases, ReconcileAlias(m, a)
       PROVE  ListedInv'
  BY <1>11, <1>a DEF ReconcileAlias
<1>12. ASSUME NEW m \in Maps, AliasesReconciled(m) PROVE ListedInv'
  BY <1>0, <1>12, <1>a DEF AliasesReconciled, Goto, At
<1>13. ASSUME NEW m \in Maps, SetSyncedCurrentVersion(m) PROVE ListedInv'
  BY <1>0, <1>13, <1>a DEF SetSyncedCurrentVersion, Goto
<1>14. ASSUME NEW m \in Maps, Fail(m) PROVE ListedInv'
  BY <1>0, <1>14, <1>a DEF Fail, Goto
<1>15. ASSUME NEW m \in Maps, GiveUp(m) PROVE ListedInv'
  BY <1>0, <1>15, <1>a DEF GiveUp, Goto
<1>16. CASE UNCHANGED vars
  BY <1>16, <1>a DEF vars
<1>17. QED
  BY <1>1, <1>2, <1>3, <1>4, <1>5, <1>6, <1>7, <1>8, <1>9, <1>10, <1>11,
     <1>12, <1>13, <1>14, <1>15, <1>16 DEF Next, Edit, SyncMap, Values

\* When a pass comes to a map's current version, that version is here.
THEOREM CurrentPulledInTime == Spec => []CurrentTargetPulled
<1>1. ListedInv => CurrentTargetPulled
  BY DEF ListedInv, ListedFor, CurrentTargetPulled
<1>2. QED
  BY <1>1, TypeInit, TypeStep, PosInit, PosStep, ListedInit, ListedStep, PTL
     DEF Spec

-----------------------------------------------------------------------------
(***************************************************************************)
(* The transfer of one version that each of a pass's pulls is              *)
(* (ArchiveTransfer), for any set of files.                                *)
(***************************************************************************)

\* Until a file fails the walk has every file before it or behind it, if the
\* remote loses none; and the walk ends at the first file that fails.
TransferInv ==
    /\ stream # "none" /\ disk = Files /\ partial = {} => left \cup whole = Files
    /\ stream = "closed" /\ partial = {} => left = {}
    /\ stream = "open" => partial = {}
    /\ \A f, g \in partial : f = g
    /\ puller \in {"extracting", "recorded"} => stream = "closed"
    /\ puller = "recorded" => tiles = whole \cup partial

LEMMA TransferInitially == TransferInit => TransferTypeOK /\ TransferInv
BY DEF TransferInit, TransferTypeOK, TransferInv

LEMMA TransferStep ==
    TransferTypeOK /\ TransferInv /\ [TransferNext]_transferVars
        => TransferTypeOK' /\ TransferInv'
<1> USE DEF TransferTypeOK, TransferInv, sentVars
<1> SUFFICES ASSUME TransferTypeOK, TransferInv, [TransferNext]_transferVars
             PROVE  TransferTypeOK' /\ TransferInv'
  OBVIOUS
<1>1. CASE BeginArchive
  BY <1>1 DEF BeginArchive
<1>2. ASSUME NEW f \in Files, SendFile(f) PROVE TransferTypeOK' /\ TransferInv'
  BY <1>2 DEF SendFile
<1>3. ASSUME NEW f \in Files, PassOver(f) PROVE TransferTypeOK' /\ TransferInv'
  BY <1>3 DEF PassOver
<1>4. ASSUME NEW f \in Files, WalkFails(f) PROVE TransferTypeOK' /\ TransferInv'
  BY <1>4 DEF WalkFails
<1>5. ASSUME NEW f \in Files, RemoveFile(f) PROVE TransferTypeOK' /\ TransferInv'
  BY <1>5 DEF RemoveFile
<1>6. CASE WalkEnds
  BY <1>6 DEF WalkEnds
<1>7. CASE ConnectionBreaks
  BY <1>7 DEF ConnectionBreaks
<1>8. CASE Downloaded
  BY <1>8 DEF Downloaded
<1>9. CASE PullFails
  BY <1>9 DEF PullFails
<1>10. CASE ExtractAndRecord
  BY <1>10 DEF ExtractAndRecord
<1>11. CASE UNCHANGED transferVars
  BY <1>11 DEF transferVars
<1>12. QED
  BY <1>1, <1>2, <1>3, <1>4, <1>5, <1>6, <1>7, <1>8, <1>9, <1>10, <1>11
     DEF TransferNext

\* A set whose members are all the same has at most one.
LEMMA AtMostOne ==
    ASSUME NEW S, \A f, g \in S : f = g
    PROVE  Cardinality(S) <= 1
<1>1. CASE S = {}
  BY <1>1, FS_EmptySet
<1>2. CASE S # {}
  <2>1. PICK f \in S : TRUE
    BY <1>2
  <2>2. S = {f}
    BY <2>1
  <2>3. Cardinality({f}) = 1
    BY FS_Singleton, Zenon
  <2>4. QED
    BY <2>2, <2>3
<1>3. QED
  BY <1>1, <1>2

\* Both sides' state keeps its types.
THEOREM TransferTypeCorrect == TransferSpec => []TransferTypeOK
BY TransferInitially, TransferStep, PTL DEF TransferSpec

\* A recorded version that misses tiles misses them because the remote had
\* lost them or could not read them, however often a connection broke and a
\* download was begun again.
THEOREM MissingOnlyByRemoteCorrect == TransferSpec => []MissingOnlyByRemote
<1>1. TransferInv => MissingOnlyByRemote
  BY DEF TransferInv, MissingOnlyByRemote
<1>2. QED
  BY <1>1, TransferInitially, TransferStep, PTL DEF TransferSpec

\* What arrives whole is recorded, and beside it at most the one file at
\* which the remote's walk came to its end.
THEOREM AtMostOnePartialCorrect == TransferSpec => []AtMostOnePartial
<1>1. TransferInv => AtMostOnePartial
  <2> SUFFICES ASSUME TransferInv, puller = "recorded"
               PROVE  whole \subseteq tiles /\ Cardinality(tiles \ whole) <= 1
    BY DEF AtMostOnePartial
  <2>1. tiles = whole \cup partial
    BY DEF TransferInv
  <2>2. \A f, g \in tiles \ whole : f = g
    BY <2>1 DEF TransferInv
  <2>3. QED
    BY <2>1, <2>2, AtMostOne
<1>2. QED
  BY <1>1, TransferInitially, TransferStep, PTL DEF TransferSpec
=============================================================================
