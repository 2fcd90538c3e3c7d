------------------------------- MODULE Mirror -------------------------------
(***************************************************************************)
(* What a mirror of a remote server promises, whatever the order its       *)
(* passes work in and wherever they fail: the versions of a map are copied *)
(* oldest first, and each pointer into them (the map's current version and *)
(* its aliases) only ever moves forward through the values the remote's    *)
(* pointer has had, skipping some, never to a version not yet copied.      *)
(***************************************************************************)
EXTENDS Integers, Sequences

CONSTANTS
    Maps,
    Pointers,
    MaxVersion  \* bound: versions of a map

Versions == 1..MaxVersion
Unset == 0

VARIABLES
    published, \* map -> how many versions the remote has of it
    moves,     \* map -> pointer -> the values it has had on the remote
    mirrored,  \* map -> the versions copied
    pointer,   \* map -> pointer -> its value here
    followed   \* map -> pointer -> which of its moves that value is

vars == <<published, moves, mirrored, pointer, followed>>
mirrorVars == <<mirrored, pointer, followed>>

Init ==
    /\ published = [m \in Maps |-> 0]
    /\ moves = [m \in Maps |-> [p \in Pointers |-> <<Unset>>]]
    /\ mirrored = [m \in Maps |-> {}]
    /\ pointer = [m \in Maps |-> [p \in Pointers |-> Unset]]
    /\ followed = [m \in Maps |-> [p \in Pointers |-> 1]]

\* A new version becomes the value of pointer p in the same transaction.
Publish(m, p) ==
    /\ published' = [published EXCEPT ![m] = @ + 1]
    /\ moves' = [moves EXCEPT ![m][p] = Append(@, published[m] + 1)]
    /\ UNCHANGED mirrorVars

Move(m, p) ==
    /\ \E v \in Versions \cup {Unset} :
        /\ v <= published[m]
        /\ moves' = [moves EXCEPT ![m][p] = Append(@, v)]
    /\ UNCHANGED <<published, mirrorVars>>

\* The oldest version that is missing.
Copy(m) ==
    /\ \E v \in 1..published[m] :
        /\ v \notin mirrored[m]
        /\ 1..(v - 1) \subseteq mirrored[m]
        /\ mirrored' = [mirrored EXCEPT ![m] = @ \cup {v}]
    /\ UNCHANGED <<published, moves, pointer, followed>>

Follow(m, p) ==
    /\ \E i \in 1..Len(moves[m][p]) :
        /\ i > followed[m][p]
        /\ moves[m][p][i] \in mirrored[m] \cup {Unset}
        /\ pointer' = [pointer EXCEPT ![m][p] = moves[m][p][i]]
        /\ followed' = [followed EXCEPT ![m][p] = i]
    /\ UNCHANGED <<published, moves, mirrored>>

Next ==
    \E m \in Maps :
        \/ Copy(m)
        \/ \E p \in Pointers : Publish(m, p) \/ Move(m, p) \/ Follow(m, p)

Spec == Init /\ [][Next]_vars
=============================================================================
