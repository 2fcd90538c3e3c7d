----------------------------- MODULE ServerLife -----------------------------
(***************************************************************************)
(* The lives of one server over one keys directory, one database and one   *)
(* data root: run makes sure of the server's key pair, migrates the        *)
(* database, seeds the first account, and serves requests while it         *)
(* backfills tile indexes.  Any life may end at any step, by a crash, an   *)
(* error that makes run return, or a signal, which nothing in progress     *)
(* outlives; then the next one begins with what is on disk.                *)
(*                                                                         *)
(* A file is missing, cut (opened for writing and not written to the end), *)
(* or whole.  The indexes are those of one map: maps are backfilled        *)
(* independently of one another.                                           *)
(***************************************************************************)
EXTENDS Integers, FiniteSets

CONSTANTS
    Constraints, \* bound: how many foreign keys there are, 1..Constraints
    Versions,    \* version directories of the map
    MaxEnds      \* bound: lives that end

ASSUME BoundsAssumption == Constraints \in Nat /\ MaxEnds \in Nat

\* A key is named by the how-manieth the server generates.
Keys == 1..(MaxEnds + 1)
Missing == 0
Cut == -1

VARIABLES
    stage,       \* where run is; "down" without a process
    private,     \* server.key
    public,      \* server.pub
    generated,   \* keys generated so far
    key,         \* the key in the process's memory
    constraints, \* the foreign keys in the database
    looked,      \* constraints Migrate has come past in this life
    account,     \* the seeded account's row
    index,       \* version -> its index.json, "no_version" without a directory
    backfill,    \* the goroutine running EnsureTileIndexes
    interrupted, \* versions whose backfill was left with a cut file
    ends

keyVars == <<private, public, generated>>
dataVars == <<constraints, account>>
diskVars == <<index, interrupted>>
lifeVars == <<stage, keyVars, key, dataVars, looked, diskVars, backfill, ends>>

NoBackfill == [at |-> "off", left |-> {}, current |-> {}, found |-> {}]

LifeTypeOK ==
    /\ stage \in {"down", "ensure", "private", "private_opened", "public",
                  "public_opened", "load", "migrate", "seed", "serve"}
    /\ private \in Keys \cup {Missing, Cut}
    /\ public \in Keys \cup {Missing, Cut}
    /\ generated \in Keys \cup {0}
    /\ key \in Keys \cup {Missing}
    /\ constraints \subseteq 1..Constraints
    /\ looked \in 0..Constraints
    /\ account \in {"absent", "seeded", "changed"}
    /\ index \in [Versions -> {"no_version", "missing", "cut", "whole"}]
    /\ backfill \in [at : {"off", "list", "look", "open", "write", "done", "failed"},
                     left : SUBSET Versions, current : SUBSET Versions,
                     found : SUBSET Versions]
    /\ interrupted \subseteq Versions
    /\ ends \in 0..MaxEnds

\* Versions may be there from a time before indexes were written.
LifeInit ==
    /\ stage = "down"
    /\ private = Missing
    /\ public = Missing
    /\ generated = 0
    /\ key = Missing
    /\ constraints = {}
    /\ looked = 0
    /\ account = "absent"
    /\ index \in [Versions -> {"no_version", "missing"}]
    /\ backfill = NoBackfill
    /\ interrupted = {}
    /\ ends = 0

Go(from, to) ==
    /\ stage = from
    /\ stage' = to

\* The process is gone: what it held in memory is lost, and a file it was
\* writing stays as it is.
Gone ==
    /\ stage' = "down"
    /\ key' = Missing
    /\ looked' = 0
    /\ backfill' = NoBackfill
    /\ interrupted' = interrupted \cup
            IF backfill.at = "write" THEN backfill.current ELSE {}

----------------------------------------------------------------------------
(* EnsureKeyPair and LoadPrivateKey                                        *)

Start ==
    /\ Go("down", "ensure")
    /\ UNCHANGED <<keyVars, key, dataVars, looked, diskVars, backfill, ends>>

\* Mutant: the pair exists when its public half does.
PairExists_Public == public # Missing

\* server.key is there, whatever it holds; server.pub is not looked at.
PairExists == private # Missing

LeavePair ==
    /\ PairExists
    /\ Go("ensure", "load")
    /\ UNCHANGED <<keyVars, key, dataVars, looked, diskVars, backfill, ends>>

GeneratePair ==
    /\ ~PairExists
    /\ Go("ensure", "private")
    /\ generated' = generated + 1
    /\ key' = generated'
    /\ UNCHANGED <<private, public, dataVars, looked, diskVars, backfill, ends>>

\* os.WriteFile: the file is created or truncated, and then written.
WritePrivate ==
    /\ \/ Go("private", "private_opened") /\ private' = Cut
       \/ Go("private_opened", "public") /\ private' = key
    /\ UNCHANGED <<public, generated, key, dataVars, looked, diskVars, backfill, ends>>

WritePublic ==
    /\ \/ Go("public", "public_opened") /\ public' = Cut
       \/ Go("public_opened", "load") /\ public' = key
    /\ UNCHANGED <<private, generated, key, dataVars, looked, diskVars, backfill, ends>>

Load ==
    /\ private # Cut
    /\ Go("load", "migrate")
    /\ key' = private
    /\ UNCHANGED <<keyVars, dataVars, looked, diskVars, backfill, ends>>

\* A cut server.key is no PEM file: run returns, and so does every later life.
LoadFails ==
    /\ stage = "load"
    /\ private = Cut
    /\ Gone
    /\ UNCHANGED <<keyVars, dataVars, index, ends>>

----------------------------------------------------------------------------
(* initStore                                                               *)

\* Mutant: the first constraint that exists is taken for the whole schema.
AddConstraint_StopsAtExisting ==
    /\ stage = "migrate"
    /\ looked < Constraints
    /\ looked' = IF looked + 1 \in constraints THEN Constraints ELSE looked + 1
    /\ constraints' = constraints \cup {looked + 1}
    /\ UNCHANGED <<stage, keyVars, key, account, diskVars, backfill, ends>>

\* Mutant: added without a look, which is an error when it is there.
AddConstraint_NotLooked ==
    /\ stage = "migrate"
    /\ looked < Constraints
    /\ IF looked + 1 \in constraints
         THEN Gone /\ UNCHANGED constraints
         ELSE /\ looked' = looked + 1
              /\ constraints' = constraints \cup {looked'}
              /\ UNCHANGED <<stage, key, backfill, interrupted>>
    /\ UNCHANGED <<keyVars, account, index, ends>>

\* Looked for by name, and added if it is not there.
AddConstraint ==
    /\ stage = "migrate"
    /\ looked < Constraints
    /\ looked' = looked + 1
    /\ constraints' = constraints \cup {looked'}
    /\ UNCHANGED <<stage, keyVars, key, account, diskVars, backfill, ends>>

Migrated ==
    /\ looked = Constraints
    /\ Go("migrate", "seed")
    /\ UNCHANGED <<keyVars, key, dataVars, looked, diskVars, backfill, ends>>

\* The goroutine starts, and the server listens.
SeedUser ==
    /\ Go("seed", "serve")
    /\ account' = IF account = "absent" THEN "seeded" ELSE account
    /\ backfill' = [NoBackfill EXCEPT !.at = "list"]
    /\ UNCHANGED <<keyVars, key, constraints, looked, diskVars, ends>>

----------------------------------------------------------------------------
(* EnsureTileIndexes                                                       *)

Existing == {v \in Versions : index[v] # "no_version"}

\* One step of the goroutine: from where, and what becomes of it.
Backfill(from, becomes) ==
    /\ stage = "serve"
    /\ backfill.at = from
    /\ backfill' = becomes
    /\ UNCHANGED <<stage, keyVars, key, dataVars, looked, ends>>

\* found: those it has listed that nobody has removed since.
ListVersions ==
    /\ Backfill("list", [NoBackfill EXCEPT !.at = "look", !.left = Existing, !.found = Existing])
    /\ UNCHANGED diskVars

\* Mutant: the first version that has an index ends the walk.
IndexFound_Ends(v) ==
    /\ v \in backfill.left
    /\ index[v] \in {"cut", "whole"}
    /\ Backfill("look", [backfill EXCEPT !.left = {}])
    /\ UNCHANGED diskVars

\* An index.json is there, whatever it holds.
IndexFound(v) ==
    /\ v \in backfill.left
    /\ index[v] \in {"cut", "whole"}
    /\ Backfill("look", [backfill EXCEPT !.left = @ \ {v}])
    /\ UNCHANGED diskVars

ScanVersion(v) ==
    /\ v \in backfill.left
    /\ index[v] = "missing"
    /\ Backfill("look", [backfill EXCEPT !.at = "open", !.left = @ \ {v}, !.current = {v}])
    /\ UNCHANGED diskVars

\* The directory was removed before it was scanned, or its index opened.
VersionGone(v) ==
    /\ v \in backfill.left \cup backfill.current
    /\ index[v] = "no_version"
    /\ \/ v \in backfill.left /\ Backfill("look", [backfill EXCEPT !.at = "failed"])
       \/ v \in backfill.current /\ Backfill("open", [backfill EXCEPT !.at = "failed"])
    /\ UNCHANGED diskVars

OpenIndex(v) ==
    /\ v \in backfill.current
    /\ index[v] # "no_version"
    /\ Backfill("open", [backfill EXCEPT !.at = "write"])
    /\ index' = [index EXCEPT ![v] = "cut"]
    /\ UNCHANGED interrupted

\* When the directory has been removed meanwhile, the file is no longer in
\* it; a version published there again has an index of its own.
WriteIndex(v) ==
    /\ v \in backfill.current
    /\ Backfill("write", [backfill EXCEPT !.at = "look", !.current = {}])
    /\ index' = [index EXCEPT ![v] = IF @ = "cut" THEN "whole" ELSE @]
    /\ UNCHANGED interrupted

WriteIndexFails(v) ==
    /\ v \in backfill.current
    /\ Backfill("write", [backfill EXCEPT !.at = "failed"])
    /\ interrupted' = interrupted \cup {v}
    /\ UNCHANGED index

BackfillEnds ==
    /\ backfill.left = {}
    /\ Backfill("look", [backfill EXCEPT !.at = "done"])
    /\ UNCHANGED diskVars

BackfillStep ==
    \/ ListVersions
    \/ \E v \in Versions :
        \/ IndexFound(v)
        \/ ScanVersion(v)
        \/ VersionGone(v)
        \/ OpenIndex(v)
        \/ WriteIndex(v)
        \/ WriteIndexFails(v)
    \/ BackfillEnds

----------------------------------------------------------------------------
(* What else happens to what a life begins with                            *)

\* An upload or a pull renames a version into place with its index.
Publish(v) ==
    /\ stage = "serve"
    /\ index[v] = "no_version"
    /\ index' = [index EXCEPT ![v] = "whole"]
    /\ UNCHANGED <<stage, keyVars, key, dataVars, looked, backfill, interrupted, ends>>

\* The map is deleted, or a pull clears what an earlier one left.
RemoveVersion(v) ==
    /\ stage = "serve"
    /\ v \in Existing
    /\ index' = [index EXCEPT ![v] = "no_version"]
    /\ interrupted' = interrupted \ {v}
    /\ backfill' = [backfill EXCEPT !.found = @ \ {v}]
    /\ UNCHANGED <<stage, keyVars, key, dataVars, looked, ends>>

\* An administrator gives the account another password or other
\* permissions, or deletes it.
ChangeAccount ==
    /\ stage = "serve"
    /\ account' \in {"changed", "absent"}
    /\ account # "absent"
    /\ UNCHANGED <<stage, keyVars, key, constraints, looked, diskVars, backfill, ends>>

\* A crash, an error that makes run return, or a signal: ListenAndServe
\* returns at once when srv.Shutdown is called, and run and main with it.
End ==
    /\ stage # "down"
    /\ ends < MaxEnds
    /\ ends' = ends + 1
    /\ Gone
    /\ UNCHANGED <<keyVars, dataVars, index>>

Life ==
    \/ Start
    \/ LeavePair \/ GeneratePair
    \/ WritePrivate \/ WritePublic
    \/ Load \/ LoadFails
    \/ AddConstraint \/ Migrated
    \/ SeedUser

LifeNext ==
    \/ Life
    \/ BackfillStep
    \/ \E v \in Versions : Publish(v) \/ RemoveVersion(v)
    \/ ChangeAccount
    \/ End

LifeSpec == LifeInit /\ [][LifeNext]_lifeVars

\* The server is started again whenever it is gone, and then goes on, as its
\* goroutine does.
LifeFairSpec == LifeSpec /\ WF_lifeVars(Life) /\ WF_lifeVars(BackfillStep)

----------------------------------------------------------------------------

\* Wherever earlier lives ended, a request meets a server that has the key
\* its keys directory keeps, a public half that is that key's or none, and
\* every foreign key in the database, on which the handlers rely for their
\* cascades and for the refusals they answer with (run, initStore).
ServesReady ==
    stage = "serve" =>
        /\ private \in Keys
        /\ key = private
        /\ public \in {private, Missing, Cut}
        /\ constraints = 1..Constraints

\* Starting again takes nothing back: a key once written, which other
\* servers have registered, and an account an administrator has changed
\* outlive every restart (EnsureKeyPair, SeedUser).
RestartKeeps ==
    [][/\ private \in Keys => private' = private
       /\ (stage # "serve" /\ account = "changed") => account' = account]_lifeVars

\* A backfill that has come to its end leaves an index in every version it
\* found, cut only where an earlier backfill was stopped in that file
\* (EnsureTileIndexes): what is cut passes for an index ever after.
IndexBackfilled ==
    backfill.at = "done" =>
        \A v \in backfill.found :
            \/ index[v] = "whole"
            \/ (index[v] = "cut" /\ v \in interrupted)

\* In the end the server serves and its backfill is over, wherever earlier
\* lives ended, with one exception: a life that ended inside the write of
\* server.key leaves a file no later start can load (EnsureKeyPair).
ComesUp ==
    <>[](\/ private = Cut
         \/ (stage = "serve" /\ backfill.at \in {"done", "failed"}))
=============================================================================
