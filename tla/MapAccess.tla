----------------------------- MODULE MapAccess -----------------------------
(***************************************************************************)
(* What one user may do with one map: the permission checks of the HTTP    *)
(* handlers, the rows they depend on, the administrative requests that     *)
(* change those rows, and the caches of the store in between.              *)
(*                                                                         *)
(* A user's flags are those of the user's row and of the user's groups; a  *)
(* grant on the map is the user's own and the groups'.  "edit" stands for  *)
(* the flags that let their holder modify (can_edit, can_delete and the    *)
(* two for geo objects: the checks treat them alike, one at a time), and   *)
(* one group stands for the groups.                                        *)
(***************************************************************************)
EXTENDS Integers

CONSTANTS
    Requests,
    Writers,   \* administrative requests, logins and sync passes
    Initial,   \* rows at the start
    Bundles,   \* sets of flags that users and groups are given
    Grants,    \* sets of flags that grants are made of
    Visibilities, \* sets of flags that maps are given
    Ttl,
    MaxLoad,
    MaxWrites, \* bound: writes
    MaxTime    \* bound: clock

VARIABLES
    rows,      \* what the database says of the user, the group and the map
    writes,    \* bound: number of writes so far
    rereading, \* writers that read their row again before they invalidate
    now, cached, entry, request, pending, overlapped, quiet, was

caches ==
    <<now, cached, entry, request, pending, overlapped, quiet, was>>
vars == <<rows, writes, rereading, caches>>

Flags == {"admin", "edit", "view"}
GrantFlags == {"edit", "view"}
MapFlags == {"owner", "visible", "anonymous"}

ASSUME FlagsAssumption ==
    /\ Bundles \subseteq SUBSET Flags
    /\ Grants \subseteq SUBSET GrantFlags
    /\ Visibilities \subseteq SUBSET {"visible", "anonymous"}
ASSUME TimesAssumption == Ttl \in Nat /\ MaxLoad \in Nat
ASSUME MaxWritesAssumption == MaxWrites \in Nat

-----------------------------------------------------------------------------
\* The rows

Missing == {"missing"}

Rows ==
    [user : {Missing} \cup SUBSET Flags,
     member : BOOLEAN,                  \* of the group
     group : SUBSET Flags,
     grant : SUBSET GrantFlags,         \* the user's own
     groupGrant : SUBSET GrantFlags,
     map : {Missing} \cup SUBSET MapFlags]

ASSUME InitialAssumption == Initial \subseteq Rows

Facts == {"perms", "map", "grant", "listed"}

\* GetPermissions' query.
Permissions(x) ==
    IF x.user = Missing THEN Missing
    ELSE x.user \cup (IF x.member THEN x.group ELSE {})

\* GetMapPermission's query.
MapPermission(x) == x.grant \cup (IF x.member THEN x.groupGrant ELSE {})

\* Whether ListMaps' query finds the map: "exists" without the condition on
\* visibility, "listed" with it.
Listed(x) ==
    IF x.map = Missing THEN {}
    ELSE IF x.map \cap {"owner", "visible"} # {} \/ MapPermission(x) # {}
    THEN {"exists", "listed"}
    ELSE {"exists"}

db ==
    [f \in Facts |->
        CASE f = "perms" -> Permissions(rows)
          [] f = "map" -> rows.map
          [] f = "grant" -> MapPermission(rows)
          [] f = "listed" -> Listed(rows)]

Values ==
    UNION {{Missing}, SUBSET Flags, SUBSET MapFlags, SUBSET {"exists", "listed"}}

-----------------------------------------------------------------------------
\* The checks

Kinds == {"edit", "manage", "view", "tile", "anonymous", "list"}
Steps == {"perms", "map", "grant", "rows", "every"}
Verdicts == {"allowed", "denied", "failed"}

First(kind) == IF kind \in {"edit", "manage", "list"} THEN "perms" ELSE "map"

FactOf(step) == IF step \in {"rows", "every"} THEN "listed" ELSE step

\* ListMaps has no cache.
Storing == {"perms", "map", "grant"}

Has(value, rights) == value # Missing /\ value \cap rights # {}

\* What a step does that looks for one of the rights, and that needs a row.
Decide(value, rights, otherwise) ==
    IF Has(value, rights) THEN "allowed" ELSE otherwise
NeedsRow(value, next) == IF value = Missing THEN "failed" ELSE next

\* Mutant: ownership is not looked at.
Edit_NotOwner(step, value) ==
    CASE step = "perms" ->
            NeedsRow(value, Decide(value, {"admin", "edit"}, "map"))
      [] step = "map" -> "grant"
      [] OTHER -> Decide(value, {"edit"}, "denied")

\* requireMapPermission: the global flags, then the owner, then the grant.
Edit(step, value) ==
    CASE step = "perms" ->
            NeedsRow(value, Decide(value, {"admin", "edit"}, "map"))
      [] step = "map" -> Decide(value, {"owner"}, "grant")
      [] OTHER -> Decide(value, {"edit"}, "denied")

\* requireMapAdmin
Manage(step, value) ==
    CASE step = "perms" -> NeedsRow(value, Decide(value, {"admin"}, "map"))
      [] OTHER -> Decide(value, {"owner"}, "denied")

\* Mutant: any answer counts as a grant.
View_AnyGrant(step, value) ==
    CASE step = "map" ->
            NeedsRow(value, Decide(value, {"visible", "owner"}, "perms"))
      [] step = "perms" -> NeedsRow(value, Decide(value, Flags, "grant"))
      [] OTHER -> "allowed"

\* getViewableMap, requireMapView: the map's own flags, then the global ones
\* (GrantsMapVisibility), then the grant (GrantsVisibility).
View(step, value) ==
    CASE step = "map" ->
            NeedsRow(value, Decide(value, {"visible", "owner"}, "perms"))
      [] step = "perms" -> NeedsRow(value, Decide(value, Flags, "grant"))
      [] OTHER -> Decide(value, GrantFlags, "denied")

\* ServeMapVersionFileHandler for a client that sent a token, and for one
\* that did not, where the configuration admits anonymous clients.
Tile(step, value) ==
    IF step = "map" THEN Decide(value, {"anonymous"}, View(step, value))
    ELSE View(step, value)

Anonymous(value) == NeedsRow(value, Decide(value, {"anonymous"}, "denied"))

\* MapsListHandler: is the map in the list?
List(step, value) ==
    CASE step = "perms" ->
            NeedsRow(value, IF Has(value, Flags) THEN "every" ELSE "rows")
      [] step = "rows" -> Decide(value, {"listed"}, "denied")
      [] OTHER -> Decide(value, {"exists"}, "denied")

Then(kind, step, value) ==
    CASE kind = "edit" -> Edit(step, value)
      [] kind = "manage" -> Manage(step, value)
      [] kind = "view" -> View(step, value)
      [] kind = "tile" -> Tile(step, value)
      [] kind = "anonymous" -> Anonymous(value)
      [] kind = "list" -> List(step, value)

\* db is the operator above: what the queries find in the rows.
Cache == INSTANCE CachedFacts WITH db <- db

-----------------------------------------------------------------------------
\* One action per store function that changes the rows.  Each is a statement
\* or a transaction; the invalidate that follows it is Invalidate.

\* w's statement makes the rows x.  Its function will invalidate the entries
\* of the announced facts; of the silent ones the code says, or its authors
\* know, that they may change and are left to expire.  Left out are
\* statements that change nothing.
Change(w, x, announced, silent) ==
    /\ x # rows /\ writes < MaxWrites
    /\ writes' = writes + 1
    /\ rows' = x
    /\ UNCHANGED rereading
    /\ Cache!Wrote(w, announced, silent)

\* The same, and w reads the row again before it invalidates.
ChangeAndReread(w, x, announced) ==
    /\ x # rows /\ writes < MaxWrites
    /\ writes' = writes + 1
    /\ rows' = x
    /\ rereading' = rereading \cup {w}
    /\ Cache!Wrote(w, announced, {})

\* Where no cache can hold anything about the user, nothing is announced.
CreateUser(w) ==
    \E flags \in Bundles :
        /\ rows.user = Missing
        /\ Change(w, [rows EXCEPT !.user = flags], {}, {"perms"})

UpdateUser(w) ==
    \E flags \in Bundles :
        /\ rows.user # Missing
        /\ ChangeAndReread(w, [rows EXCEPT !.user = flags], {"perms"})

\* A user who owns a map cannot be deleted; grants and memberships go along.
DeleteUser(w) ==
    /\ rows.user # Missing
    /\ "owner" \notin rows.map
    /\ Change(w, [rows EXCEPT !.user = Missing, !.member = FALSE, !.grant = {}],
              {"perms"}, {"grant", "listed"})

\* The caches of flags and of grants are cleared.
UpdateGroup(w) ==
    \E flags \in Bundles :
        ChangeAndReread(w, [rows EXCEPT !.group = flags], {"perms", "grant"})

DeleteGroup(w) ==
    Change(w, [rows EXCEPT !.group = {}, !.member = FALSE, !.groupGrant = {}],
           {"perms", "grant"}, {"listed"})

\* A login: the user's memberships become those of the directory.
ReplaceGroupMembership(w) ==
    \E member \in BOOLEAN :
        /\ rows.user # Missing
        /\ Change(w, [rows EXCEPT !.member = member],
                  {"perms"}, {"grant", "listed"})

\* Mutant: the cached grant stays.
SetMapPermission_NoInvalidate(w) ==
    \E grant \in Grants :
        /\ rows.user # Missing /\ rows.map # Missing
        /\ Change(w, [rows EXCEPT !.grant = grant], {}, {"listed"})

\* SetMapPermission, and DeleteMapPermission when nothing is granted.
SetMapPermission(w) ==
    \E grant \in Grants :
        /\ rows.user # Missing /\ rows.map # Missing
        /\ Change(w, [rows EXCEPT !.grant = grant], {"grant"}, {"listed"})

SetGroupMapPermission(w) ==
    \E grant \in Grants :
        /\ rows.map # Missing
        /\ Change(w, [rows EXCEPT !.groupGrant = grant], {"grant"}, {"listed"})

Owned(x) == x.map \cap {"owner"}

\* The flags of a map; a request of a user, or a pass of the mirror.
UpdateMap(w) ==
    \E flags \in Visibilities :
        /\ rows.map # Missing
        /\ Change(w, [rows EXCEPT !.map = flags \cup Owned(rows)],
                  {"map"}, {"listed"})

UpdateMapOwner(w) ==
    \E owned \in SUBSET {"owner"} :
        /\ rows.map # Missing
        /\ owned # {} => rows.user # Missing
        /\ Change(w, [rows EXCEPT !.map = (@ \ {"owner"}) \cup owned],
                  {"map"}, {"listed"})

\* The grants go along.
DeleteMap(w) ==
    /\ rows.map # Missing
    /\ Change(w, [rows EXCEPT !.map = Missing, !.grant = {}, !.groupGrant = {}],
              {"map"}, {"grant", "listed"})

\* A pass of the mirror brings a map back under the same id; the owner is
\* the sync account.
UpsertSyncedMap(w) ==
    \E flags \in Visibilities :
        /\ rows.map = Missing
        /\ Change(w, [rows EXCEPT !.map = flags], {"map"}, {"listed"})

Invalidate(w) ==
    /\ UNCHANGED <<rows, writes>>
    /\ rereading' = rereading \ {w}
    /\ Cache!Invalidate(w)

\* The second read fails (the client of UpdateUser or UpdateGroup is gone,
\* or another request deleted the row): the function returns.
RereadFails(w) ==
    /\ w \in rereading
    /\ UNCHANGED <<rows, writes>>
    /\ rereading' = rereading \ {w}
    /\ Cache!GiveUp(w)

WriterStep(w) ==
    \/ CreateUser(w)
    \/ UpdateUser(w)
    \/ DeleteUser(w)
    \/ UpdateGroup(w)
    \/ DeleteGroup(w)
    \/ ReplaceGroupMembership(w)
    \/ SetMapPermission(w)
    \/ SetGroupMapPermission(w)
    \/ UpdateMap(w)
    \/ UpdateMapOwner(w)
    \/ DeleteMap(w)
    \/ UpsertSyncedMap(w)
    \/ Invalidate(w)
    \/ RereadFails(w)

-----------------------------------------------------------------------------

\* The requests of the user, each by one of the checks.
Check(r) == UNCHANGED <<rows, writes, rereading>> /\ Cache!RequestStep(r)

Tick == UNCHANGED <<rows, writes, rereading>> /\ Cache!Tick

Restart ==
    /\ UNCHANGED <<rows, writes>>
    /\ rereading' = {}
    /\ Cache!Restart

Init ==
    /\ rows \in Initial
    /\ writes = 0
    /\ rereading = {}
    /\ Cache!InitCaches

Next ==
    \/ \E r \in Requests : Check(r)
    \/ \E w \in Writers : WriterStep(w)
    \/ Tick
    \/ Restart

Spec == Init /\ [][Next]_vars

TypeOK ==
    /\ rows \in Rows
    /\ writes \in 0..MaxWrites
    /\ rereading \in SUBSET Writers
    /\ Cache!TypeOK

-----------------------------------------------------------------------------
\* Properties

\* MapAccess is requests that read facts through the caches.
IsCachedFacts == Cache!Spec

\* What gives the right that a check looks for: for each fact, the flags of
\* which one suffices.
Rights(kind) ==
    CASE kind = "edit" ->
            [perms |-> {"admin", "edit"}, map |-> {"owner"},
             grant |-> {"edit"}, listed |-> {}]
      [] kind = "manage" ->
            [perms |-> {"admin"}, map |-> {"owner"}, grant |-> {}, listed |-> {}]
      [] kind = "view" ->
            [perms |-> Flags, map |-> {"visible", "owner"},
             grant |-> GrantFlags, listed |-> {}]
      [] kind = "tile" ->
            [perms |-> Flags, map |-> {"visible", "owner", "anonymous"},
             grant |-> GrantFlags, listed |-> {}]
      [] kind = "anonymous" ->
            [perms |-> {}, map |-> {"anonymous"}, grant |-> {}, listed |-> {}]
      [] kind = "list" ->
            [perms |-> Flags, map |-> {}, grant |-> {}, listed |-> {"listed"}]

\* Fact f gave one of the rights at some time in the last d units; or did not.
Granted(f, rights, d) ==
    \E v \in Values : Has(v, rights) /\ Cache!WasWithin(f, v, d)
Lacked(f, rights, d) ==
    \E v \in Values : ~Has(v, rights) /\ Cache!WasWithin(f, v, d)

Becomes(r, verdict) == Cache!Running(r) /\ request'[r].at = verdict

\* How far back the facts of r's request can lie.
Span(r) == now - request[r].started + Cache!Window

\* A right that was taken away works for at most the cacheTTL and one load
\* more, whatever was invalidated and whatever ran concurrently.  (The list
\* reads the flags and then the rows: as long as that takes besides.)
AllowJustified ==
    [][\A r \in Requests : Becomes(r, "allowed") =>
        \E f \in Facts :
            Granted(f, Rights(request[r].kind)[f],
                    IF request[r].kind = "list" THEN Span(r) ELSE Cache!Window)]_vars

\* Nobody is refused who had one and the same right all along: each fact
\* lacked it at some time since the cacheTTL and one load before the request.
DenyJustified ==
    [][\A r \in Requests : Becomes(r, "denied") /\ request[r].kind # "list" =>
        \A f \in Facts : Lacked(f, Rights(request[r].kind)[f], Span(r))]_vars

\* Of the entries in the caches; see CachedFacts.
HitsFresh == Cache!HitsFresh
StaleExplained == Cache!StaleExplained
=============================================================================
