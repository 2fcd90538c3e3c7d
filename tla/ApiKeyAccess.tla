---------------------------- MODULE ApiKeyAccess ----------------------------
(***************************************************************************)
(* What a request that is authenticated by an API key may do with one map, *)
(* as far as the key decides it: the key's row, its scope on the map, the  *)
(* two caches in front of them, and the requests that change the rows.     *)
(* That the key's user has the right as well is MapAccess.                 *)
(*                                                                         *)
(* A key that is not scoped may do whatever its user may.  A scoped one is *)
(* confined to the maps it has an entry for and, where the entry names     *)
(* versions, to those.                                                     *)
(***************************************************************************)
EXTENDS Integers

CONSTANTS
    Requests,
    Writers,
    Initial,   \* rows at the start
    Versions,  \* of the map
    Ttl,
    MaxLoad,
    MaxWrites, \* bound: writes
    MaxTime    \* bound: clock

VARIABLES
    rows,      \* what the database says of the key and of its scope
    writes,    \* bound: number of writes so far
    now, cached, entry, request, pending, overlapped, quiet, was

caches ==
    <<now, cached, entry, request, pending, overlapped, quiet, was>>
vars == <<rows, writes, caches>>

Missing == {"missing"}

ASSUME VersionsAssumption ==
    Versions \cap {"missing", "scoped", "map", "versions"} = {}
ASSUME TimesAssumption == Ttl \in Nat /\ MaxLoad \in Nat
ASSUME MaxWritesAssumption == MaxWrites \in Nat

-----------------------------------------------------------------------------
\* The rows

Keys == {Missing, {}, {"scoped"}}

\* The key's entry for the map; {"map"} is one that names no versions.
Scopes == {{}} \cup {{"map"} \cup versions : versions \in SUBSET Versions}

Rows ==
    [key : Keys,        \* Missing: revoked, or gone with its user
     owned : BOOLEAN,   \* the key's user exists
     map : BOOLEAN,     \* the map exists
     scope : Scopes]

ASSUME InitialAssumption ==
    Initial \subseteq {x \in Rows :
        /\ x.scope # {} => x.key # {} /\ x.map
        /\ ~x.owned => x.key = Missing /\ x.scope = {}}

Facts == {"key", "scope"}

db == [f \in Facts |-> IF f = "key" THEN rows.key ELSE rows.scope]

Values == Keys \cup Scopes

-----------------------------------------------------------------------------
\* The checks

\* A request for the map, for one of its versions, or for their list.
Kinds == {"map", "versions"} \cup Versions

\* Every request is authenticated, then the map is checked, then a version
\* where one is asked for, or the versions to list: each check asks whether
\* the key is scoped and then for its scope.
Steps == {"key", "flag", "scope", "lastFlag", "lastScope"}
Verdicts == {"allowed", "everything", "whitelist", "denied", "failed"}

First(kind) == "key"

FactOf(step) == IF step \in {"scope", "lastScope"} THEN "scope" ELSE "key"

\* apiKeyScopedFlag reads the entry that ResolveAPIKeySigningKey stored, and
\* stores none.
Storing == {"key", "scope", "lastScope"}

InScope(scope) == "map" \in scope

\* Mutant: an entry that does not name the version suffices.
Whitelists_Some(scope, version) == InScope(scope)

Whitelists(scope, version) ==
    InScope(scope) /\ (scope = {"map"} \/ version \in scope)

\* APIKeyCanAccessMap has said yes: what is left to do?
Onwards(kind) == IF kind = "map" THEN "allowed" ELSE "lastFlag"

\* The key is not scoped, or its scope is.
Free(kind) == IF kind = "versions" THEN "everything" ELSE "allowed"

\* APIKeyCanAccessMapVersion, APIKeyScopedVersions
Last(kind, scope) ==
    IF kind = "versions"
    THEN IF ~InScope(scope) \/ scope = {"map"} THEN "everything" ELSE "whitelist"
    ELSE IF Whitelists(scope, kind) THEN "allowed" ELSE "denied"

\* Mutant: the entry is looked up whether or not the key is scoped.
Then_AlwaysScoped(kind, step, value) ==
    CASE step \in {"key", "flag", "lastFlag"} ->
            IF value = Missing THEN "failed"
            ELSE IF step = "key" THEN "flag"
            ELSE IF step = "flag" THEN "scope" ELSE "lastScope"
      [] step = "scope" -> IF InScope(value) THEN Onwards(kind) ELSE "denied"
      [] step = "lastScope" -> Last(kind, value)

\* Without a row, the request is answered 401 at its first step, and 500
\* later on.
Then(kind, step, value) ==
    CASE step = "key" -> IF value = Missing THEN "failed" ELSE "flag"
      [] step = "flag" ->
            IF value = Missing THEN "failed"
            ELSE IF value = {} THEN Onwards(kind) ELSE "scope"
      [] step = "scope" -> IF InScope(value) THEN Onwards(kind) ELSE "denied"
      [] step = "lastFlag" ->
            IF value = Missing THEN "failed"
            ELSE IF value = {} THEN Free(kind) ELSE "lastScope"
      [] step = "lastScope" -> Last(kind, value)

Cache == INSTANCE CachedFacts WITH db <- db

-----------------------------------------------------------------------------
\* One action per store function that changes the rows, as in MapAccess.

Change(w, x, announced, silent) ==
    /\ x # rows /\ writes < MaxWrites
    /\ writes' = writes + 1
    /\ rows' = x
    /\ Cache!Wrote(w, announced, silent)

\* Mutant: the flag is left for another statement.
SetAPIKeyScope_FlagLater(w) ==
    \E versions \in SUBSET Versions :
        /\ rows.key # Missing /\ rows.map
        /\ Change(w, [rows EXCEPT !.scope = {"map"} \cup versions],
                  {"key", "scope"}, {})

SetAPIKeyScope(w) ==
    \E versions \in SUBSET Versions :
        /\ rows.key # Missing /\ rows.map
        /\ Change(w, [rows EXCEPT !.key = {"scoped"},
                                  !.scope = {"map"} \cup versions],
                  {"key", "scope"}, {})

\* SetAPIKeyScope for another map.
ScopeToOtherMap(w) ==
    /\ rows.key # Missing
    /\ Change(w, [rows EXCEPT !.key = {"scoped"}], {"key"}, {})

\* Mutant: the cached entry is left to expire.
DeleteAPIKeyScope_NoInvalidate(w) ==
    /\ rows.key # Missing /\ rows.scope # {}
    /\ Change(w, [rows EXCEPT !.scope = {}], {}, {})

\* The key stays scoped.
DeleteAPIKeyScope(w) ==
    /\ rows.key # Missing /\ rows.scope # {}
    /\ Change(w, [rows EXCEPT !.scope = {}], {"scope"}, {})

\* The cached entry of the map is left to expire.
ClearAPIKeyScope(w) ==
    /\ rows.key # Missing
    /\ Change(w, [rows EXCEPT !.key = {}, !.scope = {}], {"key"}, {"scope"})

\* The entries stay, and so does the cached key.
RevokeAPIKey(w) ==
    /\ rows.key # Missing
    /\ Change(w, [rows EXCEPT !.key = Missing], {}, {"key"})

\* DeleteUser: the user's keys and their entries go along.
DeleteUser(w) ==
    /\ rows.owned
    /\ Change(w, [rows EXCEPT !.owned = FALSE, !.key = Missing, !.scope = {}],
              {}, {"key", "scope"})

\* DeleteMap: the entries go along.
DeleteMap(w) ==
    /\ rows.map
    /\ Change(w, [rows EXCEPT !.map = FALSE, !.scope = {}], {}, {"scope"})

\* A pass of the mirror brings the map back under the same id.
UpsertSyncedMap(w) ==
    /\ ~rows.map
    /\ Change(w, [rows EXCEPT !.map = TRUE], {}, {})

Invalidate(w) == UNCHANGED <<rows, writes>> /\ Cache!Invalidate(w)

WriterStep(w) ==
    \/ SetAPIKeyScope(w)
    \/ ScopeToOtherMap(w)
    \/ DeleteAPIKeyScope(w)
    \/ ClearAPIKeyScope(w)
    \/ RevokeAPIKey(w)
    \/ DeleteUser(w)
    \/ DeleteMap(w)
    \/ UpsertSyncedMap(w)
    \/ Invalidate(w)

-----------------------------------------------------------------------------

Check(r) == UNCHANGED <<rows, writes>> /\ Cache!RequestStep(r)

Tick == UNCHANGED <<rows, writes>> /\ Cache!Tick

Restart == UNCHANGED <<rows, writes>> /\ Cache!Restart

Init ==
    /\ rows \in Initial
    /\ writes = 0
    /\ Cache!InitCaches

Next ==
    \/ \E r \in Requests : Check(r)
    \/ \E w \in Writers : WriterStep(w)
    \/ Tick
    \/ Restart

Spec == Init /\ [][Next]_vars

TypeOK ==
    /\ rows \in Rows
    /\ writes \in 0..MaxWrites
    /\ Cache!TypeOK

-----------------------------------------------------------------------------
\* Properties

\* ApiKeyAccess is requests that read facts through the caches.
IsCachedFacts == Cache!Spec

\* Two transactions that touch the flag and the entries, and the cascades,
\* leave no key with an entry that the flag says to ignore.
ScopesCount == rows.scope # {} => rows.key # {} /\ rows.map /\ rows.owned

\* The value of f satisfied one of the values at some time of the last d units.
Was(f, values, d) == \E v \in values : Cache!WasWithin(f, v, d)

Becomes(r, verdict) == Cache!Running(r) /\ request'[r].at = verdict

Span(r) == now - request[r].started + Cache!Window

\* The scopes with which a request of a kind is within the key's rights.
Admitting(kind) ==
    IF kind \in Versions
    THEN {scope \in Scopes : scope = {"map"} \/ kind \in scope}
    ELSE Scopes \ {{}}

\* What a key lets a request do, its rows let it do: it was valid since a
\* cacheTTL and a load before the request, and within the last cacheTTL and
\* load either not scoped or scoped to what is asked for.  Revoking a key
\* or narrowing its scope takes no longer to have effect.
AllowJustified ==
    [][\A r \in Requests : Becomes(r, "allowed") =>
        /\ Was("key", Values \ {Missing}, Span(r))
        /\ \/ Was("key", {{}}, Cache!Window)
           \/ Was("scope", Admitting(request[r].kind), Cache!Window)]_vars

\* A key is refused only where it was scoped, and at some time had no entry
\* for what is asked for.
DenyJustified ==
    [][\A r \in Requests : Becomes(r, "denied") =>
        /\ Was("key", Values \ {Missing, {}}, Span(r))
        /\ Was("scope", Values \ Admitting(request[r].kind), Cache!Window)]_vars

\* Of the entries in the caches; see CachedFacts.
StaleExplained == Cache!StaleExplained
=============================================================================
