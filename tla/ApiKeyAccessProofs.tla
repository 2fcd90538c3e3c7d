------------------------- MODULE ApiKeyAccessProofs -------------------------
(***************************************************************************)
(* ApiKeyAccess implements CachedFacts, and what a key is allowed or       *)
(* refused is explained by its rows of the last cacheTTL and load, for any *)
(* versions, any number of requests and writers and any ttl.               *)
(***************************************************************************)
EXTENDS ApiKeyAccess, TLAPS

Proved == INSTANCE CachedFactsProofs WITH db <- db

LEMMA ConstantsSound == Cache!Sound
<1>1. \A k \in Kinds : First(k) \in Steps
  BY DEF First, Steps
<1>2. \A s \in Steps : FactOf(s) \in Facts
  BY DEF Steps, FactOf, Facts
<1>3. \A k \in Kinds, s \in Steps, v \in Values :
        Then(k, s, v) \in Steps \cup Verdicts
  BY DEF Steps, Verdicts, Then, Onwards, Free, Last
<1>4. Missing \in Values /\ Kinds # {} /\ "failed" \in Verdicts
  BY DEF Values, Keys, Kinds, Verdicts
<1>5. QED
  BY <1>1, <1>2, <1>3, <1>4, TimesAssumption DEF Cache!Sound

\* What the rows keep to.
RowsInv == rows \in Rows /\ ScopesCount /\ (~rows.owned => rows.key = Missing)

\* A write as CachedFacts sees it: what changes is announced or silent.
LEMMA WroteIsWrite ==
    ASSUME rows' \in Rows, NEW w \in Writers,
           NEW announced \in SUBSET Facts, NEW silent \in SUBSET Facts,
           Cache!Wrote(w, announced, silent),
           "key" \in announced \cup silent \/ rows'.key = rows.key,
           "scope" \in announced \cup silent \/ rows'.scope = rows.scope
    PROVE  Cache!Write(w)
<1>1. db' \in [Facts -> Values]
  BY DEF Rows, db, Facts, Values
<1>2. \A f \in Facts : f \in announced \cup silent \/ db'[f] = db[f]
  BY DEF Facts, db
<1>3. {f \in silent \ announced : db'[f] # db[f]}
            = {f \in Facts \ announced : db'[f] # db[f]}
  BY <1>2
<1>4. Cache!Wrote(w, announced, Facts)
  BY <1>3 DEF Cache!Wrote
<1>5. QED
  BY <1>1, <1>4 DEF Cache!Write

LEMMA WriterStepImplements ==
    ASSUME RowsInv, NEW w \in Writers, WriterStep(w)
    PROVE  RowsInv' /\ (Cache!Write(w) \/ Cache!Invalidate(w))
<1> USE DEF RowsInv, ScopesCount, Facts
<1>1. CASE SetAPIKeyScope(w)
  <2>1. PICK versions \in SUBSET Versions :
          /\ rows' = [rows EXCEPT !.key = {"scoped"},
                                 !.scope = {"map"} \cup versions]
          /\ Cache!Wrote(w, {"key", "scope"}, {})
          /\ rows.key # Missing /\ rows.map
    BY <1>1 DEF SetAPIKeyScope, Change
  <2>2. RowsInv'
    BY <2>1 DEF Rows, Keys, Scopes, Missing
  <2>3. QED
    BY <2>1, <2>2, WroteIsWrite DEF Rows
<1>2. CASE ScopeToOtherMap(w)
  <2>1. /\ rows' = [rows EXCEPT !.key = {"scoped"}]
        /\ Cache!Wrote(w, {"key"}, {})
        /\ rows.key # Missing
    BY <1>2 DEF ScopeToOtherMap, Change
  <2>2. RowsInv'
    BY <2>1 DEF Rows, Keys, Scopes, Missing
  <2>3. QED
    BY <2>1, <2>2, WroteIsWrite DEF Rows
<1>3. CASE DeleteAPIKeyScope(w)
  <2>1. /\ rows' = [rows EXCEPT !.scope = {}]
        /\ Cache!Wrote(w, {"scope"}, {})
    BY <1>3 DEF DeleteAPIKeyScope, Change
  <2>2. RowsInv'
    BY <2>1 DEF Rows, Keys, Scopes, Missing
  <2>3. QED
    BY <2>1, <2>2, WroteIsWrite DEF Rows
<1>4. CASE ClearAPIKeyScope(w)
  <2>1. /\ rows' = [rows EXCEPT !.key = {}, !.scope = {}]
        /\ Cache!Wrote(w, {"key"}, {"scope"})
        /\ rows.key # Missing
    BY <1>4 DEF ClearAPIKeyScope, Change
  <2>2. RowsInv'
    BY <2>1 DEF Rows, Keys, Scopes, Missing
  <2>3. QED
    BY <2>1, <2>2, WroteIsWrite DEF Rows
<1>5. CASE RevokeAPIKey(w)
  <2>1. /\ rows' = [rows EXCEPT !.key = Missing]
        /\ Cache!Wrote(w, {}, {"key"})
    BY <1>5 DEF RevokeAPIKey, Change
  <2>2. RowsInv'
    BY <2>1 DEF Rows, Keys, Scopes, Missing
  <2>3. QED
    BY <2>1, <2>2, WroteIsWrite DEF Rows
<1>6. CASE DeleteUser(w)
  <2>1. /\ rows' = [rows EXCEPT !.owned = FALSE, !.key = Missing, !.scope = {}]
        /\ Cache!Wrote(w, {}, {"key", "scope"})
    BY <1>6 DEF DeleteUser, Change
  <2>2. RowsInv'
    BY <2>1 DEF Rows, Keys, Scopes, Missing
  <2>3. QED
    BY <2>1, <2>2, WroteIsWrite DEF Rows
<1>7. CASE DeleteMap(w)
  <2>1. /\ rows' = [rows EXCEPT !.map = FALSE, !.scope = {}]
        /\ Cache!Wrote(w, {}, {"scope"})
    BY <1>7 DEF DeleteMap, Change
  <2>2. RowsInv'
    BY <2>1 DEF Rows, Keys, Scopes, Missing
  <2>3. QED
    BY <2>1, <2>2, WroteIsWrite DEF Rows
<1>8. CASE UpsertSyncedMap(w)
  <2>1. /\ rows' = [rows EXCEPT !.map = TRUE]
        /\ Cache!Wrote(w, {}, {})
    BY <1>8 DEF UpsertSyncedMap, Change
  <2>2. RowsInv'
    BY <2>1 DEF Rows, Keys, Scopes, Missing
  <2>3. QED
    BY <2>1, <2>2, WroteIsWrite DEF Rows
<1>9. CASE Invalidate(w)
  BY <1>9 DEF Invalidate
<1>10. QED
  BY <1>1, <1>2, <1>3, <1>4, <1>5, <1>6, <1>7, <1>8, <1>9 DEF WriterStep

LEMMA Refines ==
    /\ Init => RowsInv /\ Cache!Init
    /\ RowsInv /\ [Next]_vars => RowsInv' /\ [Cache!Next]_Cache!vars
<1>1. ASSUME Init PROVE RowsInv /\ Cache!Init
  <2>1. RowsInv
    BY <1>1, InitialAssumption DEF Init, RowsInv, ScopesCount, Rows, Missing
  <2>2. db \in [Facts -> Values]
    BY <2>1 DEF RowsInv, Rows, db, Facts, Values
  <2>3. QED
    BY <1>1, <2>1, <2>2 DEF Init, Cache!Init
<1>2. ASSUME RowsInv, [Next]_vars PROVE RowsInv' /\ [Cache!Next]_Cache!vars
  <2>1. ASSUME NEW r \in Requests, Check(r) PROVE RowsInv' /\ Cache!Next
    BY <1>2, <2>1 DEF Check, Cache!Next, RowsInv, ScopesCount
  <2>2. ASSUME NEW w \in Writers, WriterStep(w) PROVE RowsInv' /\ Cache!Next
    BY <1>2, <2>2, WriterStepImplements DEF Cache!Next
  <2>3. ASSUME Tick PROVE RowsInv' /\ Cache!Next
    BY <1>2, <2>3 DEF Tick, Cache!Next, RowsInv, ScopesCount
  <2>4. ASSUME Restart PROVE RowsInv' /\ Cache!Next
    BY <1>2, <2>4 DEF Restart, Cache!Next, RowsInv, ScopesCount
  <2>5. CASE UNCHANGED vars
    BY <1>2, <2>5 DEF vars, caches, Cache!vars, db, RowsInv, ScopesCount
  <2>6. QED
    BY <1>2, <2>1, <2>2, <2>3, <2>4, <2>5 DEF Next
<1>3. QED
  BY <1>1, <1>2

\* Every behaviour of the key's requests, of the administration of its scope
\* and of the two caches is one of CachedFacts: what a store function changes
\* it invalidates or is known to leave to expire.
THEOREM ImplementsCachedFacts == Spec => IsCachedFacts
BY Refines, PTL DEF Spec, IsCachedFacts, Cache!Spec

\* No key has an entry that its flag says to ignore.
THEOREM ScopesCountCorrect == Spec => []ScopesCount
BY Refines, PTL DEF Spec, RowsInv

\* CachedFacts is the same module under both names.
LEMMA SameModule ==
    /\ Cache!Init <=> Proved!Init
    /\ Cache!Next <=> Proved!Next
    /\ Cache!vars = Proved!vars
<1>1. Cache!Init <=> Proved!Init
  BY DEF Cache!Init, Proved!Init, Cache!InitCaches, Proved!InitCaches, Cache!NoEntry,
         Proved!NoEntry, Cache!Settled, Proved!Settled
<1>2. Cache!Next <=> Proved!Next
  BY
     DEF Cache!Init, Proved!Init, Cache!InitCaches, Proved!InitCaches,
         Cache!Settled, Proved!Settled, Cache!NoEntry, Proved!NoEntry,
         Cache!Next, Proved!Next, Cache!RequestStep,
         Proved!RequestStep, Cache!Ask, Proved!Ask, Cache!Get,
         Proved!Get, Cache!Query, Proved!Query, Cache!Load,
         Proved!Load, Cache!Set, Proved!Set, Cache!Fail, Proved!Fail,
         Cache!Running, Proved!Running, Cache!Reads, Proved!Reads,
         Cache!Hit, Proved!Hit, Cache!Goes, Proved!Goes, Cache!Write,
         Proved!Write, Cache!Wrote, Proved!Wrote, Cache!Invalidate,
         Proved!Invalidate, Cache!GiveUp, Proved!GiveUp,
         Cache!Restart, Proved!Restart, Cache!Tick, Proved!Tick,
         Cache!vars, Proved!vars
<1>3. Cache!vars = Proved!vars
  BY DEF Cache!vars, Proved!vars
<1>4. QED
  BY <1>1, <1>2, <1>3

LEMMA RefinesProved ==
    /\ Init => RowsInv /\ Proved!Init
    /\ RowsInv /\ [Next]_vars => RowsInv' /\ [Proved!Next]_Proved!vars
BY Refines, SameModule DEF Cache!vars, Proved!vars

LEMMA ProvedSound == Proved!Sound
BY ConstantsSound DEF Cache!Sound, Proved!Sound

LEMMA SpecProved == Spec => Proved!Spec
BY RefinesProved, PTL DEF Spec, Proved!Spec

\* The rows, the caches, the requests and the history keep their types.
THEOREM TypeCorrect == Spec => []TypeOK
<1>1. Init => writes \in 0..MaxWrites
  BY MaxWritesAssumption DEF Init
<1>2. writes \in 0..MaxWrites /\ [Next]_vars => (writes \in 0..MaxWrites)'
  <2>1. ASSUME NEW w \in Writers, WriterStep(w)
        PROVE  writes' = writes \/ (writes < MaxWrites /\ writes' = writes + 1)
    BY <2>1, Zenon
       DEF WriterStep, Change, SetAPIKeyScope, ScopeToOtherMap, DeleteAPIKeyScope,
           ClearAPIKeyScope, RevokeAPIKey, DeleteUser, DeleteMap,
           UpsertSyncedMap, Invalidate
  <2>2. [Next]_vars
            => writes' = writes \/ (writes < MaxWrites /\ writes' = writes + 1)
    BY <2>1 DEF Next, vars, Check, Tick, Restart
  <2>3. QED
    BY <2>2, MaxWritesAssumption
<1>3. Proved!Spec => []Proved!TypeOK
  BY ProvedSound, Proved!TypeCorrect
<1>4. Proved!TypeOK => Cache!TypeOK
  BY DEF Proved!TypeOK, Cache!TypeOK
<1>5. QED
  BY <1>1, <1>2, <1>3, <1>4, SpecProved, RefinesProved, PTL DEF Spec, TypeOK, RowsInv

\* An entry is out of date only by an overlapping load, by a write that does
\* not invalidate, or until a writer gets to its invalidate.
THEOREM StaleExplainedCorrect == Spec => []StaleExplained
<1>1. Proved!Spec => []Proved!StaleExplained
  BY ProvedSound, Proved!StaleExplainedCorrect
<1>2. Proved!StaleExplained => StaleExplained
  BY DEF StaleExplained, Cache!StaleExplained, Proved!StaleExplained
<1>3. QED
  BY <1>1, <1>2, SpecProved, PTL

-----------------------------------------------------------------------------
\* What the caches guarantee, in the words of CachedFacts' proofs.
CacheInv == RowsInv /\ Proved!TypeOK /\ Proved!AgeInv

LEMMA CacheInvCorrect ==
    /\ Init => CacheInv
    /\ CacheInv /\ [Next]_vars => CacheInv'
<1>1. Init => CacheInv
  BY RefinesProved, ProvedSound, Proved!TypeInit, Proved!AgeInit DEF CacheInv
<1>2. CacheInv /\ [Next]_vars => CacheInv'
  BY RefinesProved, ProvedSound, Proved!TypeStep, Proved!AgeStep DEF CacheInv
<1>3. QED
  BY <1>1, <1>2

Window == Ttl + MaxLoad

LEMMA NumberFacts ==
    ASSUME CacheInv
    PROVE  /\ now \in Nat /\ Window \in Nat
           /\ \A x \in was : x.until \in Nat
           /\ \A r \in Requests :
                /\ request[r].started \in Nat /\ request[r].queriedAt \in Nat
                /\ request[r].kind \in Kinds
BY TimesAssumption DEF CacheInv, Proved!TypeOK, Window

\* What r reads at a step was so within the window, whether it comes from the
\* cache, from a query, or from the load that it now stores.
Learns(r, v) ==
    /\ request[r].at \in Steps
    /\ Proved!ReadAt(FactOf(request[r].at), v, now - Window)
    /\ Cache!Goes(r, v)

LEMMA ReadIsFresh ==
    ASSUME CacheInv, NEW r \in Requests,
           Cache!Get(r) \/ Cache!Query(r) \/ Cache!Set(r)
    PROVE  \E v \in Values : Learns(r, v)
<1> DEFINE f == FactOf(request[r].at)
<1>1. request[r].at \in Steps /\ f \in Facts
  BY DEF Cache!Get, Cache!Query, Cache!Set, Cache!Running, Steps, FactOf, Facts
<1>2. CASE Cache!Get(r)
  <2>1. /\ f \in cached /\ now <= entry[f].expires
        /\ Cache!Goes(r, entry[f].value)
    BY <1>2 DEF Cache!Get, Cache!Hit, Cache!Reads
  <2>2. Proved!ReadAt(f, entry[f].value, entry[f].expires - Window)
    BY <1>1, <2>1 DEF CacheInv, Proved!AgeInv, Proved!EntryAge, Proved!Window, Window
  <2>3. entry[f].expires \in Nat /\ entry[f].value \in Values
    BY <1>1 DEF CacheInv, Proved!TypeOK
  <2>4. Proved!ReadAt(f, entry[f].value, now - Window)
    BY <2>1, <2>2, <2>3, NumberFacts DEF Proved!ReadAt
  <2>5. QED
    BY <1>1, <2>1, <2>3, <2>4 DEF Learns
<1>3. CASE Cache!Query(r)
  <2>1. Cache!Goes(r, db[f])
    BY <1>3 DEF Cache!Query, Cache!Reads
  <2>2. db[f] \in Values /\ Proved!ReadAt(f, db[f], now - Window)
    BY <1>1 DEF CacheInv, Proved!TypeOK, Proved!ReadAt
  <2>3. QED
    BY <1>1, <2>1, <2>2 DEF Learns
<1>4. CASE Cache!Set(r)
  <2>1. request[r].loading /\ Cache!Goes(r, request[r].value)
    BY <1>4 DEF Cache!Set
  <2>2. /\ now <= request[r].queriedAt + MaxLoad
        /\ Proved!ReadAt(f, request[r].value, request[r].queriedAt)
    BY <1>1, <2>1 DEF CacheInv, Proved!AgeInv, Proved!LoadAge, Proved!Running,
                      Proved!Reads
  <2>3. request[r].value \in Values
    BY DEF CacheInv, Proved!TypeOK
  <2>4. now - Window <= request[r].queriedAt
    BY <2>2, NumberFacts, TimesAssumption DEF Window
  <2>5. Proved!ReadAt(f, request[r].value, now - Window)
    BY <2>2, <2>4, NumberFacts DEF Proved!ReadAt
  <2>6. QED
    BY <1>1, <2>1, <2>3, <2>5 DEF Learns
<1>5. QED
  BY <1>2, <1>3, <1>4

\* Where a request is after it has read v.
LEMMA AfterLearning ==
    ASSUME CacheInv, NEW r \in Requests, NEW v \in Values, Learns(r, v)
    PROVE  LET next == Then(request[r].kind, request[r].at, v) IN
           /\ request'[r].at = next
           /\ next \in Steps => /\ request'[r].kind = request[r].kind
                               /\ request'[r].started = request[r].started
           /\ \A q \in Requests \ {r} : request'[q] = request[q]
<1> DEFINE next == Then(request[r].kind, request[r].at, v)
<1>1. r \in DOMAIN request
  BY DEF CacheInv, Proved!TypeOK
<1>2. CASE next \in Steps
  <2>1. request' = [request EXCEPT ![r] = [@ EXCEPT !.at = next, !.loading = FALSE]]
    BY <1>2 DEF Learns, Cache!Goes
  <2>2. request[r] \in [at : Steps \cup Verdicts, kind : Kinds, loading : BOOLEAN,
                        value : Values, queriedAt : Nat, started : Nat]
    BY DEF CacheInv, Proved!TypeOK
  <2> HIDE DEF next
  <2>3. /\ [request[r] EXCEPT !.at = next, !.loading = FALSE].at = next
        /\ [request[r] EXCEPT !.at = next, !.loading = FALSE].kind = request[r].kind
        /\ [request[r] EXCEPT !.at = next, !.loading = FALSE].started
                = request[r].started
    BY <2>2
  <2>4. request'[r] = [request[r] EXCEPT !.at = next, !.loading = FALSE]
    BY <1>1, <2>1
  <2>5. \A q \in Requests \ {r} : request'[q] = request[q]
    BY <2>1 DEF CacheInv, Proved!TypeOK
  <2>6. QED
    BY <2>3, <2>4, <2>5 DEF next
<1>3. CASE next \notin Steps
  <2>1. request' = [request EXCEPT ![r] = Cache!Settled(next)]
    BY <1>3 DEF Learns, Cache!Goes
  <2> HIDE DEF next
  <2>2. Cache!Settled(next).at = next
    BY DEF Cache!Settled
  <2>3. request'[r] = Cache!Settled(next)
    BY <1>1, <2>1
  <2>4. \A q \in Requests \ {r} : request'[q] = request[q]
    BY <2>1 DEF CacheInv, Proved!TypeOK
  <2>5. QED
    BY <1>3, <2>2, <2>3, <2>4 DEF next
<1>4. QED
  BY <1>2, <1>3

-----------------------------------------------------------------------------
\* Since time t, f once had one of the values.
ReadOneOf(f, values, t) == \E v \in values : Proved!ReadAt(f, v, t)

\* What a request has read by the time it is at a step: a valid key, and a
\* scoped one before it looks for a scope.
Progress(at, t) ==
    /\ at # "key" => ReadOneOf("key", Values \ {Missing}, t)
    /\ at \in {"scope", "lastScope"} =>
            ReadOneOf("key", Values \ {Missing, {}}, t)

\* Only requests for more than the map come to the second pair of steps.
PathInv(r) ==
    request[r].at \in Steps =>
        /\ request[r].started <= now
        /\ request[r].at \in {"lastFlag", "lastScope"} => request[r].kind # "map"
        /\ Progress(request[r].at, request[r].started - Window)

LEMMA ReadKept ==
    ASSUME CacheInv, [Next]_vars, NEW f \in Facts, NEW values \in SUBSET Values,
           NEW t \in Int, t <= now, ReadOneOf(f, values, t)
    PROVE  ReadOneOf(f, values, t)'
BY ProvedSound, RefinesProved, Proved!ReadAtStep DEF CacheInv, ReadOneOf

LEMMA ProgressKept ==
    ASSUME CacheInv, [Next]_vars, NEW at \in Steps, NEW t \in Int, t <= now,
           Progress(at, t)
    PROVE  Progress(at, t)'
<1>1. /\ ReadOneOf("key", Values \ {Missing}, t)
            => ReadOneOf("key", Values \ {Missing}, t)'
      /\ ReadOneOf("key", Values \ {Missing, {}}, t)
            => ReadOneOf("key", Values \ {Missing, {}}, t)'
  BY ReadKept DEF Facts
<1>2. QED
  BY <1>1 DEF Progress

LEMMA PathKept ==
    ASSUME CacheInv, [Next]_vars, NEW r \in Requests, PathInv(r),
           request'[r].at = request[r].at, request'[r].kind = request[r].kind,
           request'[r].started = request[r].started, now' \in Nat, now <= now'
    PROVE  PathInv(r)'
<1> SUFFICES ASSUME request[r].at \in Steps PROVE PathInv(r)'
  BY DEF PathInv
<1>1. /\ request[r].started <= now
      /\ Progress(request[r].at, request[r].started - Window)
  BY DEF PathInv
<1>2. request[r].started \in Nat /\ now \in Nat /\ Window \in Nat
  BY NumberFacts
<1>3. \A at \in Steps, t \in Int : t <= now /\ Progress(at, t) => Progress(at, t)'
  BY ProgressKept
<1>4. request[r].started - Window \in Int /\ request[r].started - Window <= now
  BY <1>1, <1>2
<1>5. \A at \in Steps, t \in Int :
        /\ at = request[r].at
        /\ t = request[r].started - Window
        => PathInv(r)'
  BY <1>1, <1>2, <1>3, <1>4 DEF PathInv, Window, Progress, ReadOneOf
<1>6. QED
  BY <1>4, <1>5

\* Which steps follow which, and what was read there.
LEMMA NextStep ==
    ASSUME NEW kind \in Kinds, NEW step \in Steps, NEW v \in Values,
           NEW next, next = Then(kind, step, v),
           step \in {"lastFlag", "lastScope"} => kind # "map"
    PROVE  /\ next \in Steps =>
                /\ next # "key"
                /\ step = "key" => v # Missing
                /\ next \in {"lastFlag", "lastScope"} => kind # "map"
                /\ next \in {"scope", "lastScope"} =>
                        step \in {"flag", "lastFlag"} /\ v \notin {Missing, {}}
           /\ next = "allowed" =>
                /\ step # "key"
                /\ \/ step \in {"flag", "lastFlag"} /\ v = {}
                   \/ step \in {"scope", "lastScope"} /\ v \in Admitting(kind)
           /\ next = "denied" =>
                step \in {"scope", "lastScope"} /\ v \notin Admitting(kind)
<1> USE DEF Steps, Then, Onwards, Free, Kinds
<1>1. CASE step = "key"
  BY <1>1
<1>2. CASE step = "flag"
  BY <1>2
<1>3. CASE step = "scope"
  <2>1. InScope(v) <=> v \in Scopes \ {{}}
    BY DEF InScope, Values, Keys, Scopes, Missing
  <2>2. next = "allowed" => InScope(v) /\ kind \notin Versions
    BY <1>3, VersionsAssumption
  <2>3. next = "denied" => ~InScope(v)
    BY <1>3
  <2>4. next \in Steps => next = "lastFlag" /\ kind # "map"
    BY <1>3
  <2>5. {"map"} # {} /\ \A x \in Admitting(kind) : x \in Scopes \ {{}}
    BY DEF Admitting
  <2>6. QED
    BY <1>3, <2>1, <2>2, <2>3, <2>4, <2>5 DEF Admitting
<1>4. CASE step = "lastFlag"
  BY <1>4
<1>5. CASE step = "lastScope"
  <2>1. InScope(v) <=> v \in Scopes \ {{}}
    BY DEF InScope, Values, Keys, Scopes, Missing
  <2>2. kind \in Versions => (Whitelists(v, kind) <=> v \in Admitting(kind))
    BY <2>1, VersionsAssumption DEF Whitelists, Admitting, Scopes, InScope
  <2>3. next \in {"allowed", "denied"} => kind \in Versions
    BY <1>5 DEF Last
  <2>4. kind \in Versions =>
            next = IF Whitelists(v, kind) THEN "allowed" ELSE "denied"
    BY <1>5, VersionsAssumption DEF Last
  <2>5. next \notin Steps
    BY <1>5 DEF Last
  <2>6. QED
    BY <1>5, <2>2, <2>3, <2>4, <2>5
<1>6. QED
  BY <1>1, <1>2, <1>3, <1>4, <1>5

\* A step that r takes having read v.
LEMMA PathLearned ==
    ASSUME CacheInv, [Next]_vars, NEW r \in Requests, PathInv(r), NEW v \in Values,
           Learns(r, v), UNCHANGED <<now, db, was>>
    PROVE  PathInv(r)'
<1> DEFINE at == request[r].at
           kind == request[r].kind
           t == request[r].started - Window
           next == Then(kind, at, v)
<1>1. /\ at \in Steps /\ kind \in Kinds
      /\ request[r].started <= now /\ Progress(at, t)
      /\ at \in {"lastFlag", "lastScope"} => kind # "map"
  BY NumberFacts DEF Learns, PathInv
<1>2. /\ request'[r].at = next
      /\ next \in Steps => /\ request'[r].kind = kind
                          /\ request'[r].started = request[r].started
  BY AfterLearning
<1>3. Proved!ReadAt(FactOf(at), v, t)
  <2>1. Proved!ReadAt(FactOf(at), v, now - Window)
    BY DEF Learns
  <2>2. t <= now - Window
    BY <1>1, NumberFacts
  <2> HIDE DEF t, at
  <2>3. t \in Int
    BY NumberFacts DEF t
  <2>4. QED
    BY <2>1, <2>2, <2>3, NumberFacts DEF Proved!ReadAt
<1>4. next \in Steps =>
        Progress(next, t) /\ (next \in {"lastFlag", "lastScope"} => kind # "map")
  <2> HIDE DEF at, kind, t, next
  <2>1. next \in Steps =>
            /\ next # "key"
            /\ at = "key" => v # Missing
            /\ next \in {"lastFlag", "lastScope"} => kind # "map"
            /\ next \in {"scope", "lastScope"} =>
                    at \in {"flag", "lastFlag"} /\ v \notin {Missing, {}}
    BY <1>1, NextStep DEF next
  <2>2. at \in {"key", "flag", "lastFlag"} => FactOf(at) = "key"
    BY DEF FactOf
  <2>3. QED
    BY <1>1, <1>3, <2>1, <2>2 DEF Progress, ReadOneOf
<1>5. \A a \in Steps, u \in Int : Progress(a, u) => Progress(a, u)'
  BY DEF Progress, ReadOneOf, Proved!ReadAt
<1>6. t \in Int /\ now' = now
  BY NumberFacts
<1>7. ASSUME next \in Steps PROVE PathInv(r)'
  <2> HIDE DEF at, kind, next
  <2>1. \A a \in Steps, u \in Int : a = next /\ u = t => PathInv(r)'
    BY <1>1, <1>2, <1>4, <1>5, <1>6, <1>7 DEF PathInv, Window, Progress, ReadOneOf
  <2>2. QED
    BY <1>6, <1>7, <2>1
<1>8. QED
  BY <1>2, <1>7 DEF PathInv

LEMMA PathInit == Init => \A r \in Requests : PathInv(r)
BY DEF Init, Cache!InitCaches, Cache!Settled, PathInv, Steps

LEMMA WriterKeepsRequests ==
    ASSUME NEW w \in Writers, WriterStep(w)
    PROVE  UNCHANGED <<request, now>>
<1>1. (\E announced, silent : Cache!Wrote(w, announced, silent)) \/ Cache!Invalidate(w)
  BY Zenon
     DEF WriterStep, Change, SetAPIKeyScope, ScopeToOtherMap, DeleteAPIKeyScope,
         ClearAPIKeyScope, RevokeAPIKey, DeleteUser, DeleteMap,
         UpsertSyncedMap, Invalidate
<1>2. QED
  BY <1>1 DEF Cache!Wrote, Cache!Invalidate

LEMMA PathStep ==
    ASSUME CacheInv, [Next]_vars, \A r \in Requests : PathInv(r)
    PROVE  \A r \in Requests : PathInv(r)'
<1>1. ASSUME UNCHANGED request, now' \in Nat, now <= now'
      PROVE  \A r \in Requests : PathInv(r)'
  BY <1>1, PathKept
<1>2. ASSUME NEW r \in Requests, Check(r)
      PROVE  \A q \in Requests : PathInv(q)'
  <2>1. UNCHANGED <<now, db, was>>
    BY <1>2 DEF Check, Cache!RequestStep, Cache!Ask, Cache!Get, Cache!Query,
                Cache!Load, Cache!Set, Cache!Fail
  <2>2. ASSUME NEW q \in Requests, request'[q] = request[q] PROVE PathInv(q)'
    BY <2>1, <2>2, PathKept, NumberFacts
  <2>3. \A q \in Requests \ {r} : request'[q] = request[q]
    <3>1. CASE Cache!Get(r) \/ Cache!Query(r) \/ Cache!Set(r)
      BY <3>1, ReadIsFresh, AfterLearning
    <3>2. CASE \/ \E k \in Kinds : Cache!Ask(r, k)
               \/ Cache!Load(r) \/ Cache!Fail(r)
      BY <3>2 DEF Cache!Ask, Cache!Load, Cache!Fail, CacheInv, Proved!TypeOK
    <3>3. QED
      BY <1>2, <3>1, <3>2 DEF Check, Cache!RequestStep
  <2>4. PathInv(r)'
    <3>1. CASE Cache!Get(r) \/ Cache!Query(r) \/ Cache!Set(r)
      BY <2>1, <3>1, ReadIsFresh, PathLearned
    <3>2. ASSUME NEW k \in Kinds, Cache!Ask(r, k) PROVE PathInv(r)'
      <4>1. /\ request'[r].at = First(k) /\ request'[r].kind = k
            /\ request'[r].started = now
        BY <3>2 DEF Cache!Ask, Cache!Settled, CacheInv, Proved!TypeOK
      <4>2. QED
        BY <2>1, <4>1, NumberFacts DEF First, PathInv, Progress
    <3>3. CASE Cache!Load(r)
      <4>1. /\ request'[r].at = request[r].at /\ request'[r].kind = request[r].kind
            /\ request'[r].started = request[r].started
        BY <3>3 DEF Cache!Load, CacheInv, Proved!TypeOK
      <4>2. QED
        BY <2>1, <4>1, PathKept, NumberFacts
    <3>4. CASE Cache!Fail(r)
      <4>1. request'[r].at = "failed"
        BY <3>4 DEF Cache!Fail, Cache!Settled, CacheInv, Proved!TypeOK
      <4>2. QED
        BY <4>1 DEF PathInv, Steps
    <3>5. QED
      BY <1>2, <3>1, <3>2, <3>3, <3>4 DEF Check, Cache!RequestStep
  <2>5. QED
    BY <2>2, <2>3, <2>4
<1>3. ASSUME NEW w \in Writers, WriterStep(w)
      PROVE  \A q \in Requests : PathInv(q)'
  <2>1. UNCHANGED <<request, now>>
    BY <1>3, WriterKeepsRequests
  <2>2. QED
    BY <1>1, <2>1, NumberFacts
<1>4. CASE Tick
  BY <1>1, <1>4, NumberFacts DEF Tick, Cache!Tick
<1>5. CASE Restart
  BY <1>5 DEF Restart, Cache!Restart, Cache!Settled, PathInv, Steps
<1>6. CASE UNCHANGED vars
  BY <1>1, <1>6, NumberFacts DEF vars, caches
<1>7. QED
  BY <1>2, <1>3, <1>4, <1>5, <1>6 DEF Next

\* A check comes to a verdict only by what it reads.
LEMMA VerdictLearned ==
    ASSUME CacheInv, [Next]_vars, NEW r \in Requests, request[r].at \in Steps,
           request'[r].at \in {"allowed", "denied"}
    PROVE  \E v \in Values : Learns(r, v)
<1>1. request'[r].at \notin Steps \cup {"failed"}
  BY DEF Steps
<1>2. ASSUME NEW q \in Requests, Check(q)
      PROVE  \E v \in Values : Learns(r, v)
  <2>1. CASE Cache!Get(q) \/ Cache!Query(q) \/ Cache!Set(q)
    <3>1. CASE q = r
      BY <2>1, <3>1, ReadIsFresh
    <3>2. CASE q # r
      BY <1>1, <2>1, <3>2, ReadIsFresh, AfterLearning
    <3>3. QED
      BY <3>1, <3>2
  <2>2. CASE \E k \in Kinds : Cache!Ask(q, k)
    BY <1>1, <2>2 DEF Cache!Ask, Cache!Running, CacheInv, Proved!TypeOK
  <2>3. CASE Cache!Load(q)
    BY <1>1, <2>3 DEF Cache!Load, CacheInv, Proved!TypeOK
  <2>4. CASE Cache!Fail(q)
    BY <1>1, <2>4 DEF Cache!Fail, Cache!Settled, CacheInv, Proved!TypeOK
  <2>5. QED
    BY <1>2, <2>1, <2>2, <2>3, <2>4 DEF Check, Cache!RequestStep
<1>3. CASE \E w \in Writers : WriterStep(w)
  BY <1>1, <1>3, WriterKeepsRequests
<1>4. CASE Tick
  BY <1>1, <1>4 DEF Tick, Cache!Tick
<1>5. CASE Restart
  BY <1>1, <1>5 DEF Restart, Cache!Restart, Cache!Settled
<1>6. CASE UNCHANGED vars
  BY <1>1, <1>6 DEF vars, caches
<1>7. QED
  BY <1>2, <1>3, <1>4, <1>5, <1>6 DEF Next

\* What was read in the window, and what since the request started, in the
\* words of the properties.
LEMMA ReadIsWithin ==
    ASSUME CacheInv, NEW r \in Requests, NEW f \in Facts, NEW v \in Values
    PROVE  /\ Proved!ReadAt(f, v, now - Window)
                => Cache!WasWithin(f, v, Cache!Window)
           /\ Proved!ReadAt(f, v, request[r].started - Window)
                => Cache!WasWithin(f, v, Span(r))
           /\ request[r].started <= now /\ Proved!ReadAt(f, v, now - Window)
                => Cache!WasWithin(f, v, Span(r))
BY NumberFacts DEF Proved!ReadAt, Cache!WasWithin, Cache!Window, Window, Span

\* A key lets a request do what its rows let it do: revoking it or narrowing
\* its scope takes no longer than a cacheTTL and a load to have effect.
THEOREM AllowJustifiedCorrect == Spec => AllowJustified
<1>1. ASSUME CacheInv, \A r \in Requests : PathInv(r), [Next]_vars,
             NEW r \in Requests, Becomes(r, "allowed")
      PROVE  /\ Was("key", Values \ {Missing}, Span(r))
             /\ \/ Was("key", {{}}, Cache!Window)
                \/ Was("scope", Admitting(request[r].kind), Cache!Window)
  <2> DEFINE at == request[r].at
             kind == request[r].kind
  <2>1. /\ at \in Steps /\ kind \in Kinds /\ request'[r].at = "allowed"
        /\ request[r].started <= now
        /\ Progress(at, request[r].started - Window)
        /\ at \in {"lastFlag", "lastScope"} => kind # "map"
    BY <1>1, NumberFacts DEF Becomes, Cache!Running, PathInv
  <2>2. PICK v \in Values : Learns(r, v)
    BY <1>1, <2>1, VerdictLearned
  <2>3. Then(kind, at, v) = "allowed"
    BY <1>1, <2>1, <2>2, AfterLearning
  <2>4. Cache!WasWithin(FactOf(at), v, Cache!Window)
    <3>1. Proved!ReadAt(FactOf(at), v, now - Window) /\ FactOf(at) \in Facts
      BY <2>2 DEF Learns, FactOf, Facts
    <3>2. QED
      BY <1>1, <3>1, ReadIsWithin
  <2>5. /\ at # "key"
        /\ \/ at \in {"flag", "lastFlag"} /\ v = {}
           \/ at \in {"scope", "lastScope"} /\ v \in Admitting(kind)
    BY <2>1, <2>3, NextStep
  <2>6. Was("key", Values \ {Missing}, Span(r))
    BY <1>1, <2>1, <2>5, ReadIsWithin DEF Progress, ReadOneOf, Was, Facts
  <2>7. CASE at \in {"flag", "lastFlag"} /\ v = {}
    <3>1. FactOf(at) = "key"
      BY <2>7 DEF FactOf
    <3>2. Was("key", {{}}, Cache!Window)
      BY <2>4, <2>7, <3>1 DEF Was
    <3>3. QED
      BY <2>6, <3>2
  <2>8. CASE at \in {"scope", "lastScope"} /\ v \in Admitting(kind)
    <3>1. FactOf(at) = "scope"
      BY <2>8 DEF FactOf
    <3>2. Was("scope", Admitting(kind), Cache!Window)
      BY <2>4, <2>8, <3>1 DEF Was
    <3>3. QED
      BY <2>6, <3>2
  <2>9. QED
    BY <2>5, <2>7, <2>8
<1>2. Init => CacheInv /\ \A r \in Requests : PathInv(r)
  BY CacheInvCorrect, PathInit
<1>3. CacheInv /\ (\A r \in Requests : PathInv(r)) /\ [Next]_vars
        => (CacheInv /\ \A r \in Requests : PathInv(r))'
  BY CacheInvCorrect, PathStep
<1>4. CacheInv /\ (\A r \in Requests : PathInv(r)) /\ [Next]_vars
        => [\A r \in Requests : Becomes(r, "allowed") =>
                /\ Was("key", Values \ {Missing}, Span(r))
                /\ \/ Was("key", {{}}, Cache!Window)
                   \/ Was("scope", Admitting(request[r].kind), Cache!Window)]_vars
  BY <1>1
<1>5. QED
  BY <1>2, <1>3, <1>4, PTL DEF Spec, AllowJustified

\* A key is refused only where it was scoped, and had no entry for what is
\* asked for.
THEOREM DenyJustifiedCorrect == Spec => DenyJustified
<1>1. ASSUME CacheInv, \A r \in Requests : PathInv(r), [Next]_vars,
             NEW r \in Requests, Becomes(r, "denied")
      PROVE  /\ Was("key", Values \ {Missing, {}}, Span(r))
             /\ Was("scope", Values \ Admitting(request[r].kind), Cache!Window)
  <2> DEFINE at == request[r].at
             kind == request[r].kind
  <2>1. /\ at \in Steps /\ kind \in Kinds /\ request'[r].at = "denied"
        /\ request[r].started <= now
        /\ Progress(at, request[r].started - Window)
        /\ at \in {"lastFlag", "lastScope"} => kind # "map"
    BY <1>1, NumberFacts DEF Becomes, Cache!Running, PathInv
  <2>2. PICK v \in Values : Learns(r, v)
    BY <1>1, <2>1, VerdictLearned
  <2>3. Then(kind, at, v) = "denied"
    BY <1>1, <2>1, <2>2, AfterLearning
  <2>4. Cache!WasWithin(FactOf(at), v, Cache!Window)
    <3>1. Proved!ReadAt(FactOf(at), v, now - Window) /\ FactOf(at) \in Facts
      BY <2>2 DEF Learns, FactOf, Facts
    <3>2. QED
      BY <1>1, <3>1, ReadIsWithin
  <2>5. at \in {"scope", "lastScope"} /\ v \notin Admitting(kind)
    BY <2>1, <2>3, NextStep
  <2>6. Was("key", Values \ {Missing, {}}, Span(r))
    BY <1>1, <2>1, <2>5, ReadIsWithin DEF Progress, ReadOneOf, Was, Facts
  <2>7. FactOf(at) = "scope"
    BY <2>5 DEF FactOf
  <2>8. Was("scope", Values \ Admitting(kind), Cache!Window)
    BY <2>4, <2>5, <2>7 DEF Was
  <2>9. QED
    BY <2>6, <2>8
<1>2. Init => CacheInv /\ \A r \in Requests : PathInv(r)
  BY CacheInvCorrect, PathInit
<1>3. CacheInv /\ (\A r \in Requests : PathInv(r)) /\ [Next]_vars
        => (CacheInv /\ \A r \in Requests : PathInv(r))'
  BY CacheInvCorrect, PathStep
<1>4. CacheInv /\ (\A r \in Requests : PathInv(r)) /\ [Next]_vars
        => [\A r \in Requests : Becomes(r, "denied") =>
                /\ Was("key", Values \ {Missing, {}}, Span(r))
                /\ Was("scope", Values \ Admitting(request[r].kind), Cache!Window)]_vars
  BY <1>1
<1>5. QED
  BY <1>2, <1>3, <1>4, PTL DEF Spec, DenyJustified
=============================================================================
