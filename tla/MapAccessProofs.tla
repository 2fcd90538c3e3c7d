-------------------------- MODULE MapAccessProofs --------------------------
(***************************************************************************)
(* MapAccess implements CachedFacts, and so its caches are as fresh as     *)
(* those of CachedFacts, for any flags, any number of requests and writers *)
(* and any ttl.                                                            *)
(***************************************************************************)
EXTENDS MapAccess, TLAPS

Proved == INSTANCE CachedFactsProofs WITH db <- db

LEMMA ConstantsSound == Cache!Sound
<1>1. \A k \in Kinds : First(k) \in Steps
  BY DEF Kinds, First, Steps
<1>2. \A s \in Steps : FactOf(s) \in Facts
  BY DEF Steps, FactOf, Facts
<1>3. \A k \in Kinds, s \in Steps, v \in Values :
        Then(k, s, v) \in Steps \cup Verdicts
  BY DEF Kinds, Steps, Verdicts, Then, Edit, Manage, View, Tile, Anonymous, List,
         Decide, NeedsRow
<1>4. Missing \in Values /\ Kinds # {} /\ "failed" \in Verdicts
  BY DEF Values, Kinds, Verdicts
<1>5. QED
  BY <1>1, <1>2, <1>3, <1>4, TimesAssumption DEF Cache!Sound

LEMMA DbType == rows \in Rows => db \in [Facts -> Values]
BY DEF Rows, db, Facts, Values, Permissions, MapPermission, Listed, Flags,
       MapFlags, GrantFlags, Missing

\* What a fact's query looks at, before a step and after it.
LEMMA DbParts ==
    /\ db["perms"] = Permissions(rows) /\ db["map"] = rows.map
    /\ db["grant"] = MapPermission(rows) /\ db["listed"] = Listed(rows)
BY DEF db, Facts

LEMMA DbPartsNext ==
    /\ db'["perms"] = Permissions(rows') /\ db'["map"] = rows'.map
    /\ db'["grant"] = MapPermission(rows') /\ db'["listed"] = Listed(rows')
BY DEF db, Facts, Permissions, MapPermission, Listed

\* A write as CachedFacts sees it: what changes is announced or silent.
LEMMA WroteIsWrite ==
    ASSUME rows' \in Rows, NEW w \in Writers,
           NEW announced \in SUBSET Facts, NEW silent \in SUBSET Facts,
           Cache!Wrote(w, announced, silent),
           "perms" \in announced \cup silent \/ Permissions(rows') = Permissions(rows),
           "map" \in announced \cup silent \/ rows'.map = rows.map,
           "grant" \in announced \cup silent
               \/ MapPermission(rows') = MapPermission(rows),
           "listed" \in announced \cup silent \/ Listed(rows') = Listed(rows)
    PROVE  Cache!Write(w)
<1>1. db' \in [Facts -> Values]
  BY DbType, DbPartsNext DEF Rows, db, Facts, Values, Permissions, MapPermission, Listed,
       Flags, MapFlags, GrantFlags, Missing
<1>2. \A f \in Facts : f \in announced \cup silent \/ db'[f] = db[f]
  BY DbParts, DbPartsNext DEF Facts
<1>3. {f \in silent \ announced : db'[f] # db[f]}
            = {f \in Facts \ announced : db'[f] # db[f]}
  BY <1>2
<1>4. Cache!Wrote(w, announced, Facts)
  BY <1>3 DEF Cache!Wrote
<1>5. QED
  BY <1>1, <1>4 DEF Cache!Write

LEMMA WriterStepImplements ==
    ASSUME rows \in Rows, NEW w \in Writers, WriterStep(w)
    PROVE  /\ rows' \in Rows
           /\ Cache!Write(w) \/ Cache!Invalidate(w) \/ Cache!GiveUp(w)
<1>1. CASE CreateUser(w)
  <2>1. PICK flags \in Bundles :
          /\ rows' = [rows EXCEPT !.user = flags]
          /\ Cache!Wrote(w, {}, {"perms"})
    BY <1>1 DEF CreateUser, Change
  <2>2. rows' \in Rows
    BY <2>1, FlagsAssumption DEF Rows, Flags, GrantFlags, MapFlags
  <2>3. /\ rows'.map = rows.map
        /\ MapPermission(rows') = MapPermission(rows)
        /\ Listed(rows') = Listed(rows)
    BY <2>1 DEF Rows, Permissions, MapPermission, Listed
  <2>4. QED
    BY <2>1, <2>2, <2>3, WroteIsWrite DEF Facts
<1>2. CASE UpdateUser(w)
  <2>1. PICK flags \in Bundles :
          /\ rows' = [rows EXCEPT !.user = flags]
          /\ Cache!Wrote(w, {"perms"}, {})
    BY <1>2 DEF UpdateUser, ChangeAndReread
  <2>2. rows' \in Rows
    BY <2>1, FlagsAssumption DEF Rows, Flags, GrantFlags, MapFlags
  <2>3. /\ rows'.map = rows.map
        /\ MapPermission(rows') = MapPermission(rows)
        /\ Listed(rows') = Listed(rows)
    BY <2>1 DEF Rows, Permissions, MapPermission, Listed
  <2>4. QED
    BY <2>1, <2>2, <2>3, WroteIsWrite DEF Facts
<1>3. CASE DeleteUser(w)
  <2>1. /\ rows' = [rows EXCEPT !.user = Missing, !.member = FALSE, !.grant = {}]
        /\ Cache!Wrote(w, {"perms"}, {"grant", "listed"})
    BY <1>3 DEF DeleteUser, Change
  <2>2. rows' \in Rows
    BY <2>1, FlagsAssumption DEF Rows, Flags, GrantFlags, MapFlags
  <2>3. /\ rows'.map = rows.map
    BY <2>1 DEF Rows, Permissions, MapPermission, Listed
  <2>4. QED
    BY <2>1, <2>2, <2>3, WroteIsWrite DEF Facts
<1>4. CASE UpdateGroup(w)
  <2>1. PICK flags \in Bundles :
          /\ rows' = [rows EXCEPT !.group = flags]
          /\ Cache!Wrote(w, {"perms", "grant"}, {})
    BY <1>4 DEF UpdateGroup, ChangeAndReread
  <2>2. rows' \in Rows
    BY <2>1, FlagsAssumption DEF Rows, Flags, GrantFlags, MapFlags
  <2>3. /\ rows'.map = rows.map
        /\ Listed(rows') = Listed(rows)
    BY <2>1 DEF Rows, Permissions, MapPermission, Listed
  <2>4. QED
    BY <2>1, <2>2, <2>3, WroteIsWrite DEF Facts
<1>5. CASE DeleteGroup(w)
  <2>1. /\ rows' = [rows EXCEPT !.group = {}, !.member = FALSE, !.groupGrant = {}]
        /\ Cache!Wrote(w, {"perms", "grant"}, {"listed"})
    BY <1>5 DEF DeleteGroup, Change
  <2>2. rows' \in Rows
    BY <2>1, FlagsAssumption DEF Rows, Flags, GrantFlags, MapFlags
  <2>3. /\ rows'.map = rows.map
    BY <2>1 DEF Rows, Permissions, MapPermission, Listed
  <2>4. QED
    BY <2>1, <2>2, <2>3, WroteIsWrite DEF Facts
<1>6. CASE ReplaceGroupMembership(w)
  <2>1. PICK member \in BOOLEAN :
          /\ rows' = [rows EXCEPT !.member = member]
          /\ Cache!Wrote(w, {"perms"}, {"grant", "listed"})
    BY <1>6 DEF ReplaceGroupMembership, Change
  <2>2. rows' \in Rows
    BY <2>1, FlagsAssumption DEF Rows, Flags, GrantFlags, MapFlags
  <2>3. /\ rows'.map = rows.map
    BY <2>1 DEF Rows, Permissions, MapPermission, Listed
  <2>4. QED
    BY <2>1, <2>2, <2>3, WroteIsWrite DEF Facts
<1>7. CASE SetMapPermission(w)
  <2>1. PICK grant \in Grants :
          /\ rows' = [rows EXCEPT !.grant = grant]
          /\ Cache!Wrote(w, {"grant"}, {"listed"})
    BY <1>7 DEF SetMapPermission, Change
  <2>2. rows' \in Rows
    BY <2>1, FlagsAssumption DEF Rows, Flags, GrantFlags, MapFlags
  <2>3. /\ Permissions(rows') = Permissions(rows)
        /\ rows'.map = rows.map
    BY <2>1 DEF Rows, Permissions, MapPermission, Listed
  <2>4. QED
    BY <2>1, <2>2, <2>3, WroteIsWrite DEF Facts
<1>8. CASE SetGroupMapPermission(w)
  <2>1. PICK grant \in Grants :
          /\ rows' = [rows EXCEPT !.groupGrant = grant]
          /\ Cache!Wrote(w, {"grant"}, {"listed"})
    BY <1>8 DEF SetGroupMapPermission, Change
  <2>2. rows' \in Rows
    BY <2>1, FlagsAssumption DEF Rows, Flags, GrantFlags, MapFlags
  <2>3. /\ Permissions(rows') = Permissions(rows)
        /\ rows'.map = rows.map
    BY <2>1 DEF Rows, Permissions, MapPermission, Listed
  <2>4. QED
    BY <2>1, <2>2, <2>3, WroteIsWrite DEF Facts
<1>9. CASE UpdateMap(w)
  <2>1. PICK flags \in Visibilities :
          /\ rows.map # Missing /\ rows' = [rows EXCEPT !.map = flags \cup Owned(rows)]
          /\ Cache!Wrote(w, {"map"}, {"listed"})
    BY <1>9 DEF UpdateMap, Change
  <2>2. rows' \in Rows
    BY <2>1, FlagsAssumption DEF Rows, Flags, GrantFlags, MapFlags, Owned
  <2>3. /\ Permissions(rows') = Permissions(rows)
        /\ MapPermission(rows') = MapPermission(rows)
    BY <2>1 DEF Rows, Permissions, MapPermission, Listed
  <2>4. QED
    BY <2>1, <2>2, <2>3, WroteIsWrite DEF Facts
<1>10. CASE UpdateMapOwner(w)
  <2>1. PICK owned \in SUBSET {"owner"} :
          /\ rows.map # Missing /\ rows' = [rows EXCEPT !.map = (@ \ {"owner"}) \cup owned]
          /\ Cache!Wrote(w, {"map"}, {"listed"})
    BY <1>10 DEF UpdateMapOwner, Change
  <2>2. rows' \in Rows
    BY <2>1, FlagsAssumption DEF Rows, Flags, GrantFlags, MapFlags
  <2>3. /\ Permissions(rows') = Permissions(rows)
        /\ MapPermission(rows') = MapPermission(rows)
    BY <2>1 DEF Rows, Permissions, MapPermission, Listed
  <2>4. QED
    BY <2>1, <2>2, <2>3, WroteIsWrite DEF Facts
<1>11. CASE DeleteMap(w)
  <2>1. /\ rows' = [rows EXCEPT !.map = Missing, !.grant = {}, !.groupGrant = {}]
        /\ Cache!Wrote(w, {"map"}, {"grant", "listed"})
    BY <1>11 DEF DeleteMap, Change
  <2>2. rows' \in Rows
    BY <2>1, FlagsAssumption DEF Rows, Flags, GrantFlags, MapFlags
  <2>3. /\ Permissions(rows') = Permissions(rows)
    BY <2>1 DEF Rows, Permissions, MapPermission, Listed
  <2>4. QED
    BY <2>1, <2>2, <2>3, WroteIsWrite DEF Facts
<1>12. CASE UpsertSyncedMap(w)
  <2>1. PICK flags \in Visibilities :
          /\ rows' = [rows EXCEPT !.map = flags]
          /\ Cache!Wrote(w, {"map"}, {"listed"})
    BY <1>12 DEF UpsertSyncedMap, Change
  <2>2. rows' \in Rows
    BY <2>1, FlagsAssumption DEF Rows, Flags, GrantFlags, MapFlags
  <2>3. /\ Permissions(rows') = Permissions(rows)
        /\ MapPermission(rows') = MapPermission(rows)
    BY <2>1 DEF Rows, Permissions, MapPermission, Listed
  <2>4. QED
    BY <2>1, <2>2, <2>3, WroteIsWrite DEF Facts
<1>13. CASE Invalidate(w)
  BY <1>13 DEF Invalidate
<1>14. CASE RereadFails(w)
  BY <1>14 DEF RereadFails
<1>15. QED
  BY <1>1, <1>2, <1>3, <1>4, <1>5, <1>6, <1>7, <1>8, <1>9, <1>10, <1>11, <1>12, <1>13, <1>14
     DEF WriterStep

LEMMA Refines ==
    /\ Init => rows \in Rows /\ Cache!Init
    /\ rows \in Rows /\ [Next]_vars => (rows \in Rows)' /\ [Cache!Next]_Cache!vars
<1>1. ASSUME Init PROVE rows \in Rows /\ Cache!Init
  <2>1. rows \in Rows
    BY <1>1, InitialAssumption DEF Init
  <2>2. QED
    BY <1>1, <2>1, DbType DEF Init, Cache!Init
<1>2. ASSUME rows \in Rows, [Next]_vars
      PROVE  (rows \in Rows)' /\ [Cache!Next]_Cache!vars
  <2>1. ASSUME NEW r \in Requests, Check(r)
        PROVE  (rows \in Rows)' /\ Cache!Next
    BY <1>2, <2>1 DEF Check, Cache!Next
  <2>2. ASSUME NEW w \in Writers, WriterStep(w)
        PROVE  (rows \in Rows)' /\ Cache!Next
    BY <1>2, <2>2, WriterStepImplements DEF Cache!Next
  <2>3. ASSUME Tick PROVE (rows \in Rows)' /\ Cache!Next
    BY <1>2, <2>3 DEF Tick, Cache!Next
  <2>4. ASSUME Restart PROVE (rows \in Rows)' /\ Cache!Next
    BY <1>2, <2>4 DEF Restart, Cache!Next
  <2>5. CASE UNCHANGED vars
    BY <1>2, <2>5 DEF vars, caches, Cache!vars, db, Permissions, MapPermission, Listed
  <2>6. QED
    BY <1>2, <2>1, <2>2, <2>3, <2>4, <2>5 DEF Next
<1>3. QED
  BY <1>1, <1>2

\* Every behaviour of the checks, the administrative requests and the caches
\* is one of CachedFacts: no store function changes a fact that it neither
\* invalidates nor is known to leave to expire.
THEOREM ImplementsCachedFacts == Spec => IsCachedFacts
BY Refines, PTL DEF Spec, IsCachedFacts, Cache!Spec

\* CachedFacts is the same module under both names.
LEMMA SameModule ==
    /\ Cache!Init <=> Proved!Init
    /\ Cache!Next <=> Proved!Next
    /\ Cache!vars = Proved!vars
<1>1. Cache!Init <=> Proved!Init
  BY DEF Cache!Init, Proved!Init, Cache!InitCaches, Proved!InitCaches, Cache!NoEntry,
         Proved!NoEntry, Cache!Settled, Proved!Settled
<1>2. Cache!Next <=> Proved!Next
  BY
     DEF Cache!Init, Proved!Init, Cache!InitCaches, Proved!InitCaches,
         Cache!Settled, Proved!Settled, Cache!NoEntry, Proved!NoEntry,
         Cache!Next, Proved!Next, Cache!RequestStep,
         Proved!RequestStep, Cache!Ask, Proved!Ask, Cache!Get,
         Proved!Get, Cache!Query, Proved!Query, Cache!Load,
         Proved!Load, Cache!Set, Proved!Set, Cache!Fail, Proved!Fail,
         Cache!Running, Proved!Running, Cache!Reads, Proved!Reads,
         Cache!Hit, Proved!Hit, Cache!Goes, Proved!Goes, Cache!Write,
         Proved!Write, Cache!Wrote, Proved!Wrote, Cache!Invalidate,
         Proved!Invalidate, Cache!GiveUp, Proved!GiveUp,
         Cache!Restart, Proved!Restart, Cache!Tick, Proved!Tick,
         Cache!vars, Proved!vars
<1>3. Cache!vars = Proved!vars
  BY DEF Cache!vars, Proved!vars
<1>4. QED
  BY <1>1, <1>2, <1>3

LEMMA RefinesProved ==
    /\ Init => rows \in Rows /\ Proved!Init
    /\ rows \in Rows /\ [Next]_vars => (rows \in Rows)' /\ [Proved!Next]_Proved!vars
BY Refines, SameModule DEF Cache!vars, Proved!vars

LEMMA ProvedSound == Proved!Sound
BY ConstantsSound DEF Cache!Sound, Proved!Sound

LEMMA SpecProved == Spec => Proved!Spec
BY RefinesProved, PTL DEF Spec, Proved!Spec

\* The rows, the caches, the requests and the history keep their types.
THEOREM TypeCorrect == Spec => []TypeOK
<1>1. Init => writes \in 0..MaxWrites /\ rereading \in SUBSET Writers
  BY MaxWritesAssumption DEF Init
<1>2. writes \in 0..MaxWrites /\ rereading \in SUBSET Writers /\ [Next]_vars
        => (writes \in 0..MaxWrites /\ rereading \in SUBSET Writers)'
  BY MaxWritesAssumption
     DEF Next, vars, Check, WriterStep, Change, ChangeAndReread, Tick, Restart,
         CreateUser, UpdateUser, DeleteUser, UpdateGroup, DeleteGroup,
         ReplaceGroupMembership, SetMapPermission, SetGroupMapPermission,
         UpdateMap, UpdateMapOwner, DeleteMap, UpsertSyncedMap, Invalidate,
         RereadFails
<1>3. Proved!Spec => []Proved!TypeOK
  BY ProvedSound, Proved!TypeCorrect
<1>4. Proved!TypeOK => Cache!TypeOK
  BY DEF Proved!TypeOK, Cache!TypeOK
<1>5. QED
  BY <1>1, <1>2, <1>3, <1>4, SpecProved, RefinesProved, PTL DEF Spec, TypeOK

\* What get returns on any path of a check was so within the last cacheTTL
\* and one load.
THEOREM HitsFreshCorrect == Spec => []HitsFresh
<1>1. Proved!Spec => []Proved!HitsFresh
  BY ProvedSound, Proved!HitsFreshCorrect
<1>2. Proved!HitsFresh => HitsFresh
  BY DEF HitsFresh, Cache!HitsFresh, Proved!HitsFresh, Cache!Hit, Proved!Hit,
         Cache!WasWithin, Proved!WasWithin, Cache!Window, Proved!Window
<1>3. QED
  BY <1>1, <1>2, SpecProved, PTL

\* An entry is out of date only by an overlapping load, by a write that does
\* not invalidate, or until a writer gets to its invalidate.
THEOREM StaleExplainedCorrect == Spec => []StaleExplained
<1>1. Proved!Spec => []Proved!StaleExplained
  BY ProvedSound, Proved!StaleExplainedCorrect
<1>2. Proved!StaleExplained => StaleExplained
  BY DEF StaleExplained, Cache!StaleExplained, Proved!StaleExplained
<1>3. QED
  BY <1>1, <1>2, SpecProved, PTL

-----------------------------------------------------------------------------
\* The steps that a check of each kind takes, and the facts that it has read,
\* and found wanting, when it gets to one.
Path(kind) ==
    CASE kind \in {"edit", "view", "tile"} -> {"perms", "map", "grant"}
      [] kind = "manage" -> {"perms", "map"}
      [] kind = "anonymous" -> {"map"}
      [] kind = "list" -> {"perms", "rows", "every"}

Before(kind, step) ==
    CASE step = "map" -> IF kind \in {"edit", "manage"} THEN {"perms"} ELSE {}
      [] step = "perms" -> IF kind \in {"view", "tile"} THEN {"map"} ELSE {}
      [] step = "grant" -> {"perms", "map"}
      [] OTHER -> {}

LEMMA FirstStep ==
    ASSUME NEW kind \in Kinds
    PROVE  /\ First(kind) \in Path(kind) /\ First(kind) # "every"
           /\ Before(kind, First(kind)) = {}
BY DEF Kinds, First, Path, Before

\* A check goes on or refuses when what it read is wanting, and refuses when
\* it has read everything that could give the right.
LEMMA NextStep ==
    ASSUME NEW kind \in Kinds \ {"list"}, NEW step \in Path(kind), NEW v \in Values,
           NEW next, next = Then(kind, step, v)
    PROVE  /\ next \in Steps =>
                /\ next \in Path(kind) /\ next # "every"
                /\ Before(kind, next) \subseteq Before(kind, step) \cup {step}
                /\ ~Has(v, Rights(kind)[step])
           /\ next = "denied" =>
                /\ \A f \in Facts : Rights(kind)[f] = {} \/ f = step
                                        \/ f \in Before(kind, step)
                /\ ~Has(v, Rights(kind)[step])
           /\ next = "allowed" => Has(v, Rights(kind)[step])
<1> USE DEF Steps, Path, Before, Rights, Then, Facts, Decide, NeedsRow, Has
<1>1. CASE kind = "edit"
  <2>1. CASE step = "perms"
    BY <1>1, <2>1 DEF Edit
  <2>2. CASE step = "map"
    BY <1>1, <2>2 DEF Edit
  <2>3. CASE step = "grant"
    BY <1>1, <2>3 DEF Edit
  <2>4. QED
    BY <1>1, <2>1, <2>2, <2>3
<1>2. CASE kind = "manage"
  <2>1. CASE step = "perms"
    BY <1>2, <2>1 DEF Manage
  <2>2. CASE step = "map"
    BY <1>2, <2>2 DEF Manage
  <2>3. QED
    BY <1>2, <2>1, <2>2
<1>3. CASE kind = "view"
  <2>1. CASE step = "perms"
    BY <1>3, <2>1 DEF View
  <2>2. CASE step = "map"
    BY <1>3, <2>2 DEF View
  <2>3. CASE step = "grant"
    BY <1>3, <2>3 DEF View
  <2>4. QED
    BY <1>3, <2>1, <2>2, <2>3
<1>4. CASE kind = "tile"
  <2>1. CASE step = "perms"
    BY <1>4, <2>1 DEF View, Tile
  <2>2. CASE step = "map"
    BY <1>4, <2>2 DEF View, Tile
  <2>3. CASE step = "grant"
    BY <1>4, <2>3 DEF View, Tile
  <2>4. QED
    BY <1>4, <2>1, <2>2, <2>3
<1>5. CASE kind = "anonymous"
  BY <1>5 DEF Anonymous
<1>6. QED
  BY <1>1, <1>2, <1>3, <1>4, <1>5 DEF Kinds

LEMMA NextListStep ==
    ASSUME NEW step \in Path("list"), NEW v \in Values, NEW next,
           next = Then("list", step, v)
    PROVE  /\ next \in Steps => next \in Path("list")
           /\ next = "every" => step = "perms" /\ Has(v, Flags)
           /\ next = "allowed" =>
                step = "every" \/ (step = "rows" /\ Has(v, {"listed"}))
BY DEF Steps, Path, Then, List, Decide, NeedsRow, Has

-----------------------------------------------------------------------------
\* What the caches guarantee, in the words of CachedFacts' proofs.
CacheInv == rows \in Rows /\ Proved!TypeOK /\ Proved!AgeInv

LEMMA CacheInvCorrect ==
    /\ Init => CacheInv
    /\ CacheInv /\ [Next]_vars => CacheInv'
<1>1. Init => CacheInv
  BY RefinesProved, ProvedSound, Proved!TypeInit, Proved!AgeInit DEF CacheInv
<1>2. CacheInv /\ [Next]_vars => CacheInv'
  BY RefinesProved, ProvedSound, Proved!TypeStep, Proved!AgeStep DEF CacheInv
<1>3. QED
  BY <1>1, <1>2

Window == Ttl + MaxLoad

LEMMA NumberFacts ==
    ASSUME CacheInv
    PROVE  /\ now \in Nat /\ Window \in Nat
           /\ \A x \in was : x.until \in Nat
           /\ \A r \in Requests :
                /\ request[r].started \in Nat /\ request[r].queriedAt \in Nat
                /\ request[r].kind \in Kinds
BY TimesAssumption DEF CacheInv, Proved!TypeOK, Window

\* What r reads at a step was so within the window, whether it comes from the
\* cache, from a query, or from the load that it now stores.
Learns(r, v) ==
    /\ request[r].at \in Steps
    /\ Proved!ReadAt(FactOf(request[r].at), v, now - Window)
    /\ Cache!Goes(r, v)

LEMMA ReadIsFresh ==
    ASSUME CacheInv, NEW r \in Requests,
           Cache!Get(r) \/ Cache!Query(r) \/ Cache!Set(r)
    PROVE  \E v \in Values : Learns(r, v)
<1> DEFINE f == FactOf(request[r].at)
<1>1. request[r].at \in Steps /\ f \in Facts
  BY DEF Cache!Get, Cache!Query, Cache!Set, Cache!Running, Steps, FactOf, Facts
<1>2. CASE Cache!Get(r)
  <2>1. /\ f \in cached /\ now <= entry[f].expires
        /\ Cache!Goes(r, entry[f].value)
    BY <1>2 DEF Cache!Get, Cache!Hit, Cache!Reads
  <2>2. Proved!ReadAt(f, entry[f].value, entry[f].expires - Window)
    BY <1>1, <2>1 DEF CacheInv, Proved!AgeInv, Proved!EntryAge, Proved!Window, Window
  <2>3. entry[f].expires \in Nat /\ entry[f].value \in Values
    BY <1>1 DEF CacheInv, Proved!TypeOK
  <2>4. Proved!ReadAt(f, entry[f].value, now - Window)
    BY <2>1, <2>2, <2>3, NumberFacts DEF Proved!ReadAt
  <2>5. QED
    BY <1>1, <2>1, <2>3, <2>4 DEF Learns
<1>3. CASE Cache!Query(r)
  <2>1. Cache!Goes(r, db[f])
    BY <1>3 DEF Cache!Query, Cache!Reads
  <2>2. db[f] \in Values /\ Proved!ReadAt(f, db[f], now - Window)
    BY <1>1 DEF CacheInv, Proved!TypeOK, Proved!ReadAt
  <2>3. QED
    BY <1>1, <2>1, <2>2 DEF Learns
<1>4. CASE Cache!Set(r)
  <2>1. request[r].loading /\ Cache!Goes(r, request[r].value)
    BY <1>4 DEF Cache!Set
  <2>2. /\ now <= request[r].queriedAt + MaxLoad
        /\ Proved!ReadAt(f, request[r].value, request[r].queriedAt)
    BY <1>1, <2>1 DEF CacheInv, Proved!AgeInv, Proved!LoadAge, Proved!Running,
                      Proved!Reads
  <2>3. request[r].value \in Values
    BY DEF CacheInv, Proved!TypeOK
  <2>4. now - Window <= request[r].queriedAt
    BY <2>2, NumberFacts, TimesAssumption DEF Window
  <2>5. Proved!ReadAt(f, request[r].value, now - Window)
    BY <2>2, <2>4, NumberFacts DEF Proved!ReadAt
  <2>6. QED
    BY <1>1, <2>1, <2>3, <2>5 DEF Learns
<1>5. QED
  BY <1>2, <1>3, <1>4

\* Where a request is after it has read v.
LEMMA AfterLearning ==
    ASSUME CacheInv, NEW r \in Requests, NEW v \in Values, Learns(r, v)
    PROVE  LET next == Then(request[r].kind, request[r].at, v) IN
           /\ request'[r].at = next
           /\ next \in Steps => /\ request'[r].kind = request[r].kind
                               /\ request'[r].started = request[r].started
           /\ \A q \in Requests \ {r} : request'[q] = request[q]
<1> DEFINE next == Then(request[r].kind, request[r].at, v)
<1>1. r \in DOMAIN request
  BY DEF CacheInv, Proved!TypeOK
<1>2. CASE next \in Steps
  <2>1. request' = [request EXCEPT ![r] = [@ EXCEPT !.at = next, !.loading = FALSE]]
    BY <1>2 DEF Learns, Cache!Goes
  <2>2. request[r] \in [at : Steps \cup Verdicts, kind : Kinds, loading : BOOLEAN,
                        value : Values, queriedAt : Nat, started : Nat]
    BY DEF CacheInv, Proved!TypeOK
  <2> HIDE DEF next
  <2>3. /\ [request[r] EXCEPT !.at = next, !.loading = FALSE].at = next
        /\ [request[r] EXCEPT !.at = next, !.loading = FALSE].kind = request[r].kind
        /\ [request[r] EXCEPT !.at = next, !.loading = FALSE].started
                = request[r].started
    BY <2>2
  <2>4. request'[r] = [request[r] EXCEPT !.at = next, !.loading = FALSE]
    BY <1>1, <2>1
  <2>5. \A q \in Requests \ {r} : request'[q] = request[q]
    BY <2>1 DEF CacheInv, Proved!TypeOK
  <2>6. QED
    BY <2>3, <2>4, <2>5 DEF next
<1>3. CASE next \notin Steps
  <2>1. request' = [request EXCEPT ![r] = Cache!Settled(next)]
    BY <1>3 DEF Learns, Cache!Goes
  <2> HIDE DEF next
  <2>2. Cache!Settled(next).at = next
    BY DEF Cache!Settled
  <2>3. request'[r] = Cache!Settled(next)
    BY <1>1, <2>1
  <2>4. \A q \in Requests \ {r} : request'[q] = request[q]
    BY <2>1 DEF CacheInv, Proved!TypeOK
  <2>5. QED
    BY <1>3, <2>2, <2>3, <2>4 DEF next
<1>4. QED
  BY <1>2, <1>3

-----------------------------------------------------------------------------
\* Since time t, fact f once gave one of the rights; or once gave none.
HadSince(f, rights, t) ==
    \E v \in Values : Has(v, rights) /\ Proved!ReadAt(f, v, t)
LackedSince(f, rights, t) ==
    \E v \in Values : ~Has(v, rights) /\ Proved!ReadAt(f, v, t)

\* A check has found wanting, since it started, all it has read so far; and a
\* list that shows every map has read flags that allow it.
Progress(at, kind, t) ==
    /\ at \in Path(kind)
    /\ kind # "list" =>
        \A f \in Before(kind, at) : LackedSince(f, Rights(kind)[f], t)
    /\ at = "every" => HadSince("perms", Flags, t)

PathInv(r) ==
    request[r].at \in Steps =>
        /\ request[r].started <= now
        /\ Progress(request[r].at, request[r].kind, request[r].started - Window)

LEMMA ReadKept ==
    ASSUME CacheInv, [Next]_vars, NEW f \in Facts, NEW t \in Int, t <= now,
           NEW v \in Values, Proved!ReadAt(f, v, t)
    PROVE  Proved!ReadAt(f, v, t)'
BY ProvedSound, RefinesProved, Proved!ReadAtStep DEF CacheInv

LEMMA ProgressKept ==
    ASSUME CacheInv, [Next]_vars, NEW at \in Steps, NEW kind \in Kinds, NEW t \in Int,
           t <= now, Progress(at, kind, t)
    PROVE  Progress(at, kind, t)'
<1>1. Before(kind, at) \subseteq Facts /\ "perms" \in Facts
  BY DEF Before, Facts
<1>2. ASSUME NEW f \in Facts, NEW rights, LackedSince(f, rights, t)
      PROVE  LackedSince(f, rights, t)'
  BY <1>2, ReadKept DEF LackedSince
<1>3. HadSince("perms", Flags, t) => HadSince("perms", Flags, t)'
  BY <1>1, ReadKept DEF HadSince
<1>4. QED
  BY <1>1, <1>2, <1>3 DEF Progress

LEMMA PathKept ==
    ASSUME CacheInv, [Next]_vars, NEW r \in Requests, PathInv(r),
           request'[r].at = request[r].at, request'[r].kind = request[r].kind,
           request'[r].started = request[r].started, now' \in Nat, now <= now'
    PROVE  PathInv(r)'
<1> SUFFICES ASSUME request[r].at \in Steps PROVE PathInv(r)'
  BY DEF PathInv
<1>1. /\ request[r].started <= now
      /\ Progress(request[r].at, request[r].kind, request[r].started - Window)
  BY DEF PathInv
<1>2. request[r].started \in Nat /\ request[r].kind \in Kinds
      /\ now \in Nat /\ Window \in Nat
  BY NumberFacts
<1>3. \A at \in Steps, kind \in Kinds, t \in Int :
        t <= now /\ Progress(at, kind, t) => Progress(at, kind, t)'
  BY ProgressKept
<1>4. request[r].started - Window \in Int /\ request[r].started - Window <= now
  BY <1>1, <1>2
<1>5. \A at \in Steps, kind \in Kinds, t \in Int :
        /\ at = request[r].at /\ kind = request[r].kind
        /\ t = request[r].started - Window
        => PathInv(r)'
  BY <1>1, <1>2, <1>3, <1>4 DEF PathInv, Window, Progress, LackedSince, HadSince
<1>6. QED
  BY <1>2, <1>4, <1>5

\* A step that r's check takes having read v.
LEMMA PathLearned ==
    ASSUME CacheInv, [Next]_vars, NEW r \in Requests, PathInv(r), NEW v \in Values,
           Learns(r, v), UNCHANGED <<now, db, was>>
    PROVE  PathInv(r)'
<1> DEFINE at == request[r].at
           kind == request[r].kind
           t == request[r].started - Window
           next == Then(kind, at, v)
<1>1. /\ at \in Steps /\ kind \in Kinds
      /\ request[r].started <= now /\ Progress(at, kind, t)
  BY NumberFacts DEF Learns, PathInv
<1>2. /\ request'[r].at = next
      /\ next \in Steps => /\ request'[r].kind = kind
                          /\ request'[r].started = request[r].started
  BY AfterLearning
<1>3. Proved!ReadAt(FactOf(at), v, t)
  <2>1. Proved!ReadAt(FactOf(at), v, now - Window)
    BY DEF Learns
  <2>2. t <= now - Window
    BY <1>1, NumberFacts
  <2> HIDE DEF t, at
  <2>3. t \in Int
    BY NumberFacts DEF t
  <2>4. QED
    BY <2>1, <2>2, <2>3, NumberFacts DEF Proved!ReadAt
<1>4. next \in Steps => Progress(next, kind, t)
  <2> HIDE DEF at, kind, t, next
  <2>1. CASE kind # "list"
    <3>1. next \in Steps =>
            /\ next \in Path(kind) /\ next # "every"
            /\ Before(kind, next) \subseteq Before(kind, at) \cup {at}
            /\ ~Has(v, Rights(kind)[at])
      BY <1>1, <2>1, NextStep DEF Progress, next
    <3>2. FactOf(at) = at
      BY <1>1, <2>1 DEF Progress, Path, Kinds, FactOf
    <3>3. QED
      BY <1>1, <1>3, <2>1, <3>1, <3>2 DEF Progress, LackedSince
  <2>2. CASE kind = "list"
    <3>1. next \in Steps =>
            next \in Path("list") /\ (next = "every" => at = "perms" /\ Has(v, Flags))
      BY <1>1, <2>2, NextListStep DEF Progress, next
    <3>2. at = "perms" => FactOf(at) = "perms"
      BY DEF FactOf
    <3>3. QED
      BY <1>3, <2>2, <3>1, <3>2 DEF Progress, HadSince
  <2>3. QED
    BY <2>1, <2>2
<1>5. \A a \in Steps, k \in Kinds, u \in Int :
        Progress(a, k, u) => Progress(a, k, u)'
  BY DEF Progress, LackedSince, HadSince, Proved!ReadAt
<1>6. t \in Int /\ now' = now
  BY NumberFacts
<1>7. ASSUME next \in Steps PROVE PathInv(r)'
  <2> HIDE DEF at, kind, next
  <2>1. \A a \in Steps, k \in Kinds, u \in Int :
            a = next /\ k = kind /\ u = t => PathInv(r)'
    BY <1>1, <1>2, <1>4, <1>5, <1>6, <1>7 DEF PathInv, Window, Progress, LackedSince, HadSince
  <2>2. QED
    BY <1>1, <1>6, <1>7, <2>1
<1>8. QED
  BY <1>2, <1>7 DEF PathInv

LEMMA PathInit == Init => \A r \in Requests : PathInv(r)
BY DEF Init, Cache!InitCaches, Cache!Settled, PathInv, Steps

LEMMA PathStep ==
    ASSUME CacheInv, [Next]_vars, \A r \in Requests : PathInv(r)
    PROVE  \A r \in Requests : PathInv(r)'
<1>1. ASSUME UNCHANGED request, now' \in Nat, now <= now'
      PROVE  \A r \in Requests : PathInv(r)'
  BY <1>1, PathKept
<1>2. ASSUME NEW r \in Requests, Check(r)
      PROVE  \A q \in Requests : PathInv(q)'
  <2>1. UNCHANGED <<now, db, was>>
    BY <1>2 DEF Check, Cache!RequestStep, Cache!Ask, Cache!Get, Cache!Query,
                Cache!Load, Cache!Set, Cache!Fail
  <2>2. ASSUME NEW q \in Requests, request'[q] = request[q] PROVE PathInv(q)'
    BY <2>1, <2>2, PathKept, NumberFacts
  <2>3. \A q \in Requests \ {r} : request'[q] = request[q]
    <3>1. CASE Cache!Get(r) \/ Cache!Query(r) \/ Cache!Set(r)
      BY <3>1, ReadIsFresh, AfterLearning
    <3>2. CASE \/ \E k \in Kinds : Cache!Ask(r, k)
               \/ Cache!Load(r) \/ Cache!Fail(r)
      BY <3>2 DEF Cache!Ask, Cache!Load, Cache!Fail, CacheInv, Proved!TypeOK
    <3>3. QED
      BY <1>2, <3>1, <3>2 DEF Check, Cache!RequestStep
  <2>4. PathInv(r)'
    <3>1. CASE Cache!Get(r) \/ Cache!Query(r) \/ Cache!Set(r)
      BY <2>1, <3>1, ReadIsFresh, PathLearned
    <3>2. ASSUME NEW k \in Kinds, Cache!Ask(r, k) PROVE PathInv(r)'
      <4>1. /\ request'[r].at = First(k) /\ request'[r].kind = k
            /\ request'[r].started = now
        BY <3>2 DEF Cache!Ask, Cache!Settled, CacheInv, Proved!TypeOK
      <4>2. QED
        BY <2>1, <4>1, FirstStep, NumberFacts DEF PathInv, Progress
    <3>3. CASE Cache!Load(r)
      <4>1. /\ request'[r].at = request[r].at /\ request'[r].kind = request[r].kind
            /\ request'[r].started = request[r].started
        BY <3>3 DEF Cache!Load, CacheInv, Proved!TypeOK
      <4>2. QED
        BY <2>1, <4>1, PathKept, NumberFacts
    <3>4. CASE Cache!Fail(r)
      <4>1. request'[r].at = "failed"
        BY <3>4 DEF Cache!Fail, Cache!Settled, CacheInv, Proved!TypeOK
      <4>2. QED
        BY <4>1 DEF PathInv, Steps
    <3>5. QED
      BY <1>2, <3>1, <3>2, <3>3, <3>4 DEF Check, Cache!RequestStep
  <2>5. QED
    BY <2>2, <2>3, <2>4
<1>3. ASSUME NEW w \in Writers, WriterStep(w)
      PROVE  \A q \in Requests : PathInv(q)'
  BY <1>1, <1>3, NumberFacts
     DEF WriterStep, Change, ChangeAndReread, CreateUser, UpdateUser, DeleteUser,
         UpdateGroup, DeleteGroup, ReplaceGroupMembership, SetMapPermission,
         SetGroupMapPermission, UpdateMap, UpdateMapOwner, DeleteMap,
         UpsertSyncedMap, Invalidate, RereadFails, Cache!Wrote, Cache!Invalidate,
         Cache!GiveUp
<1>4. CASE Tick
  BY <1>1, <1>4, NumberFacts DEF Tick, Cache!Tick
<1>5. CASE Restart
  BY <1>5 DEF Restart, Cache!Restart, Cache!Settled, PathInv, Steps
<1>6. CASE UNCHANGED vars
  BY <1>1, <1>6, NumberFacts DEF vars, caches
<1>7. QED
  BY <1>2, <1>3, <1>4, <1>5, <1>6 DEF Next

\* A check comes to a verdict only by what it reads.
LEMMA VerdictLearned ==
    ASSUME CacheInv, [Next]_vars, NEW r \in Requests, request[r].at \in Steps,
           request'[r].at \in {"allowed", "denied"}
    PROVE  \E v \in Values : Learns(r, v)
<1>1. request'[r].at \notin Steps \cup {"failed"}
  BY DEF Steps
<1>2. ASSUME NEW q \in Requests, Check(q)
      PROVE  \E v \in Values : Learns(r, v)
  <2>1. CASE Cache!Get(q) \/ Cache!Query(q) \/ Cache!Set(q)
    <3>1. CASE q = r
      BY <2>1, <3>1, ReadIsFresh
    <3>2. CASE q # r
      BY <1>1, <2>1, <3>2, ReadIsFresh, AfterLearning
    <3>3. QED
      BY <3>1, <3>2
  <2>2. CASE \E k \in Kinds : Cache!Ask(q, k)
    BY <1>1, <2>2 DEF Cache!Ask, Cache!Running, CacheInv, Proved!TypeOK
  <2>3. CASE Cache!Load(q)
    BY <1>1, <2>3 DEF Cache!Load, CacheInv, Proved!TypeOK
  <2>4. CASE Cache!Fail(q)
    BY <1>1, <2>4 DEF Cache!Fail, Cache!Settled, CacheInv, Proved!TypeOK
  <2>5. QED
    BY <1>2, <2>1, <2>2, <2>3, <2>4 DEF Check, Cache!RequestStep
<1>3. CASE \E w \in Writers : WriterStep(w)
  BY <1>1, <1>3
     DEF WriterStep, Change, ChangeAndReread, CreateUser, UpdateUser, DeleteUser,
         UpdateGroup, DeleteGroup, ReplaceGroupMembership, SetMapPermission,
         SetGroupMapPermission, UpdateMap, UpdateMapOwner, DeleteMap,
         UpsertSyncedMap, Invalidate, RereadFails, Cache!Wrote, Cache!Invalidate,
         Cache!GiveUp
<1>4. CASE Tick
  BY <1>1, <1>4 DEF Tick, Cache!Tick
<1>5. CASE Restart
  BY <1>1, <1>5 DEF Restart, Cache!Restart, Cache!Settled
<1>6. CASE UNCHANGED vars
  BY <1>1, <1>6 DEF vars, caches
<1>7. QED
  BY <1>2, <1>3, <1>4, <1>5, <1>6 DEF Next

\* What was read in the window, and what since the request started, in the
\* words of the properties.
LEMMA ReadIsWithin ==
    ASSUME CacheInv, NEW r \in Requests, NEW f \in Facts, NEW v \in Values
    PROVE  /\ Proved!ReadAt(f, v, now - Window)
                => Cache!WasWithin(f, v, Cache!Window)
           /\ Proved!ReadAt(f, v, request[r].started - Window)
                => Cache!WasWithin(f, v, Span(r))
           /\ request[r].started <= now /\ Proved!ReadAt(f, v, now - Window)
                => Cache!WasWithin(f, v, Span(r))
BY NumberFacts DEF Proved!ReadAt, Cache!WasWithin, Cache!Window, Window, Span

\* A right that was taken away works for at most the cacheTTL and one load
\* more, whatever was invalidated and whatever ran concurrently.
THEOREM AllowJustifiedCorrect == Spec => AllowJustified
<1>1. ASSUME CacheInv, \A r \in Requests : PathInv(r), [Next]_vars,
             NEW r \in Requests, Becomes(r, "allowed")
      PROVE  \E f \in Facts :
                Granted(f, Rights(request[r].kind)[f],
                    IF request[r].kind = "list" THEN Span(r) ELSE Cache!Window)
  <2> DEFINE at == request[r].at
             kind == request[r].kind
  <2>1. /\ at \in Steps /\ kind \in Kinds /\ request'[r].at = "allowed"
        /\ request[r].started <= now
        /\ Progress(at, kind, request[r].started - Window)
    BY <1>1, NumberFacts DEF Becomes, Cache!Running, PathInv
  <2>2. PICK v \in Values : Learns(r, v)
    BY <1>1, <2>1, VerdictLearned
  <2>3. Then(kind, at, v) = "allowed"
    BY <1>1, <2>1, <2>2, AfterLearning
  <2>4. Proved!ReadAt(FactOf(at), v, now - Window)
    BY <2>2 DEF Learns
  <2>5. CASE kind # "list"
    <3>1. Has(v, Rights(kind)[at])
      BY <2>1, <2>3, <2>5, NextStep DEF Progress
    <3>2. FactOf(at) = at /\ at \in Facts
      BY <2>1, <2>5 DEF Progress, Path, Kinds, FactOf, Facts
    <3>3. Granted(at, Rights(kind)[at], Cache!Window)
      BY <1>1, <2>4, <3>1, <3>2, ReadIsWithin DEF Granted
    <3>4. QED
      BY <2>5, <3>2, <3>3
  <2>6. CASE kind = "list"
    <3>1. at = "every" \/ (at = "rows" /\ Has(v, {"listed"}))
      BY <2>1, <2>3, <2>6, NextListStep DEF Progress
    <3>2. /\ Rights("list")["perms"] = Flags /\ Rights("list")["listed"] = {"listed"}
          /\ "perms" \in Facts /\ "listed" \in Facts
      BY DEF Rights, Facts
    <3>3. CASE at = "every"
      <4>1. HadSince("perms", Flags, request[r].started - Window)
        BY <2>1, <3>3 DEF Progress
      <4>2. Granted("perms", Flags, Span(r))
        BY <1>1, <3>2, <4>1, ReadIsWithin DEF HadSince, Granted
      <4>3. QED
        BY <2>6, <3>2, <4>2
    <3>4. CASE at = "rows" /\ Has(v, {"listed"})
      <4>1. Proved!ReadAt("listed", v, now - Window)
        BY <2>4, <3>4 DEF FactOf
      <4>2. Granted("listed", {"listed"}, Span(r))
        BY <1>1, <2>1, <3>2, <3>4, <4>1, ReadIsWithin DEF Granted
      <4>3. QED
        BY <2>6, <3>2, <4>2
    <3>5. QED
      BY <3>1, <3>3, <3>4
  <2>7. QED
    BY <2>5, <2>6
<1>2. Init => CacheInv /\ \A r \in Requests : PathInv(r)
  BY CacheInvCorrect, PathInit
<1>3. CacheInv /\ (\A r \in Requests : PathInv(r)) /\ [Next]_vars
        => (CacheInv /\ \A r \in Requests : PathInv(r))'
  BY CacheInvCorrect, PathStep
<1>4. CacheInv /\ (\A r \in Requests : PathInv(r)) /\ [Next]_vars
        => [\A r \in Requests : Becomes(r, "allowed") =>
                \E f \in Facts :
                    Granted(f, Rights(request[r].kind)[f],
                        IF request[r].kind = "list" THEN Span(r)
                        ELSE Cache!Window)]_vars
  BY <1>1
<1>5. QED
  BY <1>2, <1>3, <1>4, PTL DEF Spec, AllowJustified

\* Nobody is refused who had one and the same right all along.
THEOREM DenyJustifiedCorrect == Spec => DenyJustified
<1>1. ASSUME CacheInv, \A r \in Requests : PathInv(r), [Next]_vars,
             NEW r \in Requests, Becomes(r, "denied"), request[r].kind # "list",
             NEW f \in Facts
      PROVE  Lacked(f, Rights(request[r].kind)[f], Span(r))
  <2> DEFINE at == request[r].at
             kind == request[r].kind
  <2>1. /\ at \in Steps /\ kind \in Kinds \ {"list"} /\ request'[r].at = "denied"
        /\ request[r].started <= now
        /\ Progress(at, kind, request[r].started - Window)
    BY <1>1, NumberFacts DEF Becomes, Cache!Running, PathInv
  <2>2. PICK v \in Values : Learns(r, v)
    BY <1>1, <2>1, VerdictLearned
  <2>3. Then(kind, at, v) = "denied"
    BY <1>1, <2>1, <2>2, AfterLearning
  <2>4. Proved!ReadAt(FactOf(at), v, now - Window)
    BY <2>2 DEF Learns
  <2>5. /\ Rights(kind)[f] = {} \/ f = at \/ f \in Before(kind, at)
        /\ ~Has(v, Rights(kind)[at])
    BY <2>1, <2>3, NextStep DEF Progress
  <2>6. CASE Rights(kind)[f] = {}
    <3>1. db[f] \in Values
      BY <1>1 DEF CacheInv, Proved!TypeOK
    <3>2. QED
      BY <2>6, <3>1 DEF Lacked, Has, Cache!WasWithin
  <2>7. CASE f = at
    <3>1. FactOf(at) = at
      BY <2>1, <2>7 DEF Progress, Path, Kinds, FactOf
    <3>2. QED
      BY <1>1, <2>1, <2>4, <2>5, <2>7, <3>1, ReadIsWithin DEF Lacked
  <2>8. CASE f \in Before(kind, at)
    BY <1>1, <2>1, <2>8, ReadIsWithin DEF Progress, LackedSince, Lacked
  <2>9. QED
    BY <2>5, <2>6, <2>7, <2>8
<1>2. Init => CacheInv /\ \A r \in Requests : PathInv(r)
  BY CacheInvCorrect, PathInit
<1>3. CacheInv /\ (\A r \in Requests : PathInv(r)) /\ [Next]_vars
        => (CacheInv /\ \A r \in Requests : PathInv(r))'
  BY CacheInvCorrect, PathStep
<1>4. CacheInv /\ (\A r \in Requests : PathInv(r)) /\ [Next]_vars
        => [\A r \in Requests : Becomes(r, "denied") /\ request[r].kind # "list" =>
                \A f \in Facts : Lacked(f, Rights(request[r].kind)[f], Span(r))]_vars
  BY <1>1
<1>5. QED
  BY <1>2, <1>3, <1>4, PTL DEF Spec, DenyJustified
=============================================================================
