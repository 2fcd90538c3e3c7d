------------------------- MODULE CachedFactsProofs -------------------------
(***************************************************************************)
(* How far out of date the caches can be, for any facts, checks, requests, *)
(* writers, ttl and load time.                                             *)
(***************************************************************************)
EXTENDS CachedFacts, TLAPS

Requests_ ==
    [at : Steps \cup Verdicts, kind : Kinds, loading : BOOLEAN,
     value : Values, queriedAt : Nat, started : Nat]

LEMMA SettledType ==
    ASSUME Sound, NEW verdict \in Steps \cup Verdicts
    PROVE  Settled(verdict) \in Requests_
<1>1. (CHOOSE k \in Kinds : TRUE) \in Kinds
  BY DEF Sound
<1>2. QED
  BY <1>1 DEF Sound, Settled, Requests_

\* What a request becomes when it has read v at its step.
LEMMA GoesType ==
    ASSUME Sound, TypeOK, NEW r \in Requests, NEW v \in Values,
           Running(r), Goes(r, v)
    PROVE  request' \in [Requests -> Requests_]
<1> DEFINE next == Then(request[r].kind, request[r].at, v)
<1>1. request[r] \in Requests_ /\ request[r].at \in Steps
  BY DEF TypeOK, Requests_, Running
<1>2. next \in Steps \cup Verdicts
  BY <1>1 DEF Sound, Requests_
<1>3. CASE next \in Steps
  <2>1. request' = [request EXCEPT ![r] = [@ EXCEPT !.at = next, !.loading = FALSE]]
    BY <1>3 DEF Goes
  <2> HIDE DEF next
  <2>2. [request[r] EXCEPT !.at = next, !.loading = FALSE] \in Requests_
    BY <1>1, <1>3 DEF Requests_
  <2>3. QED
    BY <2>1, <2>2 DEF TypeOK, Requests_
<1>4. CASE next \notin Steps
  <2>1. request' = [request EXCEPT ![r] = Settled(next)]
    BY <1>4 DEF Goes
  <2> HIDE DEF next
  <2>2. Settled(next) \in Requests_
    BY <1>2, SettledType
  <2>3. QED
    BY <2>1, <2>2 DEF TypeOK, Requests_
<1>5. QED
  BY <1>3, <1>4

LEMMA TypeInit == Sound /\ Init => TypeOK
<1> SUFFICES ASSUME Sound, Init PROVE TypeOK
  OBVIOUS
<1>1. Settled("failed") \in Requests_
  BY SettledType DEF Sound
<1>2. request \in [Requests -> Requests_]
  BY <1>1 DEF Init, InitCaches
<1>3. entry \in [Facts -> [value : Values, expires : Nat]]
  BY DEF Init, InitCaches, NoEntry, Sound
<1>4. QED
  BY <1>2, <1>3 DEF Init, InitCaches, TypeOK, Requests_

LEMMA TypeStep == Sound /\ TypeOK /\ [Next]_vars => TypeOK'
<1> SUFFICES ASSUME Sound, TypeOK, [Next]_vars PROVE TypeOK'
  OBVIOUS
<1>1. ASSUME NEW r \in Requests, NEW k \in Kinds, Ask(r, k) PROVE TypeOK'
  <2>1. Settled(First(k)) \in Requests_
    BY SettledType DEF Sound
  <2>2. [Settled(First(k)) EXCEPT !.kind = k, !.started = now] \in Requests_
    BY <2>1 DEF Requests_, TypeOK
  <2>3. request' \in [Requests -> Requests_]
    BY <1>1, <2>2 DEF Ask, TypeOK, Requests_
  <2>4. QED
    BY <1>1, <2>3 DEF Ask, TypeOK, Requests_
<1>2. ASSUME NEW r \in Requests, Get(r) \/ Query(r) PROVE TypeOK'
  <2>1. Running(r) /\ Reads(r) \in Facts
    BY <1>2 DEF Get, Query, Running, Reads, Sound
  <2>2. entry[Reads(r)].value \in Values /\ db[Reads(r)] \in Values
    BY <2>1 DEF TypeOK
  <2>3. request' \in [Requests -> Requests_]
    BY <1>2, <2>1, <2>2, GoesType DEF Get, Query
  <2>4. UNCHANGED <<now, db, cached, entry, pending, overlapped, quiet, was>>
    BY <1>2 DEF Get, Query
  <2>5. QED
    BY <2>3, <2>4 DEF TypeOK, Requests_
<1>3. ASSUME NEW r \in Requests, Load(r) PROVE TypeOK'
  <2>1. db[Reads(r)] \in Values
    BY <1>3 DEF Load, Running, Reads, Sound, TypeOK
  <2>2. request[r] \in Requests_
    BY DEF TypeOK, Requests_
  <2>3. [request[r] EXCEPT !.loading = TRUE, !.value = db[Reads(r)],
                           !.queriedAt = now] \in Requests_
    BY <2>1, <2>2 DEF TypeOK, Requests_
  <2>4. request' = [request EXCEPT ![r] =
            [@ EXCEPT !.loading = TRUE, !.value = db[Reads(r)],
                      !.queriedAt = now]]
    BY <1>3 DEF Load, TypeOK
  <2>5. request' \in [Requests -> Requests_]
    BY <2>3, <2>4 DEF TypeOK, Requests_
  <2>6. UNCHANGED <<now, db, cached, entry, pending, overlapped, quiet, was>>
    BY <1>3 DEF Load
  <2>7. QED
    BY <2>5, <2>6 DEF TypeOK, Requests_
<1>4. ASSUME NEW r \in Requests, Set(r) PROVE TypeOK'
  <2>1. Running(r) /\ Reads(r) \in Facts /\ request[r].value \in Values
    BY <1>4 DEF Set, Running, Reads, Sound, TypeOK
  <2>2. request' \in [Requests -> Requests_]
    BY <1>4, <2>1, GoesType DEF Set
  <2>3. now + Ttl \in Nat
    BY DEF TypeOK, Sound
  <2>4. entry' \in [Facts -> [value : Values, expires : Nat]]
    BY <1>4, <2>1, <2>3 DEF Set, TypeOK
  <2>5. /\ cached' \in SUBSET Facts /\ overlapped' \in SUBSET Facts
        /\ quiet' \in SUBSET Facts /\ UNCHANGED <<now, db, pending, was>>
    BY <1>4, <2>1 DEF Set, TypeOK
  <2>6. QED
    BY <2>2, <2>4, <2>5 DEF TypeOK, Requests_
<1>5. ASSUME NEW r \in Requests, Fail(r) PROVE TypeOK'
  <2>1. Settled("failed") \in Requests_
    BY SettledType DEF Sound
  <2>2. QED
    BY <1>5, <2>1 DEF Fail, TypeOK, Requests_
<1>6. ASSUME NEW w \in Writers, Write(w) PROVE TypeOK'
  <2>1. PICK announced \in SUBSET Facts :
            db' \in [Facts -> Values] /\ Wrote(w, announced, Facts)
    BY <1>6 DEF Write
  <2>2. was' \in SUBSET [fact : Facts, value : Values, until : Nat]
    BY <2>1 DEF Wrote, TypeOK
  <2>3. quiet' \in SUBSET Facts /\ pending' \in [Writers -> SUBSET Facts]
    BY <2>1 DEF Wrote, TypeOK
  <2>4. QED
    BY <2>1, <2>2, <2>3 DEF Wrote, TypeOK
<1>7. ASSUME NEW w \in Writers, Invalidate(w) PROVE TypeOK'
  <2>1. entry' \in [Facts -> [value : Values, expires : Nat]]
    BY <1>7 DEF Invalidate, TypeOK, NoEntry, Sound
  <2>2. QED
    BY <1>7, <2>1 DEF Invalidate, TypeOK
<1>8. ASSUME NEW w \in Writers, GiveUp(w) PROVE TypeOK'
  BY <1>8 DEF GiveUp, TypeOK
<1>9. ASSUME Restart PROVE TypeOK'
  <2>1. Settled("failed") \in Requests_
    BY SettledType DEF Sound
  <2>2. entry' \in [Facts -> [value : Values, expires : Nat]]
    BY <1>9 DEF Restart, NoEntry, Sound
  <2>3. QED
    BY <1>9, <2>1, <2>2 DEF Restart, TypeOK, Requests_
<1>10. ASSUME Tick PROVE TypeOK'
  BY <1>10 DEF Tick, TypeOK
<1>11. CASE UNCHANGED vars
  BY <1>11 DEF vars, TypeOK
<1>12. QED
  BY <1>1, <1>2, <1>3, <1>4, <1>5, <1>6, <1>7, <1>8, <1>9, <1>10, <1>11
     DEF Next, RequestStep

\* The clock, the caches, the requests and the history keep their types.
THEOREM TypeCorrect == ASSUME Sound PROVE Spec => []TypeOK
<1>1. Init => TypeOK
  BY TypeInit
<1>2. TypeOK /\ [Next]_vars => TypeOK'
  BY TypeStep
<1>3. QED
  BY <1>1, <1>2, PTL DEF Spec

-----------------------------------------------------------------------------
\* A value that was read at time t has been the fact's at t or later.
ReadAt(f, v, t) ==
    \/ db[f] = v
    \/ \E x \in was : x.fact = f /\ x.value = v /\ t <= x.until

LoadAge(r) ==
    Running(r) /\ request[r].loading =>
        /\ request[r].queriedAt <= now
        /\ now <= request[r].queriedAt + MaxLoad
        /\ ReadAt(Reads(r), request[r].value, request[r].queriedAt)

\* An entry's query ran at most MaxLoad before its ttl began.
EntryAge(f) ==
    f \in cached =>
        /\ entry[f].expires <= now + Ttl
        /\ ReadAt(f, entry[f].value, entry[f].expires - Window)

AgeInv ==
    /\ \A r \in Requests : LoadAge(r)
    /\ \A f \in Facts : EntryAge(f)

LEMMA AgeInit == ASSUME Sound PROVE Init => AgeInv
BY DEF Init, InitCaches, AgeInv, LoadAge, EntryAge, Settled

\* Values that were read stay explained whatever a step does to the rows.
LEMMA ReadAtStep ==
    ASSUME Sound, TypeOK, [Next]_vars, NEW f \in Facts, NEW v \in Values,
           NEW t \in Int, t <= now, ReadAt(f, v, t)
    PROVE  ReadAt(f, v, t)'
<1>1. CASE UNCHANGED <<db, was>>
  BY <1>1 DEF ReadAt
<1>2. ASSUME NEW w \in Writers, Write(w) PROVE ReadAt(f, v, t)'
  <2>1. PICK announced \in SUBSET Facts : Wrote(w, announced, Facts)
    BY <1>2 DEF Write
  <2>2. was' = was \cup {[fact |-> g, value |-> db[g], until |-> now] :
                        g \in {h \in Facts : db'[h] # db[h]}}
    BY <2>1 DEF Wrote
  <2>3. CASE \E x \in was : x.fact = f /\ x.value = v /\ t <= x.until
    BY <2>2, <2>3 DEF ReadAt
  <2>4. CASE db[f] = v /\ db'[f] = db[f]
    BY <2>4 DEF ReadAt
  <2>5. CASE db[f] = v /\ db'[f] # db[f]
    <3>1. [fact |-> f, value |-> v, until |-> now] \in was'
      BY <2>2, <2>5
    <3>2. QED
      BY <3>1 DEF ReadAt
  <2>6. QED
    BY <2>3, <2>4, <2>5 DEF ReadAt
<1>3. [Next]_vars => UNCHANGED <<db, was>> \/ \E w \in Writers : Write(w)
  BY DEF Next, RequestStep, Ask, Get, Query, Load, Set, Fail, Invalidate,
         GiveUp, Restart, Tick, vars
<1>4. QED
  BY <1>1, <1>2, <1>3

\* A step that leaves r's load alone, and the clock or no load is too old.
LEMMA LoadAgeKept ==
    ASSUME Sound, TypeOK, AgeInv, [Next]_vars, NEW r \in Requests,
           request'[r] = request[r], now' = now
    PROVE  LoadAge(r)'
<1> SUFFICES ASSUME Running(r), request[r].loading PROVE LoadAge(r)'
  BY DEF LoadAge, Running
<1>1. /\ request[r].queriedAt <= now
      /\ now <= request[r].queriedAt + MaxLoad
      /\ ReadAt(Reads(r), request[r].value, request[r].queriedAt)
  BY DEF AgeInv, LoadAge
<1>2. /\ Reads(r) \in Facts /\ request[r].value \in Values
      /\ request[r].queriedAt \in Int
  BY DEF Running, Reads, Sound, TypeOK
<1>3. ReadAt(Reads(r), request[r].value, request[r].queriedAt)'
  <2>1. Reads(r)' = Reads(r)
    BY DEF Reads
  <2>2. \A f \in Facts, v \in Values, t \in Int :
            t <= now /\ ReadAt(f, v, t) => ReadAt(f, v, t)'
    BY ReadAtStep
  <2>3. QED
    BY <1>1, <1>2, <2>1, <2>2 DEF ReadAt
<1>4. QED
  BY <1>1, <1>3 DEF LoadAge

LEMMA EntryAgeKept ==
    ASSUME Sound, TypeOK, AgeInv, [Next]_vars, NEW f \in Facts,
           f \in cached' => f \in cached /\ entry'[f] = entry[f],
           now' \in Nat, now <= now'
    PROVE  EntryAge(f)'
<1> SUFFICES ASSUME f \in cached' PROVE EntryAge(f)'
  BY DEF EntryAge
<1>1. /\ entry[f].expires <= now + Ttl
      /\ ReadAt(f, entry[f].value, entry[f].expires - Window)
  BY DEF AgeInv, EntryAge
<1>2. /\ entry[f].value \in Values /\ entry[f].expires \in Nat /\ now \in Nat
      /\ Ttl \in Nat /\ MaxLoad \in Nat
  BY DEF TypeOK, Sound
<1> DEFINE t == entry[f].expires - Window
<1>3. t \in Int /\ t <= now
  BY <1>1, <1>2 DEF Window
<1>4. \A v \in Values, c \in Int :
        c <= now /\ ReadAt(f, v, c) => ReadAt(f, v, c)'
  BY ReadAtStep
<1>5. entry'[f] = entry[f]
  OBVIOUS
<1>6. ReadAt(f, entry[f].value, entry[f].expires - Window)'
  BY <1>1, <1>2, <1>3, <1>4, <1>5 DEF ReadAt, Window
<1>7. (entry[f].expires <= now + Ttl)'
  BY <1>1, <1>2, <1>5
<1>8. QED
  BY <1>6, <1>7 DEF EntryAge

\* A request whose load ended: nothing to show of it.
LEMMA LoadAgeOver ==
    ASSUME NEW r \in Requests, ~request'[r].loading
    PROVE  LoadAge(r)'
BY DEF LoadAge

LEMMA NotLoading ==
    ASSUME Sound, TypeOK, NEW r \in Requests, NEW v \in Values, Goes(r, v)
    PROVE  /\ ~request'[r].loading
           /\ \A q \in Requests \ {r} : request'[q] = request[q]
<1> DEFINE next == Then(request[r].kind, request[r].at, v)
<1>1. CASE next \in Steps
  <2>1. request' = [request EXCEPT ![r] = [@ EXCEPT !.at = next, !.loading = FALSE]]
    BY <1>1 DEF Goes
  <2>2. request[r] \in Requests_
    BY DEF TypeOK, Requests_
  <2> HIDE DEF next
  <2>3. ~[request[r] EXCEPT !.at = next, !.loading = FALSE].loading
    BY <2>2 DEF Requests_
  <2>4. QED
    BY <2>1, <2>3 DEF TypeOK
<1>2. CASE next \notin Steps
  <2>1. request' = [request EXCEPT ![r] = Settled(next)]
    BY <1>2 DEF Goes
  <2> HIDE DEF next
  <2>2. QED
    BY <2>1 DEF TypeOK, Settled
<1>3. QED
  BY <1>1, <1>2

LEMMA AgeStep == ASSUME Sound PROVE TypeOK /\ AgeInv /\ [Next]_vars => AgeInv'
<1> SUFFICES ASSUME TypeOK, AgeInv, [Next]_vars PROVE AgeInv'
  OBVIOUS
<1>0. now \in Nat /\ Ttl \in Nat /\ MaxLoad \in Nat
  BY DEF TypeOK, Sound
<1>1. ASSUME now' = now, UNCHANGED <<cached, entry>>,
             \A q \in Requests : request'[q] = request[q] \/ ~request'[q].loading
      PROVE  AgeInv'
  BY <1>0, <1>1, LoadAgeKept, LoadAgeOver, EntryAgeKept DEF AgeInv
<1>2. ASSUME NEW r \in Requests, NEW k \in Kinds, Ask(r, k) PROVE AgeInv'
  BY <1>1, <1>2 DEF Ask, Settled, TypeOK
<1>3. ASSUME NEW r \in Requests, Get(r) \/ Query(r) PROVE AgeInv'
  <2>1. Reads(r) \in Facts
    BY <1>3 DEF Get, Query, Running, Reads, Sound
  <2>2. \E v \in Values : Goes(r, v)
    BY <1>3, <2>1 DEF Get, Query, TypeOK
  <2>3. UNCHANGED <<now, cached, entry>>
    BY <1>3 DEF Get, Query
  <2>4. QED
    BY <1>1, <2>2, <2>3, NotLoading
<1>4. ASSUME NEW r \in Requests, Load(r) PROVE AgeInv'
  <2>1. /\ request[r] \in Requests_ /\ Running(r)
        /\ UNCHANGED <<now, db, cached, entry, was>>
        /\ request' = [request EXCEPT ![r] =
             [@ EXCEPT !.loading = TRUE, !.value = db[Reads(r)],
                       !.queriedAt = now]]
    BY <1>4 DEF Load, TypeOK, Requests_
  <2>2. /\ request'[r].at = request[r].at
        /\ request'[r].value = db[Reads(r)]
        /\ request'[r].queriedAt = now
    BY <2>1 DEF TypeOK, Requests_
  <2>3. LoadAge(r)'
    BY <1>0, <2>1, <2>2 DEF LoadAge, ReadAt, Reads
  <2>4. ASSUME NEW q \in Requests, q # r PROVE LoadAge(q)'
    BY <2>1, <2>4, LoadAgeKept DEF TypeOK
  <2>5. ASSUME NEW f \in Facts PROVE EntryAge(f)'
    BY <1>0, <2>1, EntryAgeKept
  <2>6. QED
    BY <2>3, <2>4, <2>5 DEF AgeInv
<1>5. ASSUME NEW r \in Requests, Set(r) PROVE AgeInv'
  <2>1. /\ Running(r) /\ request[r].loading /\ Reads(r) \in Facts
        /\ request[r].value \in Values /\ request[r].queriedAt \in Nat
    BY <1>5 DEF Set, Running, Reads, Sound, TypeOK
  <2>2. /\ UNCHANGED <<now, db, was>>
        /\ cached' = cached \cup {Reads(r)}
        /\ entry' = [entry EXCEPT ![Reads(r)] =
                [value |-> request[r].value, expires |-> now + Ttl]]
        /\ Goes(r, request[r].value)
    BY <1>5 DEF Set
  <2>3. ASSUME NEW q \in Requests PROVE LoadAge(q)'
    BY <2>1, <2>2, <2>3, NotLoading, LoadAgeOver, LoadAgeKept
  <2>4. ASSUME NEW f \in Facts, f = Reads(r) PROVE EntryAge(f)'
    <3>1. /\ ReadAt(f, request[r].value, request[r].queriedAt)
          /\ now <= request[r].queriedAt + MaxLoad
      BY <2>1, <2>4 DEF AgeInv, LoadAge
    <3>2. entry'[f] = [value |-> request[r].value, expires |-> now + Ttl]
      BY <2>1, <2>2, <2>4 DEF TypeOK
    <3>3. entry'[f].value = request[r].value /\ entry'[f].expires = now + Ttl
      BY <3>2
    <3>4. now + Ttl - Window <= request[r].queriedAt
      BY <1>0, <2>1, <3>1 DEF Window
    <3>5. \A x \in was : x.until \in Nat
      BY DEF TypeOK
    <3>6. ReadAt(f, request[r].value, now + Ttl - Window)
      BY <1>0, <2>1, <3>1, <3>4, <3>5 DEF ReadAt, Window
    <3>7. QED
      BY <1>0, <2>2, <3>3, <3>6 DEF EntryAge, ReadAt, Window
  <2>5. ASSUME NEW f \in Facts, f # Reads(r) PROVE EntryAge(f)'
    BY <1>0, <2>1, <2>2, <2>5, EntryAgeKept DEF TypeOK
  <2>6. QED
    BY <2>3, <2>4, <2>5 DEF AgeInv
<1>6. ASSUME NEW r \in Requests, Fail(r) PROVE AgeInv'
  BY <1>1, <1>6 DEF Fail, Settled, TypeOK
<1>7. ASSUME NEW w \in Writers, Write(w) \/ GiveUp(w) PROVE AgeInv'
  BY <1>1, <1>7 DEF Write, Wrote, GiveUp
<1>8. ASSUME NEW w \in Writers, Invalidate(w) PROVE AgeInv'
  <2>1. /\ UNCHANGED <<now, request>>
        /\ \A f \in Facts :
            f \in cached' => f \in cached /\ entry'[f] = entry[f]
    BY <1>8 DEF Invalidate
  <2>2. QED
    BY <1>0, <2>1, LoadAgeKept, EntryAgeKept DEF AgeInv
<1>9. ASSUME Restart PROVE AgeInv'
  BY <1>9 DEF Restart, AgeInv, LoadAge, EntryAge, Settled
<1>10. ASSUME Tick PROVE AgeInv'
  <2>1. /\ now' = now + 1
        /\ UNCHANGED <<db, cached, entry, request, was>>
        /\ \A r \in Requests :
            request[r].loading => now < request[r].queriedAt + MaxLoad
    BY <1>10 DEF Tick
  <2>2. ASSUME NEW r \in Requests PROVE LoadAge(r)'
    <3>1. request[r].queriedAt \in Nat
      BY DEF TypeOK
    <3>2. QED
      BY <1>0, <2>1, <3>1 DEF AgeInv, LoadAge, ReadAt, Running, Reads
  <2>3. ASSUME NEW f \in Facts PROVE EntryAge(f)'
    BY <1>0, <2>1, EntryAgeKept
  <2>4. QED
    BY <2>2, <2>3 DEF AgeInv
<1>11. CASE UNCHANGED vars
  BY <1>1, <1>11 DEF vars
<1>12. QED
  BY <1>2, <1>3, <1>4, <1>5, <1>6, <1>7, <1>8, <1>9, <1>10, <1>11
     DEF Next, RequestStep

LEMMA AgeImpliesFresh == ASSUME Sound PROVE TypeOK /\ AgeInv => HitsFresh
<1> SUFFICES ASSUME TypeOK, AgeInv, NEW f \in Facts, Hit(f)
             PROVE  WasWithin(f, entry[f].value, Window)
  BY DEF HitsFresh
<1>1. /\ now <= entry[f].expires
      /\ ReadAt(f, entry[f].value, entry[f].expires - Window)
  BY DEF Hit, AgeInv, EntryAge
<1>2. /\ \A x \in was : x.until \in Nat
      /\ now \in Nat /\ entry[f].expires \in Nat /\ Window \in Nat
  BY DEF TypeOK, Sound, Window
<1>3. QED
  BY <1>1, <1>2 DEF ReadAt, WasWithin

\* What get returns was so within the last ttl and one load.
THEOREM HitsFreshCorrect == ASSUME Sound PROVE Spec => []HitsFresh
<1>1. Init => TypeOK /\ AgeInv
  BY TypeInit, AgeInit
<1>2. TypeOK /\ AgeInv /\ [Next]_vars => (TypeOK /\ AgeInv)'
  BY TypeStep, AgeStep
<1>3. TypeOK /\ AgeInv => HitsFresh
  BY AgeImpliesFresh
<1>4. QED
  BY <1>1, <1>2, <1>3, PTL DEF Spec

-----------------------------------------------------------------------------
LEMMA StaleStep ==
    ASSUME Sound
    PROVE  TypeOK /\ StaleExplained /\ [Next]_vars => StaleExplained'
<1> SUFFICES ASSUME TypeOK, StaleExplained, [Next]_vars,
                    NEW f \in cached', entry'[f].value # db'[f],
                    f \notin overlapped' \cup quiet'
             PROVE  \E w \in Writers : f \in pending'[w]
  BY DEF StaleExplained
<1>1. CASE UNCHANGED <<db, cached, entry, overlapped, quiet, pending>>
  BY <1>1 DEF StaleExplained
<1>2. ASSUME NEW r \in Requests, Set(r)
      PROVE  \E w \in Writers : f \in pending'[w]
  <2>1. Reads(r) \in Facts
    BY <1>2 DEF Set, Running, Reads, Sound
  <2>2. CASE f = Reads(r)
    BY <1>2, <2>1, <2>2 DEF Set, TypeOK
  <2>3. CASE f # Reads(r)
    BY <1>2, <2>1, <2>3 DEF Set, TypeOK, StaleExplained
  <2>4. QED
    BY <2>2, <2>3
<1>3. ASSUME NEW w \in Writers, Write(w)
      PROVE  \E u \in Writers : f \in pending'[u]
  <2>1. PICK announced \in SUBSET Facts : Wrote(w, announced, Facts)
    BY <1>3 DEF Write
  <2>2. /\ pending[w] = {}
        /\ pending' = [pending EXCEPT ![w] = announced]
        /\ quiet' = quiet \cup {g \in Facts \ announced : db'[g] # db[g]}
        /\ UNCHANGED <<cached, entry, overlapped>>
    BY <2>1 DEF Wrote
  <2>3. f \in Facts
    BY <2>2 DEF TypeOK
  <2>4. CASE f \in announced
    BY <2>2, <2>4 DEF TypeOK
  <2>5. CASE f \notin announced
    <3>1. entry[f].value # db[f] /\ f \notin overlapped \cup quiet
      BY <2>2, <2>3, <2>5
    <3>2. PICK u \in Writers : f \in pending[u]
      BY <2>2, <3>1 DEF StaleExplained
    <3>3. u # w
      BY <2>2, <3>2
    <3>4. QED
      BY <2>2, <3>2, <3>3 DEF TypeOK
  <2>6. QED
    BY <2>4, <2>5
<1>4. ASSUME NEW w \in Writers, Invalidate(w) \/ GiveUp(w)
      PROVE  \E u \in Writers : f \in pending'[u]
  <2>1. /\ f \in cached /\ f \notin pending[w]
        /\ pending' = [pending EXCEPT ![w] = {}]
    BY <1>4 DEF Invalidate, GiveUp
  <2>2. entry[f].value # db[f] /\ f \notin overlapped \cup quiet
    BY <1>4, <2>1 DEF Invalidate, GiveUp, TypeOK
  <2>3. PICK u \in Writers : f \in pending[u]
    BY <2>1, <2>2 DEF StaleExplained
  <2>4. QED
    BY <2>1, <2>3 DEF TypeOK
<1>5. CASE Restart
  BY <1>5 DEF Restart
<1>6. QED
  BY <1>1, <1>2, <1>3, <1>4, <1>5
     DEF Next, RequestStep, Ask, Get, Query, Load, Fail, Tick, vars

\* An entry is out of date only by an overlapping load, by a write that does
\* not invalidate, or until a writer gets to its invalidate.
THEOREM StaleExplainedCorrect == ASSUME Sound PROVE Spec => []StaleExplained
<1>1. Init => TypeOK /\ StaleExplained
  BY TypeInit DEF Init, InitCaches, StaleExplained
<1>2. TypeOK /\ StaleExplained /\ [Next]_vars => (TypeOK /\ StaleExplained)'
  BY TypeStep, StaleStep
<1>3. QED
  BY <1>1, <1>2, PTL DEF Spec
=============================================================================
