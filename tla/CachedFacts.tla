---------------------------- MODULE CachedFacts ----------------------------
(***************************************************************************)
(* Requests that decide by what the database says, read through the        *)
(* store's ttlCaches.  A request of some kind takes steps: each reads one  *)
(* fact, and its value settles the request or says which step is next.     *)
(* Writers change the rows that the facts are computed from and then       *)
(* invalidate cache entries.  Nothing makes two reads of a request, a      *)
(* query and the set that stores its answer, or a statement and its        *)
(* invalidate, one step.                                                   *)
(*                                                                         *)
(* What the facts are, and which store function changes and invalidates    *)
(* which of them, is left open: MapAccess and ApiKeyAccess say it.         *)
(***************************************************************************)
EXTENDS Integers

CONSTANTS
    Requests,
    Writers,
    Facts,
    Values,
    Missing,      \* the query finds no row: an error, which is never cached
    Kinds,
    Steps,
    Verdicts,
    First(_),     \* kind -> its first step
    FactOf(_),    \* step -> the fact it reads
    Storing,      \* steps that store what they queried
    Then(_, _, _),\* kind, step, value -> the next step, or the verdict
    Ttl,          \* cacheTTL, in units of the clock
    MaxLoad,      \* longest time from a request's query to its set
    MaxTime       \* bound: clock

\* What the theorems assume of the constants.
Sound ==
    /\ Ttl \in Nat /\ MaxLoad \in Nat
    /\ Missing \in Values
    /\ Kinds # {}
    /\ "failed" \in Verdicts
    /\ \A k \in Kinds : First(k) \in Steps
    /\ \A s \in Steps : FactOf(s) \in Facts
    /\ \A k \in Kinds, s \in Steps, v \in Values :
        Then(k, s, v) \in Steps \cup Verdicts

VARIABLES
    now,        \* the clock
    db,         \* fact -> what its query returns
    cached,     \* facts with a cache entry
    entry,      \* fact -> the entry's value and expiry time, when cached
    request,    \* request -> where it is
    pending,    \* writer -> facts it still has to invalidate
    overlapped, \* history: entries set by a load that a change overlapped
    quiet,      \* history: entries whose fact changed and nothing invalidates
    was         \* history: what facts were, and until when

vars == <<now, db, cached, entry, request, pending, overlapped, quiet, was>>

Window == Ttl + MaxLoad

\* A request that is not running; "at" is its verdict.
Settled(verdict) ==
    [at |-> verdict, kind |-> CHOOSE k \in Kinds : TRUE, loading |-> FALSE,
     value |-> Missing, queriedAt |-> 0, started |-> 0]

TypeOK ==
    /\ now \in Nat
    /\ db \in [Facts -> Values]
    /\ cached \in SUBSET Facts
    /\ entry \in [Facts -> [value : Values, expires : Nat]]
    /\ request \in [Requests ->
            [at : Steps \cup Verdicts, kind : Kinds, loading : BOOLEAN,
             value : Values, queriedAt : Nat, started : Nat]]
    /\ pending \in [Writers -> SUBSET Facts]
    /\ overlapped \in SUBSET Facts
    /\ quiet \in SUBSET Facts
    /\ was \in SUBSET [fact : Facts, value : Values, until : Nat]

NoEntry == [value |-> Missing, expires |-> 0]

\* Everything but the rows.
InitCaches ==
    /\ now = 0
    /\ cached = {}
    /\ entry = [f \in Facts |-> NoEntry]
    /\ request = [r \in Requests |-> Settled("failed")]
    /\ pending = [w \in Writers |-> {}]
    /\ overlapped = {}
    /\ quiet = {}
    /\ was = {}

Init ==
    /\ db \in [Facts -> Values]
    /\ InitCaches

-----------------------------------------------------------------------------
\* Requests

Running(r) == request[r].at \in Steps

Ask(r, k) ==
    /\ ~Running(r)
    /\ request' = [request EXCEPT ![r] =
            [Settled(First(k)) EXCEPT !.kind = k, !.started = now]]
    /\ UNCHANGED <<now, db, cached, entry, pending, overlapped, quiet, was>>

\* The fact that r reads next.
Reads(r) == FactOf(request[r].at)

\* get: an expired entry is a miss, and stays where it is.
Hit(f) == f \in cached /\ now <= entry[f].expires

\* r goes on once the step it is at has read v.
Goes(r, v) ==
    LET next == Then(request[r].kind, request[r].at, v) IN
    request' = [request EXCEPT ![r] =
        IF next \in Steps THEN [@ EXCEPT !.at = next, !.loading = FALSE]
        ELSE Settled(next)]

Get(r) ==
    /\ Running(r)
    /\ ~request[r].loading
    /\ Hit(Reads(r))
    /\ Goes(r, entry[Reads(r)].value)
    /\ UNCHANGED <<now, db, cached, entry, pending, overlapped, quiet, was>>

\* A query whose answer is not stored.
Query(r) ==
    /\ Running(r)
    /\ ~request[r].loading
    /\ ~Hit(Reads(r))
    /\ request[r].at \notin Storing \/ db[Reads(r)] = Missing
    /\ Goes(r, db[Reads(r)])
    /\ UNCHANGED <<now, db, cached, entry, pending, overlapped, quiet, was>>

\* A miss, and the query that follows it.
Load(r) ==
    /\ Running(r)
    /\ ~request[r].loading
    /\ ~Hit(Reads(r))
    /\ request[r].at \in Storing
    /\ db[Reads(r)] # Missing
    /\ request' = [request EXCEPT ![r].loading = TRUE,
                                  ![r].value = db[Reads(r)],
                                  ![r].queriedAt = now]
    /\ UNCHANGED <<now, db, cached, entry, pending, overlapped, quiet, was>>

Set(r) ==
    /\ Running(r)
    /\ request[r].loading
    /\ cached' = cached \cup {Reads(r)}
    /\ entry' = [entry EXCEPT ![Reads(r)] =
            [value |-> request[r].value, expires |-> now + Ttl]]
    /\ overlapped' = IF request[r].value = db[Reads(r)]
                     THEN overlapped \ {Reads(r)} ELSE overlapped \cup {Reads(r)}
    /\ quiet' = quiet \ {Reads(r)}
    /\ Goes(r, request[r].value)
    /\ UNCHANGED <<now, db, pending, was>>

\* A query fails, or the client goes away.
Fail(r) ==
    /\ Running(r)
    /\ request' = [request EXCEPT ![r] = Settled("failed")]
    /\ UNCHANGED <<now, db, cached, entry, pending, overlapped, quiet, was>>

RequestStep(r) ==
    \/ \E k \in Kinds : Ask(r, k)
    \/ Get(r)
    \/ Query(r)
    \/ Load(r)
    \/ Set(r)
    \/ Fail(r)

-----------------------------------------------------------------------------
\* Writers

\* What follows for the caches when w's statement has changed the rows: it
\* will invalidate the facts "announced" when it goes on, and may have
\* changed those of "silent" besides.
Wrote(w, announced, silent) ==
    /\ pending[w] = {}
    /\ pending' = [pending EXCEPT ![w] = announced]
    /\ quiet' = quiet \cup {f \in silent \ announced : db'[f] # db[f]}
    /\ was' = was \cup {[fact |-> f, value |-> db[f], until |-> now] :
                        f \in {g \in Facts : db'[g] # db[g]}}
    /\ UNCHANGED <<now, cached, entry, request, overlapped>>

Write(w) ==
    \E announced \in SUBSET Facts :
        db' \in [Facts -> Values] /\ Wrote(w, announced, Facts)

Invalidate(w) ==
    /\ pending[w] # {}
    /\ cached' = cached \ pending[w]
    /\ entry' = [f \in Facts |-> IF f \in pending[w] THEN NoEntry ELSE entry[f]]
    /\ overlapped' = overlapped \ pending[w]
    /\ quiet' = quiet \ pending[w]
    /\ pending' = [pending EXCEPT ![w] = {}]
    /\ UNCHANGED <<now, db, request, was>>

\* The writer returns between its statement and its invalidate.
GiveUp(w) ==
    /\ pending[w] # {}
    /\ quiet' = quiet \cup pending[w]
    /\ pending' = [pending EXCEPT ![w] = {}]
    /\ UNCHANGED <<now, db, cached, entry, request, overlapped, was>>

\* The process is started anew: the caches, the requests and what the
\* writers had left to do are gone.
Restart ==
    /\ cached' = {}
    /\ entry' = [f \in Facts |-> NoEntry]
    /\ request' = [r \in Requests |-> Settled("failed")]
    /\ pending' = [w \in Writers |-> {}]
    /\ overlapped' = {}
    /\ quiet' = {}
    /\ UNCHANGED <<now, db, was>>

\* No request holds a queried value for longer than MaxLoad.
Tick ==
    /\ now < MaxTime
    /\ \A r \in Requests :
        request[r].loading => now < request[r].queriedAt + MaxLoad
    /\ now' = now + 1
    /\ UNCHANGED <<db, cached, entry, request, pending, overlapped, quiet, was>>

Next ==
    \/ \E r \in Requests : RequestStep(r)
    \/ \E w \in Writers :
        \/ Write(w)
        \/ Invalidate(w)
        \/ GiveUp(w)
    \/ Restart
    \/ Tick

Spec == Init /\ [][Next]_vars

-----------------------------------------------------------------------------
\* f had value v at some time of the last d units.
WasWithin(f, v, d) ==
    \/ db[f] = v
    \/ \E x \in was : x.fact = f /\ x.value = v /\ now <= x.until + d

\* Whatever a request learns from a cache was so within the last cacheTTL
\* and one load, whether or not anything invalidates: the ttl starts when
\* the value is stored, up to a load after it was queried.
HitsFresh ==
    \A f \in Facts : Hit(f) => WasWithin(f, entry[f].value, Window)

\* Invalidation loses only against a load in flight: beyond those, and the
\* writes that are known not to invalidate, no entry is out of date once the
\* writers are through.
StaleExplained ==
    \A f \in cached :
        \/ entry[f].value = db[f]
        \/ f \in overlapped \cup quiet
        \/ \E w \in Writers : f \in pending[w]
=============================================================================
