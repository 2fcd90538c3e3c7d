----------------------------- MODULE LoginProofs -----------------------------
(***************************************************************************)
(* SingleUse, AccountsMatch, References and ReplacedUnlessOverlapped for   *)
(* any number of requests, identities, groups and deletes.  The            *)
(* strengthening says what a request in progress knows and may rely on:    *)
(* the account it runs as, the row it has locked, the groups it has found. *)
(***************************************************************************)
EXTENDS Login, TLAPS

States == {"idle"} \cup Running \cup Answered

RequestType ==
    [at : States,
     identity : {"none"} \cup Identities,
     user : {NoName} \cup Names,
     todo : SUBSET Links,
     link : {"none"} \cup Links,
     reported : SUBSET Links,
     found : SUBSET (GroupNames \cup {Gone}),
     before : SUBSET GroupNames,
     token : {"none"} \cup Requests]

TokenType ==
    [state : {"none", "live", "expired", "revoked", "cascaded"},
     user : {NoName} \cup Names,
     parent : {"none"} \cup Requests]

Typed ==
    /\ account \in [Names -> {"nobody", "local"} \cup Identities]
    /\ link \in [GroupNames -> {"none", "unlinked"} \cup Links]
    /\ members \in SUBSET (Names \X GroupNames)
    /\ request \in [Requests -> RequestType]
    /\ token \in [Requests -> TokenType]
    /\ locked \in SUBSET Requests

(***************************************************************************)
(* What a request's stage says of its fields, whatever the database holds. *)
(***************************************************************************)
InGroups == {"groups", "insertGroup", "findAgain", "insertSuffixed", "replace"}

Staged(q, r) ==
    /\ q.at \in {"create", "createSuffixed"} => r \in Logins /\ q.identity \in Identities
    /\ q.at \in {"lookUp", "rotate"} => q.identity = "none" /\ q.token \in Requests
    /\ q.at \in InGroups => r \in Logins
    /\ q.at \in InGroups \cup {"issue"} => q.user \in Names
    /\ q.at \in {"insertGroup", "findAgain", "insertSuffixed"} => q.link \in q.todo
    /\ q.at = "replace" => q.todo = {}

Stages == \A r \in Requests : Staged(request[r], r)

LEMMA NamesApart ==
    /\ NoName \notin Names
    /\ Gone \notin GroupNames
    /\ "none" \notin Requests
  BY DistinctAssumption DEF NoName, Gone, Names, GroupNames, Suffixes, Requests

LEMMA EndedType ==
    ASSUME NEW at \in States
    PROVE  /\ Ended(at) \in RequestType
           /\ Ended(at).at = at /\ Ended(at).identity = "none" /\ Ended(at).user = NoName
           /\ Ended(at).todo = {} /\ Ended(at).link = "none" /\ Ended(at).reported = {}
           /\ Ended(at).found = {} /\ Ended(at).before = {} /\ Ended(at).token = "none"
  BY DEF Ended, RequestType

LEMMA SyncedType ==
    ASSUME Typed, NEW r \in Requests
    PROVE  /\ Synced(r) \in RequestType
           /\ Synced(r).at = "issue" /\ Synced(r).identity = request[r].identity
           /\ Synced(r).user = request[r].user
           /\ Synced(r).todo = {} /\ Synced(r).link = "none" /\ Synced(r).reported = {}
           /\ Synced(r).found = {} /\ Synced(r).before = {} /\ Synced(r).token = "none"
<1>1. request[r] \in RequestType
  BY DEF Typed
<1>2. "issue" \in States
  BY DEF States, Running
<1>3. request[r].identity \in {"none"} \cup Identities /\ request[r].user \in {NoName} \cup Names
  BY <1>1 DEF RequestType
<1> QED
  BY <1>2, <1>3 DEF Synced, Ended, RequestType

LEMMA GoesType ==
    ASSUME Typed, NEW r \in Requests, NEW q, Goes(r, q), q \in RequestType
    PROVE  /\ request' \in [Requests -> RequestType]
           /\ request'[r] = q
           /\ \A p \in Requests \ {r} : request'[p] = request[p]
  BY DEF Typed, Goes

LEMMA NameOfLogin ==
    ASSUME NEW r \in Logins, NEW i \in Identities
    PROVE  Plain(Preferred[i]) \in Names /\ <<Preferred[i], r>> \in Names
  BY DEF Plain, Names, Suffixes

(***************************************************************************)
(* Types and stages: a step of request r gives it a record that fits.      *)
(***************************************************************************)
LEMMA OneMoves ==
    ASSUME Typed, Stages, NEW r \in Requests, NEW q,
           Goes(r, q), q \in RequestType, Staged(q, r)
    PROVE  request' \in [Requests -> RequestType] /\ Stages'
  BY GoesType DEF Stages

LEMMA FindUserMoves ==
    ASSUME Typed, Stages, NEW r \in Logins, LocalLogin(r) \/ FindUser(r)
    PROVE  request' \in [Requests -> RequestType] /\ Stages'
<1>1. ASSUME NEW n \in Names, Goes(r, [Ended("issue") EXCEPT !.user = n])
      PROVE  request' \in [Requests -> RequestType] /\ Stages'
  <2> DEFINE q == [Ended("issue") EXCEPT !.user = n]
  <2>1. q \in RequestType /\ q.at = "issue" /\ q.user \in Names
    BY EndedType DEF States, Running, Ended, RequestType
  <2> HIDE DEF q
  <2> QED
    BY <1>1, <2>1, OneMoves DEF Staged, Requests, InGroups, q
<1>2. ASSUME NEW i \in Identities, NEW reported \in SUBSET Links,
             NEW at \in {"create", "groups"}, NEW n \in {NoName} \cup Names,
             at = "groups" => n \in Names,
             Goes(r, [Ended("create") EXCEPT
                !.identity = i, !.reported = reported, !.todo = reported,
                !.at = at, !.user = n])
      PROVE  request' \in [Requests -> RequestType] /\ Stages'
  <2> DEFINE q == [Ended("create") EXCEPT
                !.identity = i, !.reported = reported, !.todo = reported,
                !.at = at, !.user = n]
  <2>1. q \in RequestType /\ q.at = at /\ q.user = n /\ q.identity = i
    BY DEF States, Running, Ended, RequestType
  <2> HIDE DEF q
  <2> QED
    BY <1>2, <2>1, OneMoves DEF Staged, Requests, InGroups, q
<1>3. CASE LocalLogin(r)
  BY <1>1, <1>3 DEF LocalLogin
<1>4. CASE FindUser(r)
  <2>1. PICK i \in Identities, reported \in Reports :
          LET known == {n \in Names : account[n] = i} IN
          Goes(r, [Ended("create") EXCEPT
                !.identity = i, !.reported = reported, !.todo = reported,
                !.at = IF known = {} THEN "create" ELSE "groups",
                !.user = IF known = {} THEN NoName ELSE CHOOSE n \in known : TRUE])
    BY <1>4 DEF FindUser
  <2> DEFINE known == {n \in Names : account[n] = i}
             at == IF known = {} THEN "create" ELSE "groups"
             user == IF known = {} THEN NoName ELSE CHOOSE n \in known : TRUE
  <2>2. /\ at \in {"create", "groups"} /\ user \in {NoName} \cup Names
        /\ at = "groups" => user \in Names
    <3>1. CASE known = {}
      BY <3>1
    <3>2. CASE known # {}
      <4>1. (CHOOSE n \in known : TRUE) \in known
        BY <3>2
      <4> QED
        BY <3>2, <4>1
    <3> QED
      BY <3>1, <3>2
  <2>3. reported \in SUBSET Links
    BY NamesAssumption
  <2>4. Goes(r, [Ended("create") EXCEPT
                !.identity = i, !.reported = reported, !.todo = reported,
                !.at = at, !.user = user])
    BY <2>1
  <2> HIDE DEF at, user
  <2> QED
    BY <1>2, <2>2, <2>3, <2>4
<1> QED
  BY <1>3, <1>4

LEMMA InsertUserMoves ==
    ASSUME Typed, Stages, NEW r \in Requests, InsertUser(r)
    PROVE  request' \in [Requests -> RequestType] /\ Stages'
           /\ account' \in [Names -> {"nobody", "local"} \cup Identities]
<1> DEFINE name == IF At(r, "create") THEN Plain(Preferred[request[r].identity])
                   ELSE <<Preferred[request[r].identity], r>>
<1>1. request[r] \in RequestType /\ request[r].at \in {"create", "createSuffixed"}
  BY DEF Typed, InsertUser, At
<1>2. r \in Logins /\ request[r].identity \in Identities
  BY <1>1 DEF Stages, Staged
<1>3. name \in Names
  BY <1>2, NameOfLogin
<1> DEFINE made == [request[r] EXCEPT !.at = "groups", !.user = name]
           again == [request[r] EXCEPT !.at = "createSuffixed"]
<1>4. made \in RequestType /\ made.at = "groups" /\ made.user = name
  BY <1>1, <1>3 DEF RequestType, States, Running
<1>5. again \in RequestType /\ again.at = "createSuffixed"
      /\ again.identity = request[r].identity
  BY <1>1 DEF RequestType, States, Running
<1>6. /\ \/ Goes(r, made) \/ Goes(r, again) \/ Goes(r, Ended("failed"))
      /\ \/ account' = [account EXCEPT ![name] = request[r].identity]
         \/ account' = account
  BY DEF InsertUser
<1>7. "failed" \in States
  BY DEF States, Answered
<1> HIDE DEF name, made, again
<1>8. account' \in [Names -> {"nobody", "local"} \cup Identities]
  BY <1>2, <1>3, <1>6 DEF Typed
<1>9. Staged(made, r) /\ Staged(again, r) /\ Staged(Ended("failed"), r)
  BY <1>2, <1>3, <1>4, <1>5, <1>7, EndedType DEF Staged, InGroups
<1> QED
  BY <1>4, <1>5, <1>6, <1>7, <1>8, <1>9, EndedType, OneMoves

LEMMA RecordMoves ==
    ASSUME Typed, Stages, NEW r \in Requests, NEW q \in RequestType, Goes(r, q),
           q.at \in {"done", "refused", "failed", "issue"} \cup InGroups,
           q.at \in InGroups => r \in Logins,
           q.at \in InGroups \cup {"issue"} => q.user \in Names,
           q.at \in {"insertGroup", "findAgain", "insertSuffixed"} => q.link \in q.todo,
           q.at = "replace" => q.todo = {}
    PROVE  request' \in [Requests -> RequestType] /\ Stages'
<1>1. Staged(q, r)
  BY DEF Staged, InGroups
<1> QED
  BY <1>1, OneMoves

LEMMA SyncedMoves ==
    ASSUME Typed, Stages, NEW r \in Requests, Goes(r, Synced(r)),
           request[r].user \in Names
    PROVE  request' \in [Requests -> RequestType] /\ Stages'
  BY SyncedType, RecordMoves DEF InGroups

LEMMA EndedMoves ==
    ASSUME Typed, Stages, NEW r \in Requests, NEW at \in {"refused", "failed"},
           Goes(r, Ended(at))
    PROVE  request' \in [Requests -> RequestType] /\ Stages'
<1>1. at \in States
  BY DEF States, Answered
<1> QED
  BY <1>1, EndedType, RecordMoves DEF InGroups

LEMMA ResolvedMoves ==
    ASSUME Typed, Stages, NEW r \in Requests, NEW l \in Links, NEW g \in GroupNames,
           Resolved(r, l, g), r \in Logins, request[r].user \in Names
    PROVE  /\ request' \in [Requests -> RequestType] /\ Stages'
           /\ request'[r].at = "groups" /\ request'[r].identity = request[r].identity
           /\ request'[r].user = request[r].user
           /\ request'[r].reported = request[r].reported
           /\ request'[r].todo = request[r].todo \ {l}
           /\ request'[r].found = request[r].found \cup {g}
<1> DEFINE q == [request[r] EXCEPT !.at = "groups", !.link = "none",
                               !.todo = @ \ {l}, !.found = @ \cup {g}]
<1>1. request[r] \in RequestType
  BY DEF Typed
<1>2. /\ q \in RequestType
      /\ q.at = "groups" /\ q.identity = request[r].identity
      /\ q.user = request[r].user /\ q.reported = request[r].reported
      /\ q.todo = request[r].todo \ {l} /\ q.found = request[r].found \cup {g}
  BY <1>1 DEF RequestType, States, Running
<1>3. Goes(r, q)
  BY DEF Resolved
<1> HIDE DEF q
<1>4. request' \in [Requests -> RequestType] /\ Stages'
  BY <1>2, <1>3, RecordMoves DEF InGroups
<1>5. request'[r] = q
  BY <1>2, <1>3, GoesType
<1> QED
  BY <1>2, <1>4, <1>5

LEMMA GroupMoves ==
    ASSUME Typed, Stages, NEW r \in Requests, FindGroup(r) \/ FindGroupAgain(r)
    PROVE  request' \in [Requests -> RequestType] /\ Stages'
<1>1. request[r] \in RequestType
  BY DEF Typed
<1>2. CASE FindGroup(r)
  <2>1. request[r].user \in Names /\ r \in Logins
    BY <1>2 DEF FindGroup, At, Stages, Staged, InGroups
  <2>2. PICK l \in request[r].todo :
          IF Linked(l) = {}
          THEN Goes(r, [request[r] EXCEPT !.at = "insertGroup", !.link = l])
          ELSE Resolved(r, l, CHOOSE g \in Linked(l) : TRUE)
    BY <1>2 DEF FindGroup
  <2>3. l \in Links
    BY <1>1 DEF RequestType
  <2>4. CASE Linked(l) = {}
    <3> DEFINE q == [request[r] EXCEPT !.at = "insertGroup", !.link = l]
    <3>1. q \in RequestType /\ q.at = "insertGroup" /\ q.user = request[r].user
          /\ q.link = l /\ q.todo = request[r].todo
      BY <1>1, <2>3 DEF RequestType, States, Running
    <3>2. Goes(r, q)
      BY <2>2, <2>4
    <3> HIDE DEF q
    <3> QED
      BY <2>1, <3>1, <3>2, RecordMoves DEF InGroups
  <2>5. CASE Linked(l) # {}
    <3>1. (CHOOSE g \in Linked(l) : TRUE) \in GroupNames
      BY <2>5 DEF Linked
    <3> QED
      BY <2>1, <2>2, <2>3, <2>5, <3>1, ResolvedMoves
  <2> QED
    BY <2>4, <2>5
<1>3. CASE FindGroupAgain(r)
  <2>1. request[r].user \in Names /\ r \in Logins
        /\ request[r].link \in request[r].todo
    BY <1>3 DEF FindGroupAgain, At, Stages, Staged, InGroups
  <2>2. request[r].link \in Links
    BY <1>1, <2>1 DEF RequestType
  <2>3. CASE Linked(request[r].link) = {}
    <3> DEFINE q == [request[r] EXCEPT !.at = "insertSuffixed"]
    <3>1. q \in RequestType /\ q.at = "insertSuffixed" /\ q.user = request[r].user
          /\ q.link = request[r].link /\ q.todo = request[r].todo
      BY <1>1 DEF RequestType, States, Running
    <3>2. Goes(r, q)
      BY <1>3, <2>3 DEF FindGroupAgain
    <3> HIDE DEF q
    <3> QED
      BY <2>1, <3>1, <3>2, RecordMoves DEF InGroups
  <2>4. CASE Linked(request[r].link) # {}
    <3>1. (CHOOSE g \in Linked(request[r].link) : TRUE) \in GroupNames
      BY <2>4 DEF Linked
    <3> QED
      BY <1>3, <2>1, <2>2, <2>4, <3>1, ResolvedMoves DEF FindGroupAgain
  <2> QED
    BY <2>3, <2>4
<1> QED
  BY <1>2, <1>3

LEMMA NameOfGroup ==
    ASSUME NEW r \in Logins, NEW l \in Links
    PROVE  Plain(Display[l]) \in GroupNames /\ <<Display[l], r>> \in GroupNames
  BY DEF Plain, GroupNames, Suffixes

LEMMA InsertGroupMoves ==
    ASSUME Typed, Stages, NEW r \in Requests, InsertGroup(r)
    PROVE  /\ request' \in [Requests -> RequestType] /\ Stages'
           /\ link' \in [GroupNames -> {"none", "unlinked"} \cup Links]
           /\ \/ \E l \in request[r].todo, name \in GroupNames :
                    /\ link[name] = "none" /\ link' = [link EXCEPT ![name] = l]
                    /\ Resolved(r, l, name)
              \/ link' = link /\ (Goes(r, Synced(r))
                                 \/ Goes(r, [request[r] EXCEPT !.at = "findAgain"]))
<1> DEFINE l == request[r].link
           name == IF At(r, "insertGroup") THEN Plain(Display[l]) ELSE <<Display[l], r>>
<1>1. /\ request[r] \in RequestType /\ r \in Logins /\ l \in request[r].todo
      /\ request[r].user \in Names
  BY DEF Typed, Stages, Staged, InsertGroup, At, InGroups
<1>2. l \in Links
  BY <1>1 DEF RequestType
<1>3. name \in GroupNames
  BY <1>1, <1>2, NameOfGroup
<1>4. \/ link[name] = "none" /\ link' = [link EXCEPT ![name] = l] /\ Resolved(r, l, name)
      \/ link' = link /\ (Goes(r, Synced(r))
                         \/ Goes(r, [request[r] EXCEPT !.at = "findAgain"]))
  BY DEF InsertGroup
<1> HIDE DEF name, l
<1>5. CASE Resolved(r, l, name) /\ link' = [link EXCEPT ![name] = l] /\ link[name] = "none"
  <2>1. link' \in [GroupNames -> {"none", "unlinked"} \cup Links]
    BY <1>2, <1>3, <1>5 DEF Typed
  <2> QED
    BY <1>1, <1>2, <1>3, <1>5, <2>1, ResolvedMoves
<1>6. CASE link' = link /\ Goes(r, Synced(r))
  BY <1>1, <1>6, SyncedMoves DEF Typed
<1>7. CASE link' = link /\ Goes(r, [request[r] EXCEPT !.at = "findAgain"])
  <2> DEFINE q == [request[r] EXCEPT !.at = "findAgain"]
  <2>1. q \in RequestType /\ q.at = "findAgain" /\ q.user = request[r].user
        /\ q.link = l /\ q.todo = request[r].todo
    BY <1>1 DEF RequestType, States, Running, l
  <2>2. Goes(r, q)
    BY <1>7
  <2> HIDE DEF q
  <2> QED
    BY <1>1, <1>7, <2>1, <2>2, RecordMoves DEF InGroups, Typed
<1> QED
  BY <1>4, <1>5, <1>6, <1>7

LEMMA DeleteMembershipsMoves ==
    ASSUME Typed, Stages, NEW r \in Requests, DeleteMemberships(r)
    PROVE  /\ request' \in [Requests -> RequestType] /\ Stages'
           /\ request'[r] = [request[r] EXCEPT !.at = "replace",
                                               !.before = GroupsOf(request[r].user)]
<1> DEFINE q == [request[r] EXCEPT !.at = "replace", !.before = GroupsOf(request[r].user)]
<1>1. request[r] \in RequestType /\ request[r].user \in Names /\ r \in Logins
      /\ request[r].todo = {}
  BY DEF Typed, Stages, Staged, DeleteMemberships, At, InGroups
<1>2. GroupsOf(request[r].user) \in SUBSET GroupNames
  BY DEF GroupsOf
<1>3. q \in RequestType /\ q.at = "replace" /\ q.user = request[r].user
      /\ q.todo = request[r].todo
  BY <1>1, <1>2 DEF RequestType, States, Running
<1>4. Goes(r, q)
  BY DEF DeleteMemberships
<1> HIDE DEF q
<1>5. request'[r] = q
  BY <1>3, <1>4, GoesType
<1>6. request' \in [Requests -> RequestType] /\ Stages'
  BY <1>1, <1>3, <1>4, RecordMoves DEF InGroups
<1> QED
  BY <1>5, <1>6 DEF q

\* Other requests forget rows that are gone: nothing else of them changes.
LEMMA InsertMembershipsMoves ==
    ASSUME Typed, Stages, NEW r \in Requests, InsertMemberships(r)
    PROVE  /\ request' \in [Requests -> RequestType] /\ Stages'
           /\ request'[r] = Synced(r)
           /\ \A p \in Requests \ {r} :
                \E old \in SUBSET GroupNames :
                    request'[p] = [request[p] EXCEPT !.before = old]
<1>1. request[r].user \in Names /\ request[r] \in RequestType
  BY DEF Typed, Stages, Staged, InsertMemberships, At, InGroups
<1>2. request'[r] = Synced(r)
  BY DEF InsertMemberships
<1>3. ASSUME NEW p \in Requests \ {r}
      PROVE  \E old \in SUBSET GroupNames :
                request'[p] = [request[p] EXCEPT !.before = old]
  <2>1. request[p] \in RequestType
    BY DEF Typed
  <2>2. request[p] = [request[p] EXCEPT !.before = request[p].before]
    BY <2>1 DEF RequestType
  <2>3. \/ request'[p] = request[p]
        \/ request'[p] = [request[p] EXCEPT !.before = @ \ request[r].before]
    BY DEF InsertMemberships
  <2>4. request[p].before \in SUBSET GroupNames
    BY <2>1 DEF RequestType
  <2>5. request[p].before \ request[r].before \in SUBSET GroupNames
    BY <2>4
  <2> QED
    BY <2>2, <2>3, <2>4, <2>5
<1>4. ASSUME NEW p \in Requests \ {r}
      PROVE  request'[p] \in RequestType /\ Staged(request'[p], p)
  <2>1. PICK old \in SUBSET GroupNames : request'[p] = [request[p] EXCEPT !.before = old]
    BY <1>3
  <2>2. request[p] \in RequestType
    BY DEF Typed
  <2> DEFINE q == [request[p] EXCEPT !.before = old]
  <2>3. q \in RequestType /\ q.at = request[p].at /\ q.identity = request[p].identity
        /\ q.user = request[p].user /\ q.link = request[p].link
        /\ q.todo = request[p].todo /\ q.token = request[p].token
    BY <2>2 DEF RequestType
  <2> HIDE DEF q
  <2>4. Staged(q, p)
    BY <2>3 DEF Stages, Staged
  <2> QED
    BY <2>1, <2>3, <2>4 DEF q
<1>5. Synced(r) \in RequestType /\ Staged(Synced(r), r)
  BY <1>1, SyncedType DEF Staged, InGroups
<1>6. request' \in [Requests -> RequestType]
  <2>1. \A p \in Requests : request'[p] \in RequestType
    BY <1>2, <1>4, <1>5
  <2>2. DOMAIN request' = Requests /\ request' = [p \in Requests |-> request'[p]]
    BY DEF InsertMemberships
  <2> QED
    BY <2>1, <2>2
<1>7. Stages'
  BY <1>2, <1>4, <1>5 DEF Stages
<1> QED
  BY <1>2, <1>3, <1>6, <1>7

(***************************************************************************)
(* The strengthening.                                                      *)
(***************************************************************************)
\* A request that rotates a token has its row, alone; a token is a request's
\* that is done.
Tokens ==
    /\ \A r \in Requests : request[r].at = "rotate" =>
            LET t == request[r].token IN
            /\ t \in locked
            /\ token[t].state \in {"live", "expired"}
            /\ token[t].user = request[r].user
    /\ \A p, r \in Requests :
            request[p].at = "rotate" /\ request[r].at = "rotate"
            /\ request[p].token = request[r].token => p = r
    /\ \A r \in Requests :
            IF token[r].state = "none" THEN token[r] = NoToken
            ELSE request[r].at = "done" /\ token[r].user \in Names

Searching == {"create", "createSuffixed"} \cup InGroups

\* The groups a login has found are there, or were when it found them, and
\* are those of the links that it has resolved.
Groups ==
    \A r \in Requests : request[r].at \in Searching =>
        LET q == request[r] IN
        /\ q.todo \subseteq q.reported
        /\ \A g \in q.found \ {Gone} : link[g] \in q.reported
        /\ \/ Gone \in q.found
           \/ \A l \in q.reported \ q.todo : \E g \in q.found : link[g] = l

IInv == Typed /\ Stages /\ AccountsMatch /\ Tokens /\ SingleUse /\ References /\ Groups

(***************************************************************************)
(* Most steps of a request make no claim about the database that it did    *)
(* not make before.                                                        *)
(***************************************************************************)
Quiet(q, s) ==
    /\ \/ s.identity = "none" \/ s.user = NoName
       \/ s.identity = q.identity /\ s.user = q.user
    /\ s.at = "rotate" => q.at = "rotate" /\ s.token = q.token /\ s.user = q.user
    /\ q.at = "done" => s.at = "done"
    /\ s.at \in Searching =>
            /\ q.at \in Searching
            /\ s.found = q.found /\ s.reported = q.reported /\ s.todo = q.todo

AllQuiet == \A p \in Requests : Quiet(request[p], request'[p])

LEMMA QuietAlone ==
    ASSUME Typed, NEW r \in Requests, NEW q \in RequestType, Goes(r, q),
           Quiet(request[r], q)
    PROVE  AllQuiet
<1>1. request'[r] = q /\ \A p \in Requests \ {r} : request'[p] = request[p]
  BY GoesType
<1> QED
  BY <1>1 DEF AllQuiet, Quiet

LEMMA QuietSynced ==
    ASSUME Typed, Stages, NEW r \in Requests, Goes(r, Synced(r)),
           request[r].at \in InGroups
    PROVE  request' \in [Requests -> RequestType] /\ Stages' /\ AllQuiet
<1>1. request[r].user \in Names
  BY DEF Stages, Staged
<1>2. Quiet(request[r], Synced(r))
  BY SyncedType DEF Quiet, Searching, InGroups
<1> QED
  BY <1>1, <1>2, SyncedType, SyncedMoves, QuietAlone

LEMMA QuietEnded ==
    ASSUME Typed, Stages, NEW r \in Requests, NEW at \in {"refused", "failed"},
           Goes(r, Ended(at)), request[r].at \in Running
    PROVE  request' \in [Requests -> RequestType] /\ Stages' /\ AllQuiet
<1>1. at \in States
  BY DEF States, Answered
<1>2. Quiet(request[r], Ended(at))
  BY <1>1, EndedType DEF Quiet, Searching, InGroups, Running
<1> QED
  BY <1>1, <1>2, EndedType, EndedMoves, QuietAlone

LEMMA QuietDone ==
    ASSUME Typed, Stages, NEW r \in Requests,
           Goes(r, [request[r] EXCEPT !.at = "done"])
    PROVE  request' \in [Requests -> RequestType] /\ Stages' /\ AllQuiet
           /\ request'[r].at = "done"
<1> DEFINE q == [request[r] EXCEPT !.at = "done"]
<1>1. q \in RequestType /\ q.at = "done" /\ q.identity = request[r].identity
      /\ q.user = request[r].user
  BY DEF Typed, RequestType, States, Answered
<1>2. Quiet(request[r], q)
  BY <1>1 DEF Quiet, Searching, InGroups
<1>3. Goes(r, q)
  OBVIOUS
<1> HIDE DEF q
<1>4. request' \in [Requests -> RequestType] /\ Stages'
  BY <1>1, <1>3, RecordMoves DEF InGroups
<1>5. request'[r] = q
  BY <1>1, <1>3, GoesType
<1> QED
  BY <1>1, <1>2, <1>3, <1>4, <1>5, QuietAlone

LEMMA QuietKeeps ==
    ASSUME IInv, AllQuiet, Typed', Stages',
           UNCHANGED <<account, link, members, token, deleted>>,
           \A p \in Requests :
                request[p].at = "rotate" /\ request'[p].at = "rotate" =>
                    request[p].token \in locked'
    PROVE  IInv'
<1>1. AccountsMatch'
  BY DEF IInv, AccountsMatch, AllQuiet, Quiet
<1>2. Tokens'
  BY DEF IInv, Tokens, AllQuiet, Quiet
<1>3. SingleUse' /\ References'
  BY DEF IInv, SingleUse, References
<1>4. Groups'
  BY DEF IInv, Groups, AllQuiet, Quiet
<1> QED
  BY <1>1, <1>2, <1>3, <1>4 DEF IInv


(***************************************************************************)
(* One lemma per action: it keeps the strengthening.                       *)
(***************************************************************************)
\* A step that gives r a record of a login that has found no group yet.
LEMMA LoginStarts ==
    ASSUME IInv, NEW r \in Logins, LocalLogin(r) \/ FindUser(r)
    PROVE  IInv'
<1> USE DEF IInv
<1>1. request' \in [Requests -> RequestType] /\ Stages'
  BY FindUserMoves
<1>2. r \in Requests /\ request[r].at = "idle"
  BY DEF Requests, LocalLogin, FindUser, At
<1>3. UNCHANGED <<account, link, members, token, locked, deleted>>
  BY DEF LocalLogin, FindUser, db
<1>4. \A p \in Requests \ {r} : request'[p] = request[p]
  BY DEF LocalLogin, FindUser, Goes, Typed
<1>5. /\ request'[r].at \in {"create", "groups", "issue"}
      /\ request'[r].identity # "none" /\ request'[r].user # NoName =>
            account[request'[r].user] = request'[r].identity
      /\ request'[r].found = {} /\ request'[r].todo = request'[r].reported
  <2>1. CASE LocalLogin(r)
    <3>1. PICK n \in Names : Goes(r, [Ended("issue") EXCEPT !.user = n])
      BY <2>1 DEF LocalLogin
    <3>2. request'[r] = [Ended("issue") EXCEPT !.user = n]
      BY <1>2, <3>1 DEF Goes, Typed
    <3> QED
      BY <3>2 DEF Ended
  <2>2. CASE FindUser(r)
    <3>1. PICK i \in Identities, reported \in Reports :
            LET known == {n \in Names : account[n] = i} IN
            Goes(r, [Ended("create") EXCEPT
                !.identity = i, !.reported = reported, !.todo = reported,
                !.at = IF known = {} THEN "create" ELSE "groups",
                !.user = IF known = {} THEN NoName ELSE CHOOSE n \in known : TRUE])
      BY <2>2 DEF FindUser
    <3> DEFINE known == {n \in Names : account[n] = i}
               at == IF known = {} THEN "create" ELSE "groups"
               user == IF known = {} THEN NoName ELSE CHOOSE n \in known : TRUE
    <3>2. at \in {"create", "groups"} /\ (user # NoName => account[user] = i)
      <4>1. CASE known = {}
        BY <4>1
      <4>2. CASE known # {}
        <5>1. (CHOOSE n \in known : TRUE) \in known
          BY <4>2
        <5> QED
          BY <4>2, <5>1
      <4> QED
        BY <4>1, <4>2
    <3>3. request'[r] = [Ended("create") EXCEPT
                !.identity = i, !.reported = reported, !.todo = reported,
                !.at = at, !.user = user]
      BY <1>2, <3>1 DEF Goes, Typed
    <3> HIDE DEF at, user
    <3>4. /\ request'[r].at = at /\ request'[r].identity = i /\ request'[r].user = user
          /\ request'[r].found = {} /\ request'[r].todo = reported
          /\ request'[r].reported = reported
      BY <3>3 DEF Ended
    <3> QED
      BY <3>2, <3>4
  <2> QED
    BY <2>1, <2>2
<1>6. Typed'
  BY <1>1, <1>3 DEF Typed
<1>7. AccountsMatch'
  BY <1>3, <1>4, <1>5 DEF AccountsMatch
<1>8. Tokens'
  BY <1>2, <1>3, <1>4, <1>5 DEF Tokens
<1>9. SingleUse' /\ References'
  BY <1>3 DEF SingleUse, References
<1>10. Groups'
  BY <1>3, <1>4, <1>5 DEF Groups, Searching, InGroups
<1> QED
  BY <1>1, <1>6, <1>7, <1>8, <1>9, <1>10

LEMMA InsertUserKeeps ==
    ASSUME IInv, NEW r \in Requests, InsertUser(r)
    PROVE  IInv'
<1> USE DEF IInv
<1> DEFINE name == IF At(r, "create") THEN Plain(Preferred[request[r].identity])
                   ELSE <<Preferred[request[r].identity], r>>
           i == request[r].identity
<1>1. /\ request' \in [Requests -> RequestType] /\ Stages'
      /\ account' \in [Names -> {"nobody", "local"} \cup Identities]
  BY InsertUserMoves
<1>2. request[r] \in RequestType /\ request[r].at \in {"create", "createSuffixed"}
  BY DEF Typed, InsertUser, At
<1>3. r \in Logins /\ i \in Identities /\ name \in Names
  BY <1>2, NameOfLogin DEF Stages, Staged
<1>4. UNCHANGED <<link, members, token, locked, deleted>>
  BY DEF InsertUser
<1>5. Typed'
  BY <1>1, <1>4 DEF Typed
<1> DEFINE made == [request[r] EXCEPT !.at = "groups", !.user = name]
           again == [request[r] EXCEPT !.at = "createSuffixed"]
<1>6. \/ CanInsert(name, i) /\ account' = [account EXCEPT ![name] = i] /\ Goes(r, made)
      \/ account' = account /\ (Goes(r, again) \/ Goes(r, Ended("failed")))
  BY DEF InsertUser
<1>7. /\ again \in RequestType /\ again.at = "createSuffixed" /\ again.identity = i
      /\ again.user = request[r].user
      /\ made \in RequestType /\ made.at = "groups" /\ made.user = name
      /\ made.identity = i /\ made.found = request[r].found
      /\ made.todo = request[r].todo /\ made.reported = request[r].reported
      /\ again.found = request[r].found
      /\ again.todo = request[r].todo /\ again.reported = request[r].reported
  BY <1>2, <1>3 DEF RequestType, States, Running
<1> HIDE DEF name, i, made, again
<1>8. CASE CanInsert(name, i) /\ account' = [account EXCEPT ![name] = i] /\ Goes(r, made)
  <2>1. request'[r] = made /\ \A p \in Requests \ {r} : request'[p] = request[p]
    BY <1>7, <1>8, GoesType
  <2>2. /\ account[name] = "nobody" /\ \A n \in Names : account[n] # i
        /\ account'[name] = i /\ \A n \in Names \ {name} : account'[n] = account[n]
    BY <1>3, <1>8 DEF CanInsert, Typed
  <2>3. i # "nobody" /\ i # "local"
    BY <1>3, DistinctAssumption
  <2>4. AccountsMatch'
    <3>1. \A m, n \in Names : account'[m] = account'[n] /\ account'[m] \in Identities => m = n
      BY <2>2 DEF AccountsMatch
    <3>2. ASSUME NEW p \in Requests, request'[p].identity # "none",
                 request'[p].user # NoName, request'[p].user \notin deleted
          PROVE  account'[request'[p].user] = request'[p].identity
      <4>1. CASE p = r
        BY <1>7, <2>1, <2>2, <4>1
      <4>2. CASE p # r
        <5>1. account[request[p].user] = request[p].identity /\ request'[p] = request[p]
          BY <2>1, <3>2, <4>2 DEF AccountsMatch
        <5>2. request[p].user \in Names /\ request[p].identity \in Identities
          BY <3>2, <5>1 DEF Typed, RequestType
        <5>3. request[p].user # name
          BY <2>2, <5>1, <5>2, DistinctAssumption
        <5> QED
          BY <2>2, <5>1, <5>2, <5>3
      <4> QED
        BY <4>1, <4>2
    <3> QED
      BY <1>4, <3>1, <3>2 DEF AccountsMatch
  <2>5. Tokens'
    BY <1>2, <1>4, <1>7, <2>1 DEF Tokens
  <2>6. SingleUse'
    BY <1>4 DEF SingleUse
  <2>7. References'
    <3>1. \A n \in Names : account[n] # "nobody" => account'[n] # "nobody"
      BY <2>2, <2>3
    <3>2. \A t \in Requests : token[t].state \in {"live", "expired", "revoked"} =>
            token[t].user \in Names
      BY DEF Tokens
    <3>3. \A m \in members : m[1] \in Names
      BY DEF Typed
    <3> QED
      BY <1>4, <3>1, <3>2, <3>3 DEF References
  <2>8. Groups'
    BY <1>2, <1>4, <1>7, <2>1 DEF Groups, Searching
  <2> QED
    BY <1>1, <1>5, <2>4, <2>5, <2>6, <2>7, <2>8
<1>9. CASE account' = account /\ Goes(r, again)
  <2>1. Quiet(request[r], again)
    BY <1>2, <1>7 DEF Quiet, Searching, InGroups, i
  <2>2. AllQuiet
    BY <1>7, <1>9, <2>1, QuietAlone
  <2> QED
    BY <1>1, <1>4, <1>5, <1>9, <2>2, QuietKeeps DEF Tokens
<1>10. CASE account' = account /\ Goes(r, Ended("failed"))
  <2>1. AllQuiet
    BY <1>2, <1>10, QuietEnded DEF Running
  <2> QED
    BY <1>1, <1>4, <1>5, <1>10, <2>1, QuietKeeps DEF Tokens
<1> QED
  BY <1>6, <1>8, <1>9, <1>10

\* A link of r resolves to a group that is linked to it: one that was there,
\* or one that the step makes.
LEMMA ResolvedKeeps ==
    ASSUME IInv, NEW r \in Requests, NEW l \in request[r].todo, NEW g \in GroupNames,
           Resolved(r, l, g), request[r].at \in InGroups,
           \/ link' = link /\ link[g] = l
           \/ link' = [link EXCEPT ![g] = l] /\ link[g] = "none",
           UNCHANGED <<account, members, token, locked, deleted>>
    PROVE  IInv'
<1> USE DEF IInv
<1>1. request[r] \in RequestType /\ r \in Logins /\ request[r].user \in Names
  BY DEF Typed, Stages, Staged, InGroups
<1>2. l \in Links
  BY <1>1 DEF RequestType
<1>3. /\ request' \in [Requests -> RequestType] /\ Stages'
      /\ request'[r].at = "groups" /\ request'[r].identity = request[r].identity
      /\ request'[r].user = request[r].user
      /\ request'[r].reported = request[r].reported
      /\ request'[r].todo = request[r].todo \ {l}
      /\ request'[r].found = request[r].found \cup {g}
  BY <1>1, <1>2, ResolvedMoves
<1>4. \A p \in Requests \ {r} : request'[p] = request[p]
  BY DEF Resolved, Goes, Typed
<1>5. link' \in [GroupNames -> {"none", "unlinked"} \cup Links]
  BY <1>2 DEF Typed
<1>6. Typed'
  BY <1>3, <1>5 DEF Typed
<1>7. AccountsMatch'
  BY <1>3, <1>4 DEF AccountsMatch
<1>8. Tokens'
  BY <1>3, <1>4 DEF Tokens, InGroups
<1>9. l # "none" /\ link'[g] = l
      /\ \A h \in GroupNames : link[h] # "none" => link'[h] = link[h]
  BY <1>2, DistinctAssumption DEF Typed
<1>10. SingleUse' /\ References'
  <2>1. \A m \in members : m[2] \in GroupNames
    BY DEF Typed
  <2> QED
    BY <1>9, <2>1 DEF SingleUse, References
<1>11. ASSUME NEW p \in Requests, request[p].at \in Searching
       PROVE  /\ \A h \in request[p].found \ {Gone} :
                    link'[h] = link[h] /\ link[h] \in request[p].reported
              /\ \A h \in request[p].found, k \in Links :
                    link[h] = k /\ h # Gone => link'[h] = k
  <2>1. request[p] \in RequestType
    BY DEF Typed
  <2>2. request[p].found \subseteq GroupNames \cup {Gone}
        /\ request[p].reported \subseteq Links
    BY <2>1 DEF RequestType
  <2>3. \A h \in request[p].found \ {Gone} : link[h] \in request[p].reported
    BY <1>11 DEF Groups
  <2> QED
    BY <1>9, <2>2, <2>3, DistinctAssumption
<1>12. ASSUME NEW p \in Requests \ {r}, request[p].at \in Searching
       PROVE  LET q == request[p] IN
              /\ q.todo \subseteq q.reported
              /\ \A h \in q.found \ {Gone} : link'[h] \in q.reported
              /\ \/ Gone \in q.found
                 \/ \A k \in q.reported \ q.todo : \E h \in q.found : link'[h] = k
  <2>1. request[p].todo \subseteq request[p].reported
        /\ \/ Gone \in request[p].found
           \/ \A k \in request[p].reported \ request[p].todo :
                \E h \in request[p].found : link[h] = k
    BY <1>12 DEF Groups
  <2> QED
    BY <1>11, <1>12, <2>1
<1>13. LET q == request[r] IN
       /\ q.todo \subseteq q.reported
       /\ \A h \in q.found \ {Gone} : link'[h] \in q.reported
       /\ \/ Gone \in q.found
          \/ \A k \in q.reported \ (q.todo \ {l}) : \E h \in q.found \cup {g} : link'[h] = k
  <2>1. request[r].at \in Searching
    BY DEF Searching
  <2>2. request[r].todo \subseteq request[r].reported
        /\ \/ Gone \in request[r].found
           \/ \A k \in request[r].reported \ request[r].todo :
                \E h \in request[r].found : link[h] = k
    BY <2>1 DEF Groups
  <2>3. \A h \in request[r].found \ {Gone} :
            link'[h] = link[h] /\ link[h] \in request[r].reported
    BY <1>11, <2>1
  <2> QED
    BY <1>9, <2>2, <2>3
<1>14. Groups'
  <2>1. ASSUME NEW p \in Requests, request'[p].at \in Searching
        PROVE  LET q == request'[p] IN
               /\ q.todo \subseteq q.reported
               /\ \A h \in q.found \ {Gone} : link'[h] \in q.reported
               /\ \/ Gone \in q.found
                  \/ \A k \in q.reported \ q.todo : \E h \in q.found : link'[h] = k
    <3>1. CASE p # r
      BY <1>4, <1>12, <2>1, <3>1
    <3>2. CASE p = r
      <4>1. \A h \in (request[r].found \cup {g}) \ {Gone} : link'[h] \in request[r].reported
        BY <1>9, <1>13
      <4>2. request[r].todo \ {l} \subseteq request[r].reported
        BY <1>13
      <4>3. \/ Gone \in request[r].found \cup {g}
            \/ \A k \in request[r].reported \ (request[r].todo \ {l}) :
                    \E h \in request[r].found \cup {g} : link'[h] = k
        BY <1>13
      <4> QED
        BY <1>3, <3>2, <4>1, <4>2, <4>3
    <3> QED
      BY <3>1, <3>2
  <2> QED
    BY <2>1 DEF Groups
<1> QED
  BY <1>3, <1>6, <1>7, <1>8, <1>10, <1>14

\* A step within the groups' part that moves on without a group.
LEMMA QuietInGroups ==
    ASSUME IInv, NEW r \in Requests, NEW q \in RequestType, Goes(r, q), Stages',
           request[r].at \in InGroups, q.at \in InGroups,
           q.identity = request[r].identity, q.user = request[r].user,
           q.found = request[r].found, q.todo = request[r].todo,
           q.reported = request[r].reported,
           UNCHANGED <<account, link, members, token, locked, deleted>>
    PROVE  IInv'
<1>1. Quiet(request[r], q)
  BY DEF Quiet, InGroups, Searching
<1>2. AllQuiet
  BY <1>1, QuietAlone DEF IInv
<1>3. Typed'
  BY GoesType DEF IInv, Typed
<1> QED
  BY <1>2, <1>3, QuietKeeps DEF IInv, Tokens

LEMMA FindGroupKeeps ==
    ASSUME IInv, NEW r \in Requests, FindGroup(r) \/ FindGroupAgain(r)
    PROVE  IInv'
<1> USE DEF IInv
<1>1. request[r] \in RequestType
  BY DEF Typed
<1>2. request' \in [Requests -> RequestType] /\ Stages'
  BY GroupMoves
<1>3. UNCHANGED <<account, link, members, token, locked, deleted>>
  BY DEF FindGroup, FindGroupAgain, db
<1>4. request[r].at \in {"groups", "findAgain"}
  BY DEF FindGroup, FindGroupAgain, At
<1>5. \/ \E l \in request[r].todo : 
            \/ Linked(l) = {} /\ Goes(r, [request[r] EXCEPT !.at = "insertGroup", !.link = l])
            \/ Linked(l) # {} /\ Resolved(r, l, CHOOSE g \in Linked(l) : TRUE)
      \/ Goes(r, [request[r] EXCEPT !.at = "insertSuffixed"])
  <2>1. CASE FindGroup(r)
    BY <2>1 DEF FindGroup
  <2>2. CASE FindGroupAgain(r)
    <3>1. request[r].link \in request[r].todo
      BY <2>2 DEF FindGroupAgain, At, Stages, Staged
    <3>2. CASE Linked(request[r].link) = {}
      BY <2>2, <3>2 DEF FindGroupAgain
    <3>3. CASE Linked(request[r].link) # {}
      BY <2>2, <3>1, <3>3 DEF FindGroupAgain
    <3> QED
      BY <3>2, <3>3
  <2> QED
    BY <2>1, <2>2
<1>6. ASSUME NEW l \in request[r].todo, Linked(l) # {},
             Resolved(r, l, CHOOSE g \in Linked(l) : TRUE)
      PROVE  IInv'
  <2> DEFINE g == CHOOSE h \in Linked(l) : TRUE
  <2>1. g \in Linked(l)
    BY <1>6
  <2>2. Resolved(r, l, g)
    BY <1>6
  <2>3. g \in GroupNames /\ link[g] = l
    BY <2>1 DEF Linked
  <2> HIDE DEF g
  <2>4. request[r].at \in InGroups
    BY <1>4 DEF InGroups
  <2> QED
    BY <1>3, <2>2, <2>3, <2>4, ResolvedKeeps
<1>7. ASSUME NEW l \in request[r].todo,
             Goes(r, [request[r] EXCEPT !.at = "insertGroup", !.link = l])
      PROVE  IInv'
  <2> DEFINE q == [request[r] EXCEPT !.at = "insertGroup", !.link = l]
  <2>1. l \in Links
    BY <1>1 DEF RequestType
  <2>2. q \in RequestType /\ q.at = "insertGroup" /\ q.identity = request[r].identity
        /\ q.user = request[r].user /\ q.found = request[r].found
        /\ q.todo = request[r].todo /\ q.reported = request[r].reported
    BY <1>1, <2>1 DEF RequestType, States, Running
  <2>3. Goes(r, q)
    BY <1>7
  <2> HIDE DEF q
  <2> QED
    BY <1>2, <1>3, <1>4, <2>2, <2>3, QuietInGroups DEF InGroups
<1>8. ASSUME Goes(r, [request[r] EXCEPT !.at = "insertSuffixed"])
      PROVE  IInv'
  <2> DEFINE q == [request[r] EXCEPT !.at = "insertSuffixed"]
  <2>1. q \in RequestType /\ q.at = "insertSuffixed" /\ q.identity = request[r].identity
        /\ q.user = request[r].user /\ q.found = request[r].found
        /\ q.todo = request[r].todo /\ q.reported = request[r].reported
    BY <1>1 DEF RequestType, States, Running
  <2>2. Goes(r, q)
    BY <1>8
  <2> HIDE DEF q
  <2> QED
    BY <1>2, <1>3, <1>4, <2>1, <2>2, QuietInGroups DEF InGroups
<1> QED
  BY <1>5, <1>6, <1>7, <1>8

LEMMA SyncEnds ==
    ASSUME IInv, NEW r \in Requests, Goes(r, Synced(r)), request[r].at \in InGroups,
           UNCHANGED <<account, link, members, token, locked, deleted>>
    PROVE  IInv'
<1>1. request' \in [Requests -> RequestType] /\ Stages' /\ AllQuiet
  BY QuietSynced DEF IInv
<1>2. Typed'
  BY <1>1 DEF IInv, Typed
<1> QED
  BY <1>1, <1>2, QuietKeeps DEF IInv, Tokens

LEMMA InsertGroupKeeps ==
    ASSUME IInv, NEW r \in Requests, InsertGroup(r)
    PROVE  IInv'
<1> USE DEF IInv
<1>1. /\ request' \in [Requests -> RequestType] /\ Stages'
      /\ \/ \E l \in request[r].todo, name \in GroupNames :
               /\ link[name] = "none" /\ link' = [link EXCEPT ![name] = l]
               /\ Resolved(r, l, name)
         \/ link' = link /\ (Goes(r, Synced(r))
                            \/ Goes(r, [request[r] EXCEPT !.at = "findAgain"]))
  BY InsertGroupMoves
<1>2. UNCHANGED <<account, members, token, locked, deleted>>
      /\ request[r].at \in InGroups
  BY DEF InsertGroup, At, InGroups
<1>3. ASSUME NEW l \in request[r].todo, NEW name \in GroupNames,
             link[name] = "none", link' = [link EXCEPT ![name] = l],
             Resolved(r, l, name)
      PROVE  IInv'
  BY <1>2, <1>3, ResolvedKeeps
<1>4. CASE link' = link /\ Goes(r, Synced(r))
  BY <1>2, <1>4, SyncEnds
<1>5. CASE link' = link /\ Goes(r, [request[r] EXCEPT !.at = "findAgain"])
  <2> DEFINE q == [request[r] EXCEPT !.at = "findAgain"]
  <2>1. q \in RequestType /\ q.at = "findAgain" /\ q.identity = request[r].identity
        /\ q.user = request[r].user /\ q.found = request[r].found
        /\ q.todo = request[r].todo /\ q.reported = request[r].reported
    BY DEF RequestType, States, Running, Typed
  <2>2. Goes(r, q)
    BY <1>5
  <2> HIDE DEF q
  <2> QED
    BY <1>1, <1>2, <1>5, <2>1, <2>2, QuietInGroups DEF InGroups
<1> QED
  BY <1>1, <1>3, <1>4, <1>5

LEMMA DeleteMembershipsKeeps ==
    ASSUME IInv, NEW r \in Requests, DeleteMemberships(r)
    PROVE  IInv'
<1> DEFINE q == [request[r] EXCEPT !.at = "replace", !.before = GroupsOf(request[r].user)]
<1>1. request[r] \in RequestType
  BY DEF IInv, Typed
<1>2. request' \in [Requests -> RequestType] /\ Stages'
  BY DeleteMembershipsMoves DEF IInv
<1>3. UNCHANGED <<account, link, members, token, locked, deleted>> /\ Goes(r, q)
      /\ request[r].at \in InGroups
  BY DEF DeleteMemberships, db, At, InGroups
<1>4. GroupsOf(request[r].user) \in SUBSET GroupNames
  BY DEF GroupsOf
<1>5. q \in RequestType /\ q.at = "replace" /\ q.identity = request[r].identity
      /\ q.user = request[r].user /\ q.found = request[r].found
      /\ q.todo = request[r].todo /\ q.reported = request[r].reported
  BY <1>1, <1>4 DEF RequestType, States, Running
<1> HIDE DEF q
<1> QED
  BY <1>2, <1>3, <1>5, QuietInGroups DEF InGroups

LEMMA InsertMembershipsKeeps ==
    ASSUME IInv, NEW r \in Requests, InsertMemberships(r)
    PROVE  IInv'
<1> USE DEF IInv
<1>1. /\ request' \in [Requests -> RequestType] /\ Stages'
      /\ request'[r] = Synced(r)
      /\ \A p \in Requests \ {r} :
           \E old \in SUBSET GroupNames :
               request'[p] = [request[p] EXCEPT !.before = old]
  BY InsertMembershipsMoves
<1>2. request[r] \in RequestType /\ request[r].at = "replace" /\ request[r].user \in Names
  BY DEF Typed, InsertMemberships, At, Stages, Staged, InGroups
<1>3. UNCHANGED <<account, link, token, locked, deleted>>
  BY DEF InsertMemberships
<1>4. AllQuiet
  <2>1. ASSUME NEW p \in Requests \ {r}
        PROVE  Quiet(request[p], request'[p])
    <3>1. PICK old \in SUBSET GroupNames : request'[p] = [request[p] EXCEPT !.before = old]
      BY <1>1
    <3>2. request[p] \in RequestType
      BY DEF Typed
    <3>3. /\ request'[p].at = request[p].at /\ request'[p].identity = request[p].identity
          /\ request'[p].user = request[p].user /\ request'[p].token = request[p].token
          /\ request'[p].found = request[p].found /\ request'[p].todo = request[p].todo
          /\ request'[p].reported = request[p].reported
      BY <3>1, <3>2 DEF RequestType
    <3> QED
      BY <3>3 DEF Quiet
  <2>2. Quiet(request[r], request'[r])
    BY <1>1, <1>2, SyncedType DEF Quiet, Searching, InGroups
  <2> QED
    BY <2>1, <2>2 DEF AllQuiet
<1>5. CASE members' = members
  <2>1. Typed'
    BY <1>1, <1>3, <1>5 DEF Typed
  <2> QED
    BY <1>1, <1>3, <1>4, <1>5, <2>1, QuietKeeps DEF Tokens
<1>6. CASE members' = Replaced(r) /\ account[request[r].user] # "nobody"
           /\ Gone \notin request[r].found
  <2>1. request[r].found \subseteq GroupNames
    BY <1>2, <1>6 DEF RequestType
  <2>2. members' \subseteq members \cup ({request[r].user} \X request[r].found)
    BY <1>6 DEF Replaced
  <2>3. members' \in SUBSET (Names \X GroupNames)
    BY <1>2, <2>1, <2>2 DEF Typed
  <2>4. Typed'
    BY <1>1, <1>3, <2>3 DEF Typed
  <2>5. AccountsMatch' /\ Tokens' /\ Groups'
    <3>1. AccountsMatch'
      BY <1>3, <1>4 DEF AccountsMatch, AllQuiet, Quiet
    <3>2. Tokens'
      BY <1>3, <1>4 DEF Tokens, AllQuiet, Quiet
    <3>3. Groups'
      BY <1>3, <1>4 DEF Groups, AllQuiet, Quiet
    <3> QED
      BY <3>1, <3>2, <3>3
  <2>6. SingleUse'
    BY <1>3 DEF SingleUse
  <2>7. \A g \in request[r].found : link[g] # "none"
    <3>1. \A g \in request[r].found : link[g] \in request[r].reported
      BY <1>2, <1>6 DEF Groups, Searching, InGroups
    <3>2. request[r].reported \subseteq Links
      BY <1>2 DEF RequestType
    <3> QED
      BY <3>1, <3>2, DistinctAssumption
  <2>8. References'
    <3>1. \A m \in members' : account[m[1]] # "nobody" /\ link[m[2]] # "none"
      BY <1>6, <2>2, <2>7 DEF References
    <3> QED
      BY <1>3, <3>1 DEF References
  <2> QED
    BY <1>1, <2>4, <2>5, <2>6, <2>8
<1> QED
  BY <1>5, <1>6 DEF InsertMemberships

LEMMA SyncFailsKeeps ==
    ASSUME IInv, NEW r \in Requests, SyncFails(r)
    PROVE  IInv'
<1>1. Goes(r, Synced(r)) /\ request[r].at \in InGroups
      /\ UNCHANGED <<account, link, members, token, locked, deleted>>
  BY DEF SyncFails, InGroups, db
<1> QED
  BY <1>1, SyncEnds

LEMMA FailsKeeps ==
    ASSUME IInv, NEW r \in Requests, Fails(r)
    PROVE  IInv'
<1>1. Goes(r, Ended("failed")) /\ request[r].at \in Running
      /\ UNCHANGED <<account, link, members, token, deleted>>
      /\ locked' = IF At(r, "rotate") THEN locked \ {request[r].token} ELSE locked
  BY DEF Fails, Running, db
<1>2. request' \in [Requests -> RequestType] /\ Stages' /\ AllQuiet
  BY <1>1, QuietEnded DEF IInv
<1>3. Typed'
  BY <1>1, <1>2 DEF IInv, Typed
<1>4. request'[r].at = "failed"
  BY <1>1 DEF IInv, Typed, Goes, Ended
<1>5. ASSUME NEW p \in Requests, request[p].at = "rotate", request'[p].at = "rotate"
      PROVE  request[p].token \in locked'
  BY <1>1, <1>4, <1>5 DEF IInv, Tokens, At
<1> QED
  BY <1>1, <1>2, <1>3, <1>5, QuietKeeps

LEMMA CrashKeeps ==
    ASSUME IInv, Crash
    PROVE  IInv'
<1>1. UNCHANGED <<account, link, members, token, deleted>> /\ locked' = {}
  BY DEF Crash, db
<1>2. ASSUME NEW p \in Requests
      PROVE  /\ request'[p] \in RequestType /\ Staged(request'[p], p)
             /\ Quiet(request[p], request'[p]) /\ request'[p].at # "rotate"
  <2>1. CASE request[p].at \in Running
    <3>1. request'[p] = Ended("failed")
      BY <2>1 DEF Crash
    <3>2. "failed" \in States
      BY DEF States, Answered
    <3> QED
      BY <2>1, <3>1, <3>2, EndedType DEF Quiet, Staged, Searching, InGroups, Running
  <2>2. CASE request[p].at \notin Running
    <3>1. request'[p] = request[p]
      BY <2>2 DEF Crash
    <3> QED
      BY <2>2, <3>1 DEF IInv, Typed, Stages, Quiet, Running
  <2> QED
    BY <2>1, <2>2
<1>3. request' \in [Requests -> RequestType]
  <2>1. request' = [p \in Requests |-> request'[p]]
    BY DEF Crash
  <2> QED
    BY <1>2, <2>1
<1>4. Typed' /\ Stages' /\ AllQuiet
  BY <1>1, <1>2, <1>3 DEF IInv, Typed, Stages, AllQuiet
<1> QED
  BY <1>1, <1>2, <1>4, QuietKeeps

LEMMA RefreshKeeps ==
    ASSUME IInv, NEW r \in Refreshes, Refresh(r)
    PROVE  IInv'
<1>1. PICK t \in Requests : Goes(r, [Ended("lookUp") EXCEPT !.token = t])
  BY DEF Refresh
<1> DEFINE q == [Ended("lookUp") EXCEPT !.token = t]
<1>2. q \in RequestType /\ q.at = "lookUp" /\ q.identity = "none" /\ q.token = t
  BY DEF Ended, RequestType, States, Running
<1>3. r \in Requests /\ Goes(r, q)
      /\ UNCHANGED <<account, link, members, token, locked, deleted>>
      /\ request[r].at = "idle"
  BY <1>1 DEF Refresh, db, Requests, At
<1> HIDE DEF q
<1>4. Staged(q, r) /\ Quiet(request[r], q)
  BY <1>2, <1>3 DEF Staged, Quiet, Searching, InGroups
<1>5. request' \in [Requests -> RequestType] /\ Stages' /\ AllQuiet
  BY <1>2, <1>3, <1>4, OneMoves, QuietAlone DEF IInv
<1>6. Typed'
  BY <1>3, <1>5 DEF IInv, Typed
<1> QED
  BY <1>3, <1>5, <1>6, QuietKeeps DEF IInv, Tokens

LEMMA LookUpKeeps ==
    ASSUME IInv, NEW r \in Requests, LookUp(r)
    PROVE  IInv'
<1> USE DEF IInv
<1> DEFINE t == request[r].token
           q == [request[r] EXCEPT !.at = "rotate", !.user = token[t].user]
<1>1. /\ request[r] \in RequestType /\ request[r].at = "lookUp" /\ t \in Requests
      /\ request[r].identity = "none" /\ t \notin locked
      /\ UNCHANGED <<account, link, members, token, deleted>>
  BY DEF Typed, LookUp, At, Stages, Staged, db
<1>2. CASE token[t].state = "live"
  <2>1. token[t].user \in Names
    BY <1>1, <1>2 DEF Tokens
  <2>2. q \in RequestType /\ q.at = "rotate" /\ q.identity = "none" /\ q.token = t
        /\ q.user = token[t].user
    BY <1>1, <2>1 DEF RequestType, States, Running
  <2>3. Goes(r, q) /\ locked' = locked \cup {t}
    BY <1>2 DEF LookUp
  <2> HIDE DEF q
  <2>4. Staged(q, r)
    BY <1>1, <2>2 DEF Staged, InGroups
  <2>5. /\ request' \in [Requests -> RequestType] /\ Stages'
        /\ request'[r] = q /\ \A p \in Requests \ {r} : request'[p] = request[p]
    BY <2>2, <2>3, <2>4, OneMoves, GoesType
  <2>6. Typed'
    BY <1>1, <2>3, <2>5 DEF Typed
  <2>7. AccountsMatch' /\ Groups'
    BY <1>1, <2>2, <2>5 DEF AccountsMatch, Groups, Searching, InGroups
  <2>8. Tokens'
    <3>1. \A p \in Requests \ {r} : request[p].at = "rotate" => request[p].token # t
      BY <1>1 DEF Tokens
    <3>2. \A p \in Requests : request'[p].at = "rotate" =>
            LET u == request'[p].token IN
            /\ u \in locked'
            /\ token[u].state \in {"live", "expired"}
            /\ token[u].user = request'[p].user
      BY <1>2, <2>2, <2>3, <2>5 DEF Tokens
    <3>3. \A p, w \in Requests :
            request'[p].at = "rotate" /\ request'[w].at = "rotate"
            /\ request'[p].token = request'[w].token => p = w
      BY <2>2, <2>5, <3>1 DEF Tokens
    <3>4. \A p \in Requests : 
            IF token[p].state = "none" THEN token[p] = NoToken
            ELSE request'[p].at = "done" /\ token[p].user \in Names
      BY <1>1, <2>5 DEF Tokens
    <3> QED
      BY <1>1, <3>2, <3>3, <3>4 DEF Tokens
  <2>9. SingleUse' /\ References'
    BY <1>1 DEF SingleUse, References
  <2> QED
    BY <2>5, <2>6, <2>7, <2>8, <2>9
<1>3. CASE token[t].state # "live"
  <2>1. Goes(r, Ended("refused")) /\ locked' = locked
    BY <1>3 DEF LookUp
  <2>2. request' \in [Requests -> RequestType] /\ Stages' /\ AllQuiet
    BY <1>1, <2>1, QuietEnded DEF Running
  <2>3. Typed'
    BY <1>1, <2>1, <2>2 DEF Typed
  <2> QED
    BY <1>1, <2>1, <2>2, <2>3, QuietKeeps DEF Tokens
<1> QED
  BY <1>2, <1>3

LEMMA IssueTokenKeeps ==
    ASSUME IInv, NEW r \in Requests, IssueToken(r)
    PROVE  IInv'
<1> USE DEF IInv
<1>1. /\ request[r] \in RequestType /\ request[r].at = "issue"
      /\ request[r].user \in Names
      /\ UNCHANGED <<account, link, members, locked, deleted>>
  BY DEF Typed, IssueToken, At, Stages, Staged
<1>2. CASE account[request[r].user] = "nobody"
  <2>1. Goes(r, Ended("failed")) /\ token' = token
    BY <1>2 DEF IssueToken
  <2>2. request' \in [Requests -> RequestType] /\ Stages' /\ AllQuiet
    BY <1>1, <2>1, QuietEnded DEF Running
  <2>3. Typed'
    BY <1>1, <2>1, <2>2 DEF Typed
  <2> QED
    BY <1>1, <2>1, <2>2, <2>3, QuietKeeps DEF Tokens
<1>3. CASE account[request[r].user] # "nobody"
  <2> DEFINE new == [state |-> "live", user |-> request[r].user, parent |-> "none"]
  <2>1. /\ Goes(r, [request[r] EXCEPT !.at = "done"])
        /\ token' = [token EXCEPT ![r] = new]
    BY <1>3 DEF IssueToken
  <2>2. /\ request' \in [Requests -> RequestType] /\ Stages' /\ AllQuiet
        /\ request'[r].at = "done"
        /\ \A p \in Requests \ {r} : request'[p] = request[p]
    BY <2>1, QuietDone, GoesType DEF Goes, Typed
  <2>3. new \in TokenType
    BY <1>1 DEF TokenType
  <2>4. Typed'
    BY <1>1, <2>1, <2>2, <2>3 DEF Typed
  <2>5. AccountsMatch' /\ Groups'
    BY <1>1, <2>2 DEF AccountsMatch, Groups, AllQuiet, Quiet
  <2>6. /\ token[r] = NoToken /\ token'[r] = new
        /\ \A p \in Requests \ {r} : token'[p] = token[p]
    BY <1>1, <2>1 DEF Tokens, Typed
  <2>7. Tokens'
    <3>1. \A p \in Requests : request[p].at = "rotate" => request[p].token # r
      BY <2>6 DEF Tokens, NoToken
    <3>2. \A p \in Requests : request'[p].at = "rotate" =>
            /\ request[p].at = "rotate" /\ request'[p].token = request[p].token
            /\ request'[p].user = request[p].user /\ request[p].token \in Requests
      BY <2>2 DEF AllQuiet, Quiet, Stages, Staged
    <3> QED
      BY <1>1, <2>2, <2>6, <3>1, <3>2 DEF Tokens
  <2>8. SingleUse'
    <3>1. \A u \in Requests : token'[u].parent = token[u].parent
      BY <2>6 DEF NoToken
    <3>2. \A u \in Requests : token[u].parent # r
      BY <2>6 DEF SingleUse, NoToken
    <3>3. \A u \in Requests : token'[u].user = token[u].user \/ token[u].parent = "none"
      BY <2>6 DEF NoToken
    <3>4. ASSUME NEW t \in Requests
          PROVE  LET heirs == {u \in Requests : token'[u].parent = t} IN
                 /\ \A u, w \in heirs : u = w
                 /\ \A u \in heirs : token'[u].user = token'[t].user
                 /\ token'[t].state = "revoked" => heirs # {}
                 /\ heirs # {} => token'[t].state \in {"revoked", "cascaded"}
      <4> DEFINE heirs == {u \in Requests : token[u].parent = t}
      <4>1. heirs = {u \in Requests : token'[u].parent = t}
        BY <3>1
      <4>2. /\ \A u, w \in heirs : u = w
            /\ \A u \in heirs : token[u].user = token[t].user
            /\ token[t].state = "revoked" => heirs # {}
            /\ heirs # {} => token[t].state \in {"revoked", "cascaded"}
        BY DEF SingleUse
      <4>3. \A u \in heirs : token'[u].user = token[u].user
        BY <3>3, NamesApart
      <4>4. CASE t = r
        <5>1. heirs = {} /\ token'[t].state = "live"
          BY <2>6, <3>2, <4>4
        <5> HIDE DEF heirs
        <5> QED
          BY <4>1, <5>1
      <4>5. CASE t # r
        <5>1. token'[t] = token[t]
          BY <2>6, <4>5
        <5> HIDE DEF heirs
        <5> QED
          BY <4>1, <4>2, <4>3, <5>1
      <4> QED
        BY <4>4, <4>5
    <3> QED
      BY <3>4 DEF SingleUse
  <2>9. References'
    BY <1>1, <1>3, <2>6 DEF References
  <2> QED
    BY <2>2, <2>4, <2>5, <2>7, <2>8, <2>9
<1> QED
  BY <1>2, <1>3

LEMMA RotateKeeps ==
    ASSUME IInv, NEW r \in Requests, Rotate(r)
    PROVE  IInv'
<1> USE DEF IInv
<1> DEFINE t == request[r].token
           new == [state |-> "live", user |-> request[r].user, parent |-> t]
<1>1. /\ request[r] \in RequestType /\ request[r].at = "rotate" /\ t \in Requests
      /\ t \in locked /\ token[t].state \in {"live", "expired"}
      /\ token[t].user = request[r].user /\ token[t].user \in Names
      /\ UNCHANGED <<account, link, members, deleted>>
  <2>1. /\ request[r] \in RequestType /\ request[r].at = "rotate" /\ t \in Requests
        /\ UNCHANGED <<account, link, members, deleted>>
    BY DEF Typed, Rotate, At, Stages, Staged
  <2>2. /\ t \in locked /\ token[t].state \in {"live", "expired"}
        /\ token[t].user = request[r].user
    BY <2>1 DEF Tokens
  <2> QED
    BY <2>1, <2>2 DEF Tokens
<1>2. token[r] = NoToken
  BY <1>1 DEF Tokens
<1>3. t # r
  BY <1>1, <1>2 DEF NoToken
<1>4. /\ token' = [token EXCEPT ![t].state = "revoked", ![r] = new]
      /\ locked' = locked \ {t} /\ Goes(r, [request[r] EXCEPT !.at = "done"])
  BY DEF Rotate
<1>5. /\ request' \in [Requests -> RequestType] /\ Stages' /\ AllQuiet
      /\ request'[r].at = "done"
      /\ \A p \in Requests \ {r} : request'[p] = request[p]
  BY <1>4, QuietDone DEF Goes, Typed
<1>6. new \in TokenType
  BY <1>1 DEF TokenType
<1>7. /\ token' \in [Requests -> TokenType]
      /\ token'[r] = new /\ token'[t] = [token[t] EXCEPT !.state = "revoked"]
      /\ \A u \in Requests \ {r, t} : token'[u] = token[u]
  <2>1. token[t] \in TokenType
    BY <1>1 DEF Typed
  <2>2. [token[t] EXCEPT !.state = "revoked"] \in TokenType
    BY <2>1 DEF TokenType
  <2> HIDE DEF t, new
  <2> QED
    BY <1>1, <1>3, <1>4, <1>6, <2>2 DEF Typed
<1>8. /\ token'[t].state = "revoked" /\ token'[t].user = token[t].user
      /\ token'[t].parent = token[t].parent
      /\ token'[r].state = "live" /\ token'[r].user = token[t].user
      /\ token'[r].parent = t
  <2>1. token[t] \in TokenType
    BY <1>1 DEF Typed
  <2> QED
    BY <1>1, <1>7, <2>1 DEF TokenType
<1>9. Typed'
  BY <1>1, <1>4, <1>5, <1>7 DEF Typed
<1>10. AccountsMatch' /\ Groups'
  BY <1>1, <1>5 DEF AccountsMatch, Groups, AllQuiet, Quiet
<1>11. Tokens'
  <2>1. ASSUME NEW p \in Requests, request'[p].at = "rotate"
        PROVE  /\ p # r /\ request[p].at = "rotate" /\ request'[p] = request[p]
               /\ request[p].token # t /\ request[p].token # r
               /\ request[p].token \in Requests
    <3>1. p # r /\ request'[p] = request[p]
      BY <1>5, <2>1
    <3>2. request[p].token # t
      BY <1>1, <2>1, <3>1 DEF Tokens
    <3>3. request[p].token # r
      BY <1>2, <2>1, <3>1 DEF Tokens, NoToken
    <3>4. request[p].token \in Requests
      BY <2>1, <3>1 DEF Stages, Staged
    <3> QED
      BY <2>1, <3>1, <3>2, <3>3, <3>4
  <2>2. \A p \in Requests : request'[p].at = "rotate" =>
            LET u == request'[p].token IN
            /\ u \in locked'
            /\ token'[u].state \in {"live", "expired"}
            /\ token'[u].user = request'[p].user
    BY <1>4, <1>7, <2>1 DEF Tokens
  <2>3. \A p, w \in Requests :
            request'[p].at = "rotate" /\ request'[w].at = "rotate"
            /\ request'[p].token = request'[w].token => p = w
    BY <2>1 DEF Tokens
  <2>4. ASSUME NEW p \in Requests
        PROVE  IF token'[p].state = "none" THEN token'[p] = NoToken
               ELSE request'[p].at = "done" /\ token'[p].user \in Names
    <3>1. CASE p = r
      BY <1>1, <1>5, <1>8, <3>1
    <3>2. CASE p = t
      BY <1>1, <1>3, <1>5, <1>8, <3>2 DEF Tokens
    <3>3. CASE p # r /\ p # t
      BY <1>5, <1>7, <3>3 DEF Tokens
    <3> QED
      BY <3>1, <3>2, <3>3
  <2> QED
    BY <2>2, <2>3, <2>4 DEF Tokens
<1>12. SingleUse'
  <2>1. ASSUME NEW s \in Requests
        PROVE  LET heirs == {u \in Requests : token'[u].parent = s} IN
               /\ \A u, w \in heirs : u = w
               /\ \A u \in heirs : token'[u].user = token'[s].user
               /\ token'[s].state = "revoked" => heirs # {}
               /\ heirs # {} => token'[s].state \in {"revoked", "cascaded"}
    <3> DEFINE heirs == {u \in Requests : token[u].parent = s}
               later == {u \in Requests : token'[u].parent = s}
    <3>1. /\ \A u, w \in heirs : u = w
          /\ \A u \in heirs : token[u].user = token[s].user
          /\ token[s].state = "revoked" => heirs # {}
          /\ heirs # {} => token[s].state \in {"revoked", "cascaded"}
      BY DEF SingleUse
    <3>2. \A u \in Requests \ {r} : token'[u].parent = token[u].parent
                                   /\ token'[u].user = token[u].user
      BY <1>7, <1>8
    <3>3. token[r].parent = "none" /\ "none" \notin Requests
      BY <1>2, NamesApart DEF NoToken
    <3>4. CASE s = t
      <4>1. heirs = {}
        BY <1>1, <3>1, <3>4
      <4>2. later = {r}
        BY <1>8, <3>2, <3>4, <4>1
      <4> HIDE DEF heirs, later
      <4>3. /\ \A u, w \in later : u = w
            /\ \A u \in later : token'[u].user = token'[s].user
            /\ later # {} /\ token'[s].state = "revoked"
        BY <1>8, <3>4, <4>2
      <4> QED
        BY <4>3 DEF later
    <3>5. CASE s # t
      <4>1. later = heirs
        BY <1>8, <3>2, <3>3, <3>5
      <4>2. r \notin heirs
        BY <3>3
      <4>3. CASE s = r
        <5>1. token[s].state = "none"
          BY <1>2, <4>3 DEF NoToken
        <5> HIDE DEF heirs, later
        <5>2. heirs = {}
          BY <3>1, <5>1
        <5> QED
          BY <1>8, <4>1, <4>3, <5>2 DEF later
      <4>4. CASE s # r
        <5>1. token'[s] = token[s]
          BY <1>7, <3>5, <4>4
        <5>2. \A u \in heirs : token'[u].user = token[u].user
          BY <3>2, <4>2
        <5> HIDE DEF heirs
        <5> QED
          BY <3>1, <4>1, <5>1, <5>2
      <4> QED
        BY <4>3, <4>4
    <3> QED
      BY <3>4, <3>5
  <2> QED
    BY <2>1 DEF SingleUse
<1>13. References'
  <2>1. account[token[t].user] # "nobody"
    BY <1>1 DEF References
  <2>2. ASSUME NEW u \in Requests, token'[u].state \in {"live", "expired", "revoked"}
        PROVE  account[token'[u].user] # "nobody"
    <3>1. CASE u \in {r, t}
      BY <1>8, <2>1, <3>1
    <3>2. CASE u \notin {r, t}
      BY <1>7, <2>2, <3>2 DEF References
    <3> QED
      BY <3>1, <3>2
  <2> QED
    BY <1>1, <2>2 DEF References
<1> QED
  BY <1>5, <1>9, <1>10, <1>11, <1>12, <1>13

\* Tokens that keep their users and parents, and become neither revoked nor
\* usable, stay redeemed at most once.
LEMMA StatesMove ==
    ASSUME SingleUse,
           \A t \in Requests :
            /\ token'[t].parent = token[t].parent /\ token'[t].user = token[t].user
            /\ token'[t].state = "revoked" => token[t].state = "revoked"
            /\ token[t].state \in {"revoked", "cascaded"} =>
                    token'[t].state \in {"revoked", "cascaded"}
    PROVE  SingleUse'
<1>1. ASSUME NEW t \in Requests
      PROVE  LET heirs == {u \in Requests : token'[u].parent = t} IN
             /\ \A u, w \in heirs : u = w
             /\ \A u \in heirs : token'[u].user = token'[t].user
             /\ token'[t].state = "revoked" => heirs # {}
             /\ heirs # {} => token'[t].state \in {"revoked", "cascaded"}
  <2> DEFINE heirs == {u \in Requests : token[u].parent = t}
             later == {u \in Requests : token'[u].parent = t}
  <2>1. /\ \A u, w \in heirs : u = w
        /\ \A u \in heirs : token[u].user = token[t].user
        /\ token[t].state = "revoked" => heirs # {}
        /\ heirs # {} => token[t].state \in {"revoked", "cascaded"}
    BY DEF SingleUse
  <2>2. later = heirs
    OBVIOUS
  <2>3. \A u \in heirs : token'[u].user = token'[t].user
    BY <2>1
  <2> HIDE DEF heirs
  <2> QED
    BY <2>1, <2>2, <2>3
<1> QED
  BY <1>1 DEF SingleUse

LEMMA ExpireKeeps ==
    ASSUME IInv, NEW t \in Requests, Expire(t)
    PROVE  IInv'
<1> USE DEF IInv
<1>1. /\ UNCHANGED <<account, link, members, request, locked, deleted>>
      /\ token[t].state = "live" /\ token' = [token EXCEPT ![t].state = "expired"]
      /\ token[t] \in TokenType
  BY DEF Expire, Typed
<1>2. /\ token' \in [Requests -> TokenType]
      /\ token'[t].state = "expired" /\ token'[t].user = token[t].user
      /\ token'[t].parent = token[t].parent
      /\ \A u \in Requests \ {t} : token'[u] = token[u]
  BY <1>1 DEF Typed, TokenType
<1>3. Typed' /\ Stages' /\ AccountsMatch' /\ Groups'
  BY <1>1, <1>2 DEF Typed, Stages, AccountsMatch, Groups
<1>4. Tokens'
  <2>1. \A r \in Requests : request[r].at = "rotate" => request[r].token \in Requests
    BY DEF Stages, Staged
  <2> QED
    BY <1>1, <1>2, <2>1 DEF Tokens
<1>5. SingleUse'
  BY <1>1, <1>2, StatesMove
<1>6. References'
  BY <1>1, <1>2 DEF References
<1> QED
  BY <1>3, <1>4, <1>5, <1>6

LEMMA DeleteUserKeeps ==
    ASSUME IInv, NEW n \in Names, DeleteUser(n)
    PROVE  IInv'
<1> USE DEF IInv
<1>1. /\ UNCHANGED <<link, request, locked>>
      /\ account' = [account EXCEPT ![n] = "nobody"]
      /\ members' = {m \in members : m[1] # n}
      /\ deleted' = deleted \cup {n}
      /\ \A t \in locked : token[t].user # n
  BY DEF DeleteUser
<1>2. account'[n] = "nobody" /\ \A m \in Names \ {n} : account'[m] = account[m]
      /\ account' \in [Names -> {"nobody", "local"} \cup Identities]
  BY <1>1 DEF Typed
<1>3. ASSUME NEW t \in Requests
      PROVE  /\ token'[t] \in TokenType
             /\ token'[t].user = token[t].user /\ token'[t].parent = token[t].parent
             /\ token'[t].state = IF token[t].user = n THEN "cascaded" ELSE token[t].state
             /\ token[t].user # n => token'[t] = token[t]
  <2>1. token[t] \in TokenType
    BY DEF Typed
  <2>2. token'[t] = IF token[t].user = n THEN [token[t] EXCEPT !.state = "cascaded"]
                    ELSE token[t]
    BY DEF DeleteUser
  <2> QED
    BY <2>1, <2>2 DEF TokenType
<1>4. token' \in [Requests -> TokenType]
  <2>1. token' = [t \in Requests |-> token'[t]]
    BY DEF DeleteUser
  <2> QED
    BY <1>3, <2>1
<1>5. Typed' /\ Stages' /\ Groups'
  BY <1>1, <1>2, <1>4 DEF Typed, Stages, Groups
<1>6. AccountsMatch'
  <2>1. \A k, m \in Names : account'[k] = account'[m] /\ account'[k] \in Identities => k = m
    BY <1>2, DistinctAssumption DEF AccountsMatch
  <2>2. ASSUME NEW r \in Requests, request[r].identity # "none",
               request[r].user # NoName, request[r].user \notin deleted'
        PROVE  account'[request[r].user] = request[r].identity
    <3>1. request[r] \in RequestType
      BY DEF Typed
    <3>2. request[r].user \in Names /\ request[r].user # n
      BY <1>1, <2>2, <3>1 DEF RequestType
    <3> QED
      BY <1>1, <1>2, <2>2, <3>2 DEF AccountsMatch
  <2> QED
    BY <1>1, <2>1, <2>2 DEF AccountsMatch
<1>7. Tokens'
  <2>1. \A r \in Requests : request[r].at = "rotate" =>
            request[r].token \in Requests /\ token[request[r].token].user # n
    BY <1>1 DEF Stages, Staged, Tokens
  <2>2. \A t \in Requests : token[t].state = "none" => token'[t] = token[t]
    BY <1>3, NamesApart DEF Tokens, NoToken
  <2>3. \A r \in Requests : request[r].at = "rotate" =>
            LET t == request[r].token IN
            /\ t \in locked'
            /\ token'[t].state \in {"live", "expired"}
            /\ token'[t].user = request[r].user
    BY <1>1, <1>3, <2>1 DEF Tokens
  <2>4. ASSUME NEW r \in Requests
        PROVE  IF token'[r].state = "none" THEN token'[r] = NoToken
               ELSE request[r].at = "done" /\ token'[r].user \in Names
    <3>1. CASE token[r].state = "none"
      BY <2>2, <3>1 DEF Tokens
    <3>2. CASE token[r].state # "none"
      BY <1>3, <3>2 DEF Tokens
    <3> QED
      BY <3>1, <3>2
  <2> QED
    BY <1>1, <2>3, <2>4 DEF Tokens
<1>8. SingleUse'
  BY <1>3, StatesMove
<1>9. References'
  <2>1. \A m \in members' : account'[m[1]] # "nobody" /\ link[m[2]] # "none"
    <3>1. \A m \in members : m[1] \in Names
      BY DEF Typed
    <3> QED
      BY <1>1, <1>2, <3>1 DEF References
  <2>2. ASSUME NEW t \in Requests, token'[t].state \in {"live", "expired", "revoked"}
        PROVE  account'[token'[t].user] # "nobody"
    <3>1. token[t].user # n /\ token'[t] = token[t]
      BY <1>3, <2>2
    <3>2. token[t].user \in Names
      BY <2>2, <3>1 DEF Tokens
    <3> QED
      BY <1>2, <2>2, <3>1, <3>2 DEF References
  <2> QED
    BY <1>1, <2>1, <2>2 DEF References
<1> QED
  BY <1>5, <1>6, <1>7, <1>8, <1>9

LEMMA DeleteGroupKeeps ==
    ASSUME IInv, NEW g \in GroupNames, DeleteGroup(g)
    PROVE  IInv'
<1> USE DEF IInv
<1>1. /\ UNCHANGED <<account, token, locked, deleted>>
      /\ link' = [link EXCEPT ![g] = "none"] /\ link[g] # "none"
      /\ members' = {m \in members : m[2] # g}
  BY DEF DeleteGroup
<1>2. link'[g] = "none" /\ \A h \in GroupNames \ {g} : link'[h] = link[h]
      /\ link' \in [GroupNames -> {"none", "unlinked"} \cup Links]
  BY <1>1 DEF Typed
<1> DEFINE left(q) == IF g \in q.found THEN (q.found \ {g}) \cup {Gone} ELSE q.found
<1>3. ASSUME NEW r \in Requests
      PROVE  /\ request'[r] \in RequestType
             /\ request'[r].at = request[r].at /\ request'[r].identity = request[r].identity
             /\ request'[r].user = request[r].user /\ request'[r].token = request[r].token
             /\ request'[r].todo = request[r].todo /\ request'[r].link = request[r].link
             /\ request'[r].reported = request[r].reported
             /\ request'[r].found = left(request[r])
  <2>1. request[r] \in RequestType
    BY DEF Typed
  <2>2. left(request[r]) \in SUBSET (GroupNames \cup {Gone})
    BY <2>1 DEF RequestType
  <2>3. request'[r] = [request[r] EXCEPT !.found = left(request[r])]
    BY DEF DeleteGroup
  <2> HIDE DEF left
  <2> QED
    BY <2>1, <2>2, <2>3 DEF RequestType
<1>4. request' \in [Requests -> RequestType]
  <2>1. request' = [r \in Requests |-> request'[r]]
    BY DEF DeleteGroup
  <2> HIDE DEF left
  <2> QED
    BY <1>3, <2>1
<1>5. members' \in SUBSET (Names \X GroupNames)
  BY <1>1 DEF Typed
<1>6. Typed'
  BY <1>1, <1>2, <1>4, <1>5 DEF Typed
<1>7. Stages' /\ AccountsMatch' /\ Tokens'
  <2> HIDE DEF left
  <2>1. Stages'
    BY <1>3 DEF Stages, Staged
  <2>2. AccountsMatch'
    BY <1>1, <1>3 DEF AccountsMatch
  <2>3. Tokens'
    BY <1>1, <1>3 DEF Tokens
  <2> QED
    BY <2>1, <2>2, <2>3
<1>8. SingleUse' /\ References'
  <2>1. \A m \in members : m[2] \in GroupNames
    BY DEF Typed
  <2>2. \A m \in members' : account[m[1]] # "nobody" /\ link'[m[2]] # "none"
    BY <1>1, <1>2, <2>1 DEF References
  <2>3. References'
    BY <1>1, <2>2 DEF References
  <2> QED
    BY <1>1, <2>3 DEF SingleUse
<1>9. Groups'
  <2>1. ASSUME NEW r \in Requests, request[r].at \in Searching
        PROVE  LET q == request[r] IN
               /\ q.todo \subseteq q.reported
               /\ \A h \in left(q) \ {Gone} : link'[h] \in q.reported
               /\ \/ Gone \in left(q)
                  \/ \A l \in q.reported \ q.todo : \E h \in left(q) : link'[h] = l
    <3> DEFINE q == request[r]
    <3>1. /\ q.todo \subseteq q.reported
          /\ \A h \in q.found \ {Gone} : link[h] \in q.reported
          /\ \/ Gone \in q.found
             \/ \A l \in q.reported \ q.todo : \E h \in q.found : link[h] = l
      BY <2>1 DEF Groups
    <3>2. q \in RequestType
      BY DEF Typed
    <3>3. q.found \subseteq GroupNames \cup {Gone}
      BY <3>2 DEF RequestType
    <3> HIDE DEF q
    <3>4. \A h \in left(q) \ {Gone} : h \in q.found /\ h \in GroupNames \ {g}
      BY <3>3
    <3>5. Gone \notin left(q) => left(q) = q.found /\ q.found \subseteq GroupNames \ {g}
      BY <3>3
    <3>6. \A h \in left(q) \ {Gone} : link'[h] \in q.reported
      BY <1>2, <3>1, <3>4
    <3>7. CASE Gone \in left(q)
      BY <3>1, <3>6, <3>7 DEF q
    <3>8. CASE Gone \notin left(q)
      <4>1. left(q) = q.found /\ q.found \subseteq GroupNames \ {g}
        BY <3>5, <3>8
      <4>2. \A l \in q.reported \ q.todo : \E h \in q.found : link[h] = l
        BY <3>1, <3>8, <4>1
      <4> HIDE DEF left
      <4>3. \A l \in q.reported \ q.todo : \E h \in left(q) : link'[h] = l
        BY <1>2, <4>1, <4>2
      <4> QED
        BY <3>1, <3>6, <4>3 DEF q
    <3> QED
      BY <3>7, <3>8
  <2> HIDE DEF left
  <2> QED
    BY <1>3, <2>1 DEF Groups
<1> QED
  BY <1>6, <1>7, <1>8, <1>9

(***************************************************************************)
(* The theorems.                                                           *)
(***************************************************************************)
LEMMA InitIInv == Init => IInv
<1> SUFFICES ASSUME Init PROVE IInv
  OBVIOUS
<1>1. "idle" \in States
  BY DEF States
<1>2. ASSUME NEW r \in Requests
      PROVE  /\ request[r] = Ended("idle") /\ request[r] \in RequestType
             /\ request[r].at = "idle" /\ request[r].identity = "none"
             /\ token[r] = NoToken /\ token[r] \in TokenType
             /\ token[r].state = "none" /\ token[r].parent \notin Requests
  <2>1. request[r] = Ended("idle") /\ token[r] = NoToken
    BY DEF Init
  <2> QED
    BY <1>1, <2>1, EndedType, NamesApart DEF NoToken, TokenType
<1>3. Typed
  <2>1. request = [r \in Requests |-> request[r]] /\ token = [r \in Requests |-> token[r]]
    BY DEF Init
  <2>2. request \in [Requests -> RequestType] /\ token \in [Requests -> TokenType]
    BY <1>2, <2>1
  <2>3. /\ account \in [Names -> {"nobody", "local"} \cup Identities]
        /\ link \in [GroupNames -> {"none", "unlinked"} \cup Links]
    BY NamesAssumption DEF Init
  <2> QED
    BY <2>2, <2>3 DEF Typed, Init
<1>4. Stages
  BY <1>2 DEF Stages, Staged, InGroups
<1>5. AccountsMatch
  <2>1. \A n \in Names : account[n] \notin Identities
    BY NamesAssumption, DistinctAssumption DEF Init
  <2> QED
    BY <1>2, <2>1 DEF AccountsMatch
<1>6. Tokens
  BY <1>2 DEF Tokens
<1>7. SingleUse /\ References
  <2>1. SingleUse
    BY <1>2 DEF SingleUse
  <2>2. References
    BY <1>2 DEF References, Init
  <2> QED
    BY <2>1, <2>2
<1>8. Groups
  BY <1>2 DEF Groups, Searching, InGroups
<1> QED
  BY <1>3, <1>4, <1>5, <1>6, <1>7, <1>8 DEF IInv

LEMMA NextIInv == IInv /\ [Next]_vars => IInv'
<1> SUFFICES ASSUME IInv, [Next]_vars PROVE IInv'
  OBVIOUS
<1>1. ASSUME NEW r \in Logins, LocalLogin(r) \/ FindUser(r) PROVE IInv'
  BY <1>1, LoginStarts
<1>2. ASSUME NEW r \in Refreshes, Refresh(r) PROVE IInv'
  BY <1>2, RefreshKeeps
<1>3. ASSUME NEW r \in Requests, Proceed(r) PROVE IInv'
  <2>1. CASE InsertUser(r)
    BY <2>1, InsertUserKeeps
  <2>2. CASE FindGroup(r) \/ FindGroupAgain(r)
    BY <2>2, FindGroupKeeps
  <2>3. CASE InsertGroup(r)
    BY <2>3, InsertGroupKeeps
  <2>4. CASE DeleteMemberships(r)
    BY <2>4, DeleteMembershipsKeeps
  <2>5. CASE InsertMemberships(r)
    BY <2>5, InsertMembershipsKeeps
  <2>6. CASE IssueToken(r)
    BY <2>6, IssueTokenKeeps
  <2>7. CASE Rotate(r)
    BY <2>7, RotateKeeps
  <2> QED
    BY <1>3, <2>1, <2>2, <2>3, <2>4, <2>5, <2>6, <2>7 DEF Proceed
<1>4. ASSUME NEW r \in Requests, LookUp(r) PROVE IInv'
  BY <1>4, LookUpKeeps
<1>5. ASSUME NEW r \in Requests, SyncFails(r) PROVE IInv'
  BY <1>5, SyncFailsKeeps
<1>6. ASSUME NEW r \in Requests, Fails(r) PROVE IInv'
  BY <1>6, FailsKeeps
<1>7. ASSUME NEW t \in Requests, Expire(t) PROVE IInv'
  BY <1>7, ExpireKeeps
<1>8. ASSUME NEW n \in Names, DeleteUser(n) PROVE IInv'
  BY <1>8, DeleteUserKeeps
<1>9. ASSUME NEW g \in GroupNames, DeleteGroup(g) PROVE IInv'
  BY <1>9, DeleteGroupKeeps
<1>10. CASE Crash
  BY <1>10, CrashKeeps
<1>11. CASE UNCHANGED vars
  BY <1>11 DEF vars, IInv, Typed, Stages, AccountsMatch, Tokens, SingleUse, References,
               Groups
<1> QED
  BY <1>1, <1>2, <1>3, <1>4, <1>5, <1>6, <1>7, <1>8, <1>9, <1>10, <1>11 DEF Next

LEMMA Inductive == Spec => []IInv
  BY InitIInv, NextIInv, PTL DEF Spec

\* What no claim about a request rests on: the deletions.
Deletions == deleted \in SUBSET Names /\ deletes \in 0 .. MaxDeletes

LEMMA DeletionsKeep == Deletions /\ [Next]_vars => Deletions'
<1> USE DistinctAssumption DEF Deletions
<1> SUFFICES ASSUME Deletions, [Next]_vars PROVE Deletions'
  OBVIOUS
<1>1. ASSUME NEW r \in Logins, LocalLogin(r) \/ FindUser(r) PROVE Deletions'
  BY <1>1 DEF LocalLogin, FindUser
<1>2. ASSUME NEW r \in Requests, Proceed(r) \/ LookUp(r) PROVE Deletions'
  BY <1>2 DEF Proceed, LookUp, InsertUser, FindGroup, InsertGroup, FindGroupAgain,
              DeleteMemberships, InsertMemberships, IssueToken, Rotate
<1>3. ASSUME NEW r \in Requests, SyncFails(r) \/ Fails(r) \/ Expire(r) PROVE Deletions'
  BY <1>3 DEF SyncFails, Fails, Expire
<1>4. ASSUME NEW n \in Names, DeleteUser(n) PROVE Deletions'
  BY <1>4 DEF DeleteUser
<1>5. ASSUME NEW g \in GroupNames, DeleteGroup(g) PROVE Deletions'
  BY <1>5 DEF DeleteGroup
<1>6. ASSUME NEW r \in Refreshes, Refresh(r) PROVE Deletions'
  BY <1>6 DEF Refresh
<1>7. CASE Crash \/ UNCHANGED vars
  BY <1>7 DEF Crash, vars
<1> QED
  BY <1>1, <1>2, <1>3, <1>4, <1>5, <1>6, <1>7 DEF Next

\* The rows of users, groups, memberships and tokens, and what the requests
\* remember of them, keep their types.
THEOREM TypeCorrect == Spec => []TypeOK
<1>1. Init => Deletions
  BY DistinctAssumption DEF Init, Deletions
<1>2. IInv /\ Deletions => TypeOK
  BY DEF IInv, Typed, RequestType, TokenType, States, Deletions, TypeOK
<1> QED
  BY <1>1, <1>2, Inductive, DeletionsKeep, PTL DEF Spec

\* A refresh token is redeemed at most once, however many requests bring it
\* and wherever they stop (RotateRefreshToken's SELECT ... FOR UPDATE).
THEOREM SingleUseCorrect == Spec => []SingleUse
<1>1. IInv => SingleUse
  BY DEF IInv
<1> QED
  BY <1>1, Inductive, PTL

\* Concurrent first logins make one account of an identity, and a login runs
\* as the account of the identity it proved (store/ldap.go, store/oidc.go).
THEOREM AccountsMatchCorrect == Spec => []AccountsMatch
<1>1. IInv => AccountsMatch
  BY DEF IInv
<1> QED
  BY <1>1, Inductive, PTL

\* No membership or usable token refers to a user or a group that is gone.
THEOREM ReferencesCorrect == Spec => []References
<1>1. IInv => References
  BY DEF IInv
<1> QED
  BY <1>1, Inductive, PTL

\* A login that nobody overlapped leaves exactly the memberships that the
\* directory reported (replaceGroupMembership).
THEOREM ReplacedCorrect == Spec => ReplacedUnlessOverlapped
<1>1. IInv /\ [Next]_vars =>
        [\A r \in Requests :
            LET n == request[r].user IN
            InsertMemberships(r) /\ members' # members /\ GroupsOf(n) = request[r].before =>
                {link[g] : g \in GroupsOf(n)'} = request[r].reported]_vars
  <2> SUFFICES ASSUME IInv, NEW r \in Requests,
                      InsertMemberships(r), members' # members,
                      GroupsOf(request[r].user) = request[r].before
               PROVE  {link[g] : g \in {h \in GroupNames : <<request'[r].user, h>> \in members'}}
                        = request[r].reported
    BY DEF GroupsOf
  <2> DEFINE q == request[r]
  <2>1. /\ members' = Replaced(r) /\ Gone \notin q.found /\ q.at = "replace"
        /\ q.todo = {} /\ q \in RequestType
    BY DEF InsertMemberships, At, IInv, Stages, Staged, Typed
  <2>2. q.found \subseteq GroupNames /\ q.reported \subseteq Links
    BY <2>1 DEF RequestType
  <2>3. /\ \A g \in q.found : link[g] \in q.reported
        /\ \A l \in q.reported : \E g \in q.found : link[g] = l
    BY <2>1 DEF IInv, Groups, Searching, InGroups
  <2>4. request'[r].user = q.user
    <3>1. request'[r] = Synced(r)
      BY DEF InsertMemberships
    <3> QED
      BY <3>1, SyncedType DEF IInv
  <2>5. \A h \in GroupNames : <<q.user, h>> \in members' <=> h \in q.found
    <3>1. \A h \in GroupNames : <<q.user, h>> \in members <=> h \in q.before
      BY DEF GroupsOf
    <3> QED
      BY <2>1, <3>1 DEF Replaced
  <2>6. {h \in GroupNames : <<request'[r].user, h>> \in members'} = q.found
    BY <2>2, <2>4, <2>5
  <2> HIDE DEF q
  <2>7. {link[g] : g \in q.found} = q.reported
    BY <2>3
  <2> QED
    BY <2>6, <2>7 DEF q
<1> QED
  BY <1>1, Inductive, PTL DEF Spec, ReplacedUnlessOverlapped
=============================================================================
