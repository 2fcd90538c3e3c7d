------------------------------- MODULE Login -------------------------------
(***************************************************************************)
(* Logins and refreshes: a login by password, LDAP or OIDC finds or makes  *)
(* the account of a directory identity, replaces the account's group       *)
(* memberships by those the directory reports, making groups it does not   *)
(* know, and issues a refresh token; a refresh redeems a token for another.*)
(* Requests run concurrently, and meet in the database only.               *)
(*                                                                         *)
(* The database runs at READ COMMITTED: a transaction's statements see     *)
(* what is committed when each starts.  An insert of a name, an identity   *)
(* or a link that is taken fails (unique indexes).                         *)
(***************************************************************************)
EXTENDS Naturals

CONSTANTS
    Logins,     \* requests; each runs once: this bounds their number
    Refreshes,
    Identities, \* LDAP entries (DN), OIDC issuers and subjects
    Preferred,  \* identity -> the user name it comes with
    Links,      \* directory groups: DNs, values of the "groups" claim
    Display,    \* link -> the name its group is given
    Reports,    \* sets of links that the directory may report for a user
    Accounts,   \* user name -> local account or none, at the start
    Named,      \* names of groups at the start, made by an administrator
    MaxDeletes  \* bounds the users and groups that are deleted

Requests == Logins \cup Refreshes

\* A name as it comes, or with the suffix of a request's own (random: no
\* two are the same).
Suffixes == {"plain"} \cup Logins
Names == {Preferred[i] : i \in Identities} \X Suffixes
GroupNames == {Display[l] : l \in Links} \X Suffixes
Plain(name) == <<name, "plain">>
NoName == <<"none", "none">>
Gone == <<"gone", "none">> \* the id of a group that was deleted

ASSUME NamesAssumption ==
    /\ DOMAIN Preferred = Identities /\ DOMAIN Display = Links
    /\ Reports \subseteq SUBSET Links
    /\ Named \subseteq GroupNames
    /\ Accounts \in [Names -> {"nobody", "local"}]
ASSUME DistinctAssumption ==
    /\ Logins \cap Refreshes = {}
    /\ MaxDeletes \in Nat
    /\ {"nobody", "local"} \cap Identities = {}
    /\ {"none", "unlinked"} \cap Links = {}
    /\ {"plain", "none"} \cap Requests = {}

VARIABLES
    account,  \* user name -> its identity, "local", or "nobody"
    link,     \* group name -> its directory group, "unlinked", or "none"
    members,  \* group_members: pairs of a user name and a group name
    request,  \* request -> where it is
    token,    \* request -> the refresh token it issued
    locked,   \* tokens whose row a transaction holds
    deleted,  \* history: user names that were deleted
    deletes   \* how many users and groups were deleted

vars == <<account, link, members, request, token, locked, deleted, deletes>>
db == <<account, link, members, token>>

Running == {"create", "createSuffixed", "groups", "insertGroup", "findAgain",
            "insertSuffixed", "replace", "issue", "lookUp", "rotate"}
Answered == {"done", "refused", "failed"}

NoToken == [state |-> "none", user |-> NoName, parent |-> "none"]

\* A request before it starts, and what is left of one when it has ended.
Ended(at) ==
    [at |-> at, identity |-> "none", user |-> NoName, todo |-> {}, link |-> "none",
     reported |-> {}, found |-> {}, before |-> {}, token |-> "none"]

TypeOK ==
    /\ account \in [Names -> {"nobody", "local"} \cup Identities]
    /\ link \in [GroupNames -> {"none", "unlinked"} \cup Links]
    /\ members \in SUBSET (Names \X GroupNames)
    /\ request \in [Requests ->
            [at : {"idle"} \cup Running \cup Answered,
             identity : {"none"} \cup Identities,
             user : {NoName} \cup Names,
             todo : SUBSET Links,       \* links still to be resolved
             link : {"none"} \cup Links, \* the one that is being resolved
             reported : SUBSET Links,
             found : SUBSET (GroupNames \cup {Gone}), \* the groups they resolved to
             before : SUBSET GroupNames, \* memberships the delete saw
             token : {"none"} \cup Requests]]
    /\ token \in [Requests ->
            [state : {"none", "live", "expired", "revoked", "cascaded"},
             user : {NoName} \cup Names,
             parent : {"none"} \cup Requests]] \* the token it was issued for
    /\ locked \in SUBSET Requests
    /\ deleted \in SUBSET Names
    /\ deletes \in 0 .. MaxDeletes

Init ==
    /\ account = Accounts
    /\ link = [g \in GroupNames |-> IF g \in Named THEN "unlinked" ELSE "none"]
    /\ members = {}
    /\ request = [r \in Requests |-> Ended("idle")]
    /\ token = [r \in Requests |-> NoToken]
    /\ locked = {}
    /\ deleted = {}
    /\ deletes = 0

At(r, at) == request[r].at = at

\* r has done with the groups, one way or another.
Synced(r) ==
    [Ended("issue") EXCEPT !.identity = request[r].identity, !.user = request[r].user]

Goes(r, changed) == request' = [request EXCEPT ![r] = changed]

-----------------------------------------------------------------------------
\* Accounts

\* A password that the local account's hash matches.
LocalLogin(r) ==
    \E n \in Names :
        /\ At(r, "idle")
        /\ account[n] = "local"
        /\ Goes(r, [Ended("issue") EXCEPT !.user = n])
        /\ UNCHANGED <<db, locked, deleted, deletes>>

\* The directory has accepted the credentials; is its identity known?
\* FindUserByLDAPIdentity, FindUserByOIDCIdentity.
FindUser(r) ==
    \E i \in Identities, reported \in Reports :
        LET known == {n \in Names : account[n] = i} IN
        /\ At(r, "idle")
        /\ Goes(r, [Ended("create") EXCEPT
                !.identity = i, !.reported = reported, !.todo = reported,
                !.at = IF known = {} THEN "create" ELSE "groups",
                !.user = IF known = {} THEN NoName ELSE CHOOSE n \in known : TRUE])
        /\ UNCHANGED <<db, locked, deleted, deletes>>

\* Mutant: no unique index on the identities.
CanInsert_AnyIdentity(name, i) == account[name] = "nobody"

CanInsert(name, i) ==
    account[name] = "nobody" /\ \A n \in Names : account[n] # i

\* CreateLDAPUser, CreateOIDCUser: the name as it comes, then once with a
\* suffix, whichever index it was that refused.
InsertUser(r) ==
    LET name == IF At(r, "create") THEN Plain(Preferred[request[r].identity])
                ELSE <<Preferred[request[r].identity], r>>
    IN
    /\ At(r, "create") \/ At(r, "createSuffixed")
    /\ \/ /\ CanInsert(name, request[r].identity)
          /\ account' = [account EXCEPT ![name] = request[r].identity]
          /\ Goes(r, [request[r] EXCEPT !.at = "groups", !.user = name])
       \/ /\ ~CanInsert(name, request[r].identity)
          /\ Goes(r, IF At(r, "create")
                     THEN [request[r] EXCEPT !.at = "createSuffixed"]
                     ELSE Ended("failed"))
          /\ UNCHANGED account
    /\ UNCHANGED <<link, members, token, locked, deleted, deletes>>

-----------------------------------------------------------------------------
\* Group memberships

Linked(l) == {g \in GroupNames : link[g] = l}

\* The link l of r resolved to g.
Resolved(r, l, g) ==
    Goes(r, [request[r] EXCEPT !.at = "groups", !.link = "none",
                               !.todo = @ \ {l}, !.found = @ \cup {g}])

\* findGroupByLink, the first time.
FindGroup(r) ==
    \E l \in request[r].todo :
        /\ At(r, "groups")
        /\ IF Linked(l) = {}
           THEN Goes(r, [request[r] EXCEPT !.at = "insertGroup", !.link = l])
           ELSE Resolved(r, l, CHOOSE g \in Linked(l) : TRUE)
        /\ UNCHANGED <<db, locked, deleted, deletes>>

\* insertSyncedGroup
InsertGroup(r) ==
    LET l == request[r].link
        name == IF At(r, "insertGroup") THEN Plain(Display[l]) ELSE <<Display[l], r>>
    IN
    /\ At(r, "insertGroup") \/ At(r, "insertSuffixed")
    /\ \/ /\ link[name] = "none" /\ Linked(l) = {}
          /\ link' = [link EXCEPT ![name] = l]
          /\ Resolved(r, l, name)
       \/ /\ link[name] # "none" \/ Linked(l) # {}
          /\ Goes(r, IF At(r, "insertGroup")
                     THEN [request[r] EXCEPT !.at = "findAgain"]
                     ELSE Synced(r))
          /\ UNCHANGED link
    /\ UNCHANGED <<account, members, token, locked, deleted, deletes>>

\* The insert was refused: by the index on links, or by the one on names?
FindGroupAgain(r) ==
    LET l == request[r].link IN
    /\ At(r, "findAgain")
    /\ IF Linked(l) = {}
       THEN Goes(r, [request[r] EXCEPT !.at = "insertSuffixed"])
       ELSE Resolved(r, l, CHOOSE g \in Linked(l) : TRUE)
    /\ UNCHANGED <<db, locked, deleted, deletes>>

GroupsOf(n) == {g \in GroupNames : <<n, g>> \in members}

\* replaceGroupMembership's delete: its statement sees what is committed now.
DeleteMemberships(r) ==
    LET n == request[r].user IN
    /\ At(r, "groups")
    /\ request[r].todo = {}
    /\ Goes(r, [request[r] EXCEPT !.at = "replace", !.before = GroupsOf(n)])
    /\ UNCHANGED <<db, locked, deleted, deletes>>

\* Mutant: the memberships are added to those there were.
Replaced_Added(r) ==
    members \cup ({request[r].user} \X request[r].found)

\* What the rows the delete saw, less and more by what has been committed
\* since, and the inserts make.
Replaced(r) ==
    (members \ ({request[r].user} \X request[r].before))
        \cup ({request[r].user} \X request[r].found)

\* The inserts and the commit.  The insert of a row that another transaction
\* has committed since fails, and so does one for a group or a user that is
\* gone: the transaction is undone, and the login goes on.  A row that two
\* transactions delete goes with the first; one inserted in its place stays.
InsertMemberships(r) ==
    LET n == request[r].user
        refused == \/ account[n] = "nobody"
                   \/ Gone \in request[r].found
                   \/ request[r].found \cap (GroupsOf(n) \ request[r].before) # {}
    IN
    /\ At(r, "replace")
    /\ members' = IF refused THEN members ELSE Replaced(r)
    /\ request' = [q \in Requests |->
            IF q = r THEN Synced(r)
            ELSE IF refused \/ request[q].user # n THEN request[q]
            ELSE [request[q] EXCEPT !.before = @ \ request[r].before]]
    /\ UNCHANGED <<account, link, token, locked, deleted, deletes>>

\* A statement of syncGroupMembership fails: that is logged.
SyncFails(r) ==
    /\ request[r].at \in {"groups", "insertGroup", "findAgain", "insertSuffixed", "replace"}
    /\ Goes(r, Synced(r))
    /\ UNCHANGED <<db, locked, deleted, deletes>>

-----------------------------------------------------------------------------
\* Refresh tokens

\* CreateRefreshToken; its row refers to the user's.
IssueToken(r) ==
    /\ At(r, "issue")
    /\ IF account[request[r].user] = "nobody"
       THEN Goes(r, Ended("failed")) /\ UNCHANGED token
       ELSE /\ Goes(r, [request[r] EXCEPT !.at = "done"])
            /\ token' = [token EXCEPT ![r] =
                    [state |-> "live", user |-> request[r].user, parent |-> "none"]]
    /\ UNCHANGED <<account, link, members, locked, deleted, deletes>>

\* A client refreshes with a token it was once given: perhaps not for the
\* first time, perhaps while another request does.
Refresh(r) ==
    \E t \in Requests :
        /\ At(r, "idle")
        /\ token[t].state # "none"
        /\ Goes(r, [Ended("lookUp") EXCEPT !.token = t])
        /\ UNCHANGED <<db, locked, deleted, deletes>>

\* Mutant: SELECT without FOR UPDATE.
LookUp_NoLock(r) ==
    LET t == request[r].token IN
    /\ At(r, "lookUp")
    /\ IF token[t].state = "live"
       THEN /\ Goes(r, [request[r] EXCEPT !.at = "rotate", !.user = token[t].user])
            /\ locked' = locked \cup {t}
       ELSE Goes(r, Ended("refused")) /\ UNCHANGED locked
    /\ UNCHANGED <<db, deleted, deletes>>

\* RotateRefreshToken's SELECT ... FOR UPDATE: it waits for a transaction
\* that has the row, and looks at what that one has left.
LookUp(r) ==
    LET t == request[r].token IN
    /\ At(r, "lookUp")
    /\ t \notin locked
    /\ IF token[t].state = "live"
       THEN /\ Goes(r, [request[r] EXCEPT !.at = "rotate", !.user = token[t].user])
            /\ locked' = locked \cup {t}
       ELSE Goes(r, Ended("refused")) /\ UNCHANGED locked
    /\ UNCHANGED <<db, deleted, deletes>>

\* Mutant: the row stays locked.
Rotate_KeepsLock(r) ==
    LET t == request[r].token IN
    /\ At(r, "rotate")
    /\ token' = [token EXCEPT
            ![t].state = "revoked",
            ![r] = [state |-> "live", user |-> request[r].user, parent |-> t]]
    /\ Goes(r, [request[r] EXCEPT !.at = "done"])
    /\ UNCHANGED <<account, link, members, locked, deleted, deletes>>

\* The commit: the old token is revoked and the new one is there.
Rotate(r) ==
    LET t == request[r].token IN
    /\ At(r, "rotate")
    /\ token' = [token EXCEPT
            ![t].state = "revoked",
            ![r] = [state |-> "live", user |-> request[r].user, parent |-> t]]
    /\ locked' = locked \ {t}
    /\ Goes(r, [request[r] EXCEPT !.at = "done"])
    /\ UNCHANGED <<account, link, members, deleted, deletes>>

-----------------------------------------------------------------------------

\* A statement fails, or the client goes away: nothing is committed.
Fails(r) ==
    /\ request[r].at \in {"create", "createSuffixed", "issue", "lookUp", "rotate"}
    /\ locked' = IF At(r, "rotate") THEN locked \ {request[r].token} ELSE locked
    /\ Goes(r, Ended("failed"))
    /\ UNCHANGED <<db, deleted, deletes>>

\* The process, or its host, goes down: transactions are undone.
Crash ==
    /\ \E r \in Requests : request[r].at \in Running
    /\ request' = [r \in Requests |->
            IF request[r].at \in Running THEN Ended("failed") ELSE request[r]]
    /\ locked' = {}
    /\ UNCHANGED <<db, deleted, deletes>>

\* The token's time is up.
Expire(t) ==
    /\ token[t].state = "live"
    /\ token' = [token EXCEPT ![t].state = "expired"]
    /\ UNCHANGED <<account, link, members, request, locked, deleted, deletes>>

\* Administrators.  The rows that refer to a user or a group go along; the
\* delete waits for a transaction that has one of them.
DeleteUser(n) ==
    /\ account[n] # "nobody"
    /\ \A t \in locked : token[t].user # n
    /\ \A r \in Requests : request[r].user = n => request[r].before = {}
    /\ account' = [account EXCEPT ![n] = "nobody"]
    /\ members' = {m \in members : m[1] # n}
    /\ token' = [t \in Requests |->
            IF token[t].user = n THEN [token[t] EXCEPT !.state = "cascaded"]
            ELSE token[t]]
    /\ deleted' = deleted \cup {n}
    /\ deletes < MaxDeletes
    /\ deletes' = deletes + 1
    /\ UNCHANGED <<link, request, locked>>

\* Mutant: the groups' members do not go with them.
DeleteGroup_KeepsMembers(g) ==
    /\ link[g] # "none"
    /\ \A r \in Requests : g \notin request[r].before
    /\ link' = [link EXCEPT ![g] = "none"]
    /\ request' = [r \in Requests |-> [request[r] EXCEPT
            !.found = IF g \in @ THEN (@ \ {g}) \cup {Gone} ELSE @]]
    /\ deletes < MaxDeletes
    /\ deletes' = deletes + 1
    /\ UNCHANGED <<account, members, token, locked, deleted>>

\* A group that is made later has another id, whatever its name.
DeleteGroup(g) ==
    /\ link[g] # "none"
    /\ \A r \in Requests : g \notin request[r].before
    /\ link' = [link EXCEPT ![g] = "none"]
    /\ members' = {m \in members : m[2] # g}
    /\ request' = [r \in Requests |-> [request[r] EXCEPT
            !.found = IF g \in @ THEN (@ \ {g}) \cup {Gone} ELSE @]]
    /\ deletes < MaxDeletes
    /\ deletes' = deletes + 1
    /\ UNCHANGED <<account, token, locked, deleted>>

Proceed(r) ==
    \/ InsertUser(r)
    \/ FindGroup(r)
    \/ InsertGroup(r)
    \/ FindGroupAgain(r)
    \/ DeleteMemberships(r)
    \/ InsertMemberships(r)
    \/ IssueToken(r)
    \/ Rotate(r)

Next ==
    \/ \E r \in Logins : LocalLogin(r) \/ FindUser(r)
    \/ \E r \in Refreshes : Refresh(r)
    \/ \E r \in Requests :
        \/ Proceed(r)
        \/ LookUp(r)
        \/ SyncFails(r)
        \/ Fails(r)
    \/ \E t \in Requests : Expire(t)
    \/ \E n \in Names : DeleteUser(n)
    \/ \E g \in GroupNames : DeleteGroup(g)
    \/ Crash

Spec == Init /\ [][Next]_vars

\* Handlers run on, and the database grants a row's lock in turn.
FairSpec ==
    /\ Spec
    /\ \A r \in Requests : WF_vars(Proceed(r)) /\ SF_vars(LookUp(r))
-----------------------------------------------------------------------------
\* Properties

\* A refresh token is redeemed once, for one other of the same user, however
\* many requests bring it at once and wherever they stop: a token is revoked
\* exactly when another was issued for it.
SingleUse ==
    \A t \in Requests :
        LET heirs == {u \in Requests : token[u].parent = t} IN
        /\ \A u, w \in heirs : u = w
        /\ \A u \in heirs : token[u].user = token[t].user
        /\ token[t].state = "revoked" => heirs # {}
        /\ heirs # {} => token[t].state \in {"revoked", "cascaded"}

\* Concurrent first logins make one account of an identity, and a login runs
\* and ends as the account of the identity that the directory has confirmed,
\* unless an administrator deleted an account of that name.
AccountsMatch ==
    /\ \A m, n \in Names :
            account[m] = account[n] /\ account[m] \in Identities => m = n
    /\ \A r \in Requests :
            LET q == request[r] IN
            q.identity # "none" /\ q.user # NoName /\ q.user \notin deleted =>
                account[q.user] = q.identity

\* What refers to a user or a group goes when that does, whoever is about to
\* add to it: no membership and no usable token is left of one deleted.
References ==
    /\ \A m \in members : account[m[1]] # "nobody" /\ link[m[2]] # "none"
    /\ \A t \in Requests :
            token[t].state \in {"live", "expired", "revoked"} =>
                account[token[t].user] # "nobody"

\* A login that replaces a user's memberships leaves exactly those that the
\* directory reported, whatever groups were made or deleted meanwhile, unless
\* another login of the user replaced them since this one's delete.
ReplacedUnlessOverlapped ==
    [][\A r \in Requests :
        LET n == request[r].user IN
        InsertMemberships(r) /\ members' # members /\ GroupsOf(n) = request[r].before =>
            {link[g] : g \in GroupsOf(n)'} = request[r].reported]_vars

\* Every request is answered, requests that wait for the row of one token too.
Answers == \A r \in Requests : request[r].at \in Running ~> request[r].at \in Answered
=============================================================================
