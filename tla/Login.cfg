SPECIFICATION FairSpec
CONSTANTS
    i1 = i1
    l1 = l1
    l2 = l2
    r1 = r1
    r2 = r2
    r3 = r3
    r4 = r4
    Logins = {r1, r2}
    Refreshes = {r3, r4}
    Identities = {i1}
    Links = {l1, l2}
    Preferred <- MCPreferred
    Display <- MCDisplay
    Reports <- MCReports
    Accounts <- MCAccounts
    Named <- MCNamed
    MaxDeletes = 1
INVARIANTS
    SingleUse
    AccountsMatch
    References
PROPERTIES
    ReplacedUnlessOverlapped
    Answers
CHECK_DEADLOCK FALSE
