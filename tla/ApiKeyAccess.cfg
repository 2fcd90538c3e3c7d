SPECIFICATION Spec
CONSTANTS
    r1 = r1
    v1 = v1
    v2 = v2
    w1 = w1
    Requests = {r1}
    Writers = {w1}
    Initial <- MCInitial
    Versions = {v1, v2}
    Ttl = 1
    MaxLoad = 1
    MaxWrites = 2
    MaxTime = 3
INVARIANTS
    ScopesCount
PROPERTIES
    AllowJustified
    DenyJustified
    IsCachedFacts
CHECK_DEADLOCK FALSE
