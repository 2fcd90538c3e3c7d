SPECIFICATION Spec
CONSTANTS
    r1 = r1
    w1 = w1
    Requests = {r1}
    Writers = {w1}
    Initial <- MCInitial
    Bundles = {{}, {"admin"}}
    Grants = {{}, {"edit"}}
    Visibilities = {{}, {"anonymous"}}
    Ttl = 1
    MaxLoad = 0
    MaxWrites = 2
    MaxTime = 2
INVARIANTS
    StaleExplained
PROPERTIES
    AllowJustified
    DenyJustified
    IsCachedFacts
CHECK_DEADLOCK FALSE
