SPECIFICATION FairSpec
CONSTANTS
    o1 = o1
    o2 = o2
    r1 = r1
    r2 = r2
    Remotes = {r1, r2}
    Objects = {o1, o2}
    MaxChanges = 4
    MaxFaults = 1
INVARIANTS
    CopyComplete
PROPERTIES
    Converges
