SPECIFICATION FairSpec
CONSTANTS
    a1 = a1
    m1 = m1
    m2 = m2
    Maps = {m1, m2}
    Aliases = {a1}
    Current = Current
    MaxVersion = 2
    MaxEdits = 3
    MaxFaults = 1
    SyncAllMaps = FALSE
    SyncNewMaps = TRUE
    Selected = {m1}
    MaxConcurrentMapSyncs = 1
INVARIANTS
    CurrentTargetPulled
PROPERTIES
    IsMirror
    Converges
