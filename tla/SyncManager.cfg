SPECIFICATION FairSpec
CONSTANTS
    c1 = c1
    c2 = c2
    r1 = r1
    s1 = s1
    s2 = s2
    Remotes = {r1}
    Configs = {c1, c2}
    Off = Off
    Slots = {s1, s2}
    MaxEdits = 2
    None = None
INVARIANTS
    OneWorkerMidSync
    NoOrphanWorker
PROPERTIES
    Converges
    AllStop
    TriggerServed
