SPECIFICATION LifeFairSpec
CONSTANTS
    v1 = v1
    v2 = v2
    v3 = v3
    Constraints = 3
    Versions = {v1, v2, v3}
    MaxEnds = 3
INVARIANTS
    ServesReady
    IndexBackfilled
PROPERTIES
    RestartKeeps
    ComesUp
