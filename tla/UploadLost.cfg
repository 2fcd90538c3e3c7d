SPECIFICATION Spec
CONSTANTS
    u1 = u1
    MaxVersion = 2
    NoTiles = NoTiles
    Uploads = {u1}
    Remotes = {}
    RemoteVersions = {}
    PutVersions = {}
    Deletes = {}
    Faults = TRUE
INVARIANTS
    RecordedOnDisk
CHECK_DEADLOCK FALSE
