SPECIFICATION ServingSpec
CONSTANTS
    q1 = q1
    r1 = r1
    MaxVersion = 2
    NoTiles = NoTiles
    Partial = Partial
    Uploads = {}
    Remotes = {r1}
    RemoteVersions = {1, 2}
    PutVersions = {}
    Deletes = {}
    Faults = TRUE
    Readers = {q1}
    Asked <- Named
INVARIANTS
    RecordedOnDisk
    CurrentServable
    ResolvedServable
PROPERTIES
    RecordedImmutable
