SPECIFICATION FairSpec
CONSTANTS
    d1 = d1
    u1 = u1
    u2 = u2
    u3 = u3
    MaxVersion = 3
    NoTiles = NoTiles
    Uploads = {u1, u2, u3}
    Remotes = {}
    RemoteVersions = {}
    PutVersions = {1, 3}
    Deletes = {d1}
    Faults = TRUE
INVARIANTS
    TypeOK
    UploadVersionsDistinct
    TilesBelongToVersion
    PublishedUploadKept
PROPERTIES
    UploadsAnswered
CHECK_DEADLOCK FALSE
