SPECIFICATION ServingSpec
CONSTANTS
    d1 = d1
    q1 = q1
    r1 = r1
    u1 = u1
    MaxVersion = 1
    NoTiles = NoTiles
    Partial = Partial
    Uploads = {u1}
    Remotes = {r1}
    RemoteVersions = {1}
    PutVersions = {1}
    Deletes = {d1}
    Faults = TRUE
    Readers = {q1}
    Asked <- OfEachCache
INVARIANTS
    CachedNameExplained
    BoundsExplained
