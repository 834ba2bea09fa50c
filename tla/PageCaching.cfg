SPECIFICATION FairSpec
CONSTANTS
    None = None
    Mixed = Mixed
    b1 = b1
    b2 = b2
    v1 = v1
    v2 = v2
    cover = cover
    leaf = leaf
    Books = {b1, b2}
    Readers = {r1, r2}
    Cleaners = {c1}
    Versions = {v1, v2}
    PagesOf <- MCPagesOf
    FirstDisk <- MCFirstDisk
    MinPage <- MCMinPage
    MaxPage = 1
    MaxBytes = 1
    Idle = 1
    MaxRequests = 2
    MaxTroubles = 1
INVARIANTS
    TypeOK
    CachedRight
    ServedUnlessCleaned
PROPERTIES
    PassKeepsCap
    Forgotten
