SPECIFICATION FairSpec
CONSTANTS
    None = None
    Empty = Empty
    b1 = b1
    b2 = b2
    plain = plain
    jpg = jpg
    odd = odd
    dotted = dotted
    scan = scan
    admin = admin
    w1 = w1
    w2 = w2
    w3 = w3
    Books = {b1, b2}
    Passes = {scan, admin}
    ScanPasses = {scan}
    Workers = {w1, w2, w3}
    PoolOf <- MCPoolOf
    FirstShelves <- MCFirstShelves
    Safe <- MCSafe
    FilesOf <- MCFilesOf
    IssuesOf <- MCIssuesOf
    MaxCovers = 1
    MaxTroubles = 1
INVARIANTS
    TypeOK
    Accounted
    CoverSharedByName
PROPERTIES
    ProgressHonest
    PassEnds
