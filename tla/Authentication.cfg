SPECIFICATION FairSpec
CONSTANTS
    None = None
    w1 = w1
    w2 = w2
    m = m
    u = u
    p = p
    q = q
    Workers = {w1, w2}
    Ips = {ip1}
    Names = {m, u}
    Secrets = {p, q}
    Tokens = {t1}
    Master = m
    FirstSecret = p
    MaxFailures = 2
    Window = 2
    SessionTTL = 1
    MaxAccounts = 2
INVARIANTS
    TypeOK
    FailuresBounded
    AccountsDistinct
PROPERTIES
    LockoutEnds
    AccessKept
