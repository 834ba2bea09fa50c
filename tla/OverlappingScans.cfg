SPECIFICATION FairSpec
CONSTANTS
    None = None
    Root = Root
    f1 = f1
    f2 = f2
    A = A
    i1 = i1
    i2 = i2
    s1 = s1
    s2 = s2
    c1 = c1
    r1 = r1
    t1 = t1
    t2 = t2
    p1 = p1
    Files = {f1}
    Dirs = {A}
    Versions = {1}
    Infos = {i1, i2}
    Info <- MCInfo
    Pages <- MCPages
    Parent <- MCParent
    Scanners = {s1, s2}
    Crons = {}
    Refreshers = {}
    Timers = {}
    Pathers = {}
    CommitEvery = 1
    AutoIndex = FALSE
    Restores = TRUE
    MaxChanges = 2
    MaxRequests = 2
    MaxCrashes = 1
PROPERTIES
    StatusSettles
    NoInnocentRemoval
CHECK_DEADLOCK FALSE
