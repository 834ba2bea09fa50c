SPECIFICATION FairSpec
CONSTANTS
    None = None
    Blank = Blank
    Invalid = Invalid
    f1 = f1
    f2 = f2
    f3 = f3
    f4 = f4
    s = s
    t = t
    u = u
    tu = tu
    odd = odd
    and = and
    vol = vol
    home = home
    Rels = {f1, f2, f3, f4}
    Ranking <- MCRanking
    TokensOf <- MCTokensOf
    Operators = {and}
    RowChoices <- MCRowChoices
    FirstIndexes <- MCFirstIndexes
    Lists <- MCLists
    Feeds <- MCFeeds
    PageSize = 2
    MaxChanges = 2
INVARIANTS
    TypeOK
    WalkComplete
    MissedAtMostGone
    VolumesPartition
    DistinctOfOneGroup
    PrefilterHarmless
PROPERTIES
    WalkEnds
