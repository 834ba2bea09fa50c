SPECIFICATION Spec
CONSTANTS
    None = None
    Blank = Blank
    Invalid = Invalid
    f1 = f1
    f2 = f2
    f3 = f3
    f4 = f4
    s = s
    t = t
    u = u
    tu = tu
    odd = odd
    and = and
    vol = vol
    home = home
    Rels = {f1, f2, f3, f4}
    Ranking <- MCRanking
    TokensOf <- MCTokensOf
    Operators = {and}
    RowChoices <- MCRowChoices
    FirstIndexes <- MCFirstIndexes
    Lists <- MCListsTorn
    Feeds <- MCFeeds
    PageSize = 2
    MaxChanges = 1
INVARIANT
    DistinctAtMostOne
