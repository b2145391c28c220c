SPECIFICATION LibrarySpec
CONSTANTS
    NodeIds <- MCFewIds
    Start <- MCStart
    Budget <- MCUndoOnly
    s1 = s1
    s2 = s2
    bar = bar
    t1 = t1
    u1 = u1
    RootKeys = {bar, rec}
    UndoRoot = rec
    Titles = {t1, u1}
    Urls = {u1}
    None = None
    Origins = {1, 2, 3, 4}
    Spaces = {s1, s2}
    Publishers = {s1}
    TransferIds = {x1}
    MaxRev = 4
    MaxEpoch = 1
    MaxSets = 4
    MaxVersion = 1
CHECK_DEADLOCK FALSE
INVARIANTS
    UndoneOnce
