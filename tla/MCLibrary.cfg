SPECIFICATION LibrarySpec
CONSTANTS
    NodeIds <- MCNodeIds
    Start <- MCStart
    Budget <- MCBudget
    s1 = s1
    s2 = s2
    bar = bar
    t1 = t1
    u1 = u1
    RootKeys = {bar, rec}
    UndoRoot = rec
    Titles = {t1, u1}
    Urls = {u1}
    None = None
    Origins = {1, 2, 3}
    Spaces = {s1, s2}
    Publishers = {s1}
    TransferIds = {x1}
    MaxRev = 4
    MaxEpoch = 2
    MaxSets = 3
    MaxVersion = 2
CHECK_DEADLOCK FALSE
INVARIANTS
    RevivedIsLive
PROPERTIES
    UndoInverts
    UndoSparesLaterWork
    TransferConserves
    TreesArrive
    DeletesWhatWasChecked
