SPECIFICATION SyncSpec
CONSTANTS
    NodeIds = {n1, n2}
    main = main
    RootKeys <- MCRootKeys
    MainSlots = {main}
    Titles = {t1}
    Urls = {u1}
    None = None
    Bindings = {d1}
    Origins <- MCOrigins
    MaxRev = 2
    MaxSeq = 2
    MaxOps = 2
    MaxEpoch = 2
    MinKeep = 1
SYMMETRY Symmetry
CHECK_DEADLOCK FALSE
INVARIANTS
    JournalOfThisEpoch
