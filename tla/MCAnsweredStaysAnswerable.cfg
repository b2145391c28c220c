SPECIFICATION RetentionSpec
CONSTANTS
    NodeIds = {n1, n2}
    main = main
    RootKeys <- MCRootKeys
    MainSlots = {main}
    Titles = {t1}
    Urls = {u1}
    None = None
    Bindings = {d1}
    Origins <- MCOrigins
    MaxRev = 3
    MaxSeq = 1
    MaxOps = 1
    MaxEpoch = 1
    MinKeep = 1
SYMMETRY Symmetry
CHECK_DEADLOCK FALSE
INVARIANTS
    AnsweredStaysAnswerable
