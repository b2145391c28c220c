SPECIFICATION RetentionSpec
CONSTANTS
    NodeIds = {n1, n2}
    main = main
    RootKeys <- MCRootKeys
    MainSlots = {main}
    Titles = {t1, t2}
    Urls = {u1}
    None = None
    Bindings = {d1, d2}
    Origins <- MCOrigins
    MaxRev = 3
    MaxSeq = 2
    MaxOps = 2
    MaxEpoch = 1
    MinKeep = 1
SYMMETRY Symmetry
CHECK_DEADLOCK FALSE
INVARIANTS
    EffectOnce
    RetryReplays
    HonestOpRecognised
    NoLostUpdate
    AnswerNamesItsCause
    NewDataProtected
