SPECIFICATION ReplaySpec
CONSTANTS
    NodeIds = {n1, n2, n3}
    RootKeys = {main}
    Titles = {t1, t2}
    Urls = {u1}
    None = None
    Origins = {web}
    Locals = {l1}
    MaxRev = 4
SYMMETRY Symmetry
CHECK_DEADLOCK FALSE
INVARIANTS
    TypeOK
    TreeWellFormed
    RowsConsistent
    ReplicaContent
    OrderKeptUntilDelete
    ReplayContent
