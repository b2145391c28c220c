SPECIFICATION ReplaySpec
CONSTANTS
    NodeIds = {n1, n2, n3}
    RootKeys = {main}
    Titles = {t1}
    Urls = {u1}
    None = None
    Origins = {web}
    Locals = {}
    MaxRev = 5
SYMMETRY Symmetry
CHECK_DEADLOCK FALSE
INVARIANT BrowserOrderIsCanonical
