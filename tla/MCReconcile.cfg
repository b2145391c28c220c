SPECIFICATION Spec
CONSTANTS
    NodeIds = {1, 2, 3, 4, 5, 6, 7, 8, 9, 10, 11, 12, 13, 14, 15}
    BrowserIds = {21, 22, 23, 24, 25, 26, 27, 28, 29}
    main = main
    side = side
    a = a
    b = b
    u = u
    v = v
    RootKeys = {main}
    Titles = {a, b}
    Urls = {u, v}
    None = None
    Origins = {None}
    Type = "initial"
    Starts <- MCStarts
    Edits <- MCEdits
    MaxFaults = 2
CHECK_DEADLOCK FALSE
INVARIANTS
    PlanReachesDesired
    StepsResolve
    BaselineAgrees
    ActiveAtItsBaseline
    NothingStranded
