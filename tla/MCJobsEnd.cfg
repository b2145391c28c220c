SPECIFICATION FairSpec
CONSTANTS
    JobIds = {j1}
    Workers = {w1, w2}
    MaxAttempts = 2
    MaxOutages = 2
    MaxRequests = 1
    Slots <- MCSlots
    None = None
    Nodes = {n1}
    Urls = {u1}
    ScheduleIds = {s1}
    Plans <- MCPlans
    Week = 2
    Month = 3
    MaxDay = 2
CHECK_DEADLOCK FALSE
PROPERTIES
    EveryJobEnds
