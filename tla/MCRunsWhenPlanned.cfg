SPECIFICATION Spec
CONSTANTS
    JobIds = {j1, j2}
    Workers = {w1}
    MaxAttempts = 1
    MaxOutages = 0
    MaxRequests = 1
    Slots <- MCSlots
    None = None
    Nodes = {n1}
    Urls = {u1}
    ScheduleIds = {s1}
    Plans <- MCPlans
    Week = 2
    Month = 3
    MaxDay = 2
CHECK_DEADLOCK FALSE
INVARIANTS
    RunsWhenPlanned
