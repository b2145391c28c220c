SPECIFICATION Spec
CONSTANTS
    JobIds = {j1, j2}
    Workers = {w1, w2}
    MaxAttempts = 2
    MaxOutages = 1
    Slots <- MCSlots
    None = None
    Nodes = {n1}
    Urls = {u1, u2}
    MaxRequests = 2
    ScheduleIds = {s1}
    Plans <- MCPlans
    Week = 2
    Month = 3
    MaxDay = 2
SYMMETRY Symmetry
CHECK_DEADLOCK FALSE
INVARIANTS
    OneRunner
    AnswersForTheirURL
    ScheduledRunComplete
    OccurrencesHaveOneJob
