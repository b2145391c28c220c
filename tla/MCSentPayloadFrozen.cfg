SPECIFICATION Spec
CONSTANTS
    Bodies = {b1, b2}
    None = None
    MaxPage = 1
    MaxRounds = 2
    MinKeep = 0
    MaxSeq = 1
    MaxRev = 1
    MaxFaults = 1
    MaxEpoch = 1
CHECK_DEADLOCK FALSE
INVARIANTS
    SentPayloadFrozen
