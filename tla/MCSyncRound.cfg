SPECIFICATION FairSpec
CONSTANTS
    Bodies = {b1}
    None = None
    MaxPage = 1
    MaxRounds = 2
    MinKeep = 0
    MaxSeq = 2
    MaxRev = 2
    MaxFaults = 1
    MaxEpoch = 2
CHECK_DEADLOCK FALSE
INVARIANTS
    RecoveryHasCause
PROPERTIES
    ReportsGrow
    KeepsLedger
    EveryEditLands
