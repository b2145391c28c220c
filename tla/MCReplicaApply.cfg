SPECIFICATION Spec
CONSTANTS
    Folders = {f1, f2}
    Words = {w1, w2}
    Alike = FALSE
    Prompt = TRUE
    MaxWrites = 3
    MaxEdits = 2
    MaxJournal = 4
    MaxExpected = 3
    MaxKills = 1
    None = None
SYMMETRY Symmetry
CHECK_DEADLOCK FALSE
INVARIANTS
    UploadsAreTheUsers
    QuietAgrees
