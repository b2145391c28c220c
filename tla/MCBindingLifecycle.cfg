SPECIFICATION Spec
CONSTANTS
    MaxEdits = 2
    MaxFaults = 2
    MaxKills = 2
    Sids = {1, 2, 3, 4}
    Avoided = {"decision lost", "review torn", "restore at a question", "pending recovery",
               "mapping refused", "mount lost at work", "session left open",
               "recovery beside a pass", "unbound at work", "foreign replica"}
    None = None
INVARIANT OwesNothing
PROPERTY EverySettles
