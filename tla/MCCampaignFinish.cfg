SPECIFICATION FairSpec
CONSTANTS
    None = None
    PRs = {p1}
    Initially = {"OPEN"}
    Texts = {1}
    Evidence = {}
    Checks = {1}
    MaxForge = 1
    MaxReports = 1
    MaxAudits = 0
    MaxTurns = 9
INVARIANTS
    BoundedWakes
PROPERTIES
    EventuallyFinished
CHECK_DEADLOCK FALSE
