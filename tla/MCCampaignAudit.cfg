SPECIFICATION Spec
CONSTANTS
    None = None
    PRs = {p1}
    Initially = {"OPEN", "MERGED", "CLOSED"}
    Texts = {1}
    Evidence = {e1}
    Checks = {1}
    MaxForge = 2
    MaxReports = 1
    MaxAudits = 1
    MaxTurns = 2
INVARIANTS
    FinishedIsAudited
    WaitingHeld
PROPERTIES
    AdoptionIsCurrent
CHECK_DEADLOCK FALSE
