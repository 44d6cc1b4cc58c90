SPECIFICATION Spec
CONSTANTS
    None = None
    Heads = {1, 2}
    Bases = {1, 2}
    Opening <- MCOpening
    UpToDate <- MCUpToDate
    Providers = {"roborev", "greptile"}
    MaxMoves = 1
    MaxReviews = 1
    MaxFaults = 1
    Procs = {"owner", "gate"}
    Host <- TwoProcs
    Commands <- TwoCommands
    Standing = {"gate"}
    Faulty = {"owner"}
    Workers = {w1}
INVARIANTS
    TypeOK
    OneRequest
    OneJob
    SuccessIsEarned
CHECK_DEADLOCK FALSE
