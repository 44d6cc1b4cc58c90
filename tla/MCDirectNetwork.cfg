SPECIFICATION FairSpec
CONSTANTS
    None = None
    Tables = {t1, t2}
    Uplinks = {u1}
    Clients = {c1}
    MaxMoves = 2
    MaxFaults = 1
INVARIANTS
    LiveTablesComplete
    OthersKept
PROPERTIES
    NeverUnprotected
    ReadyIsTrue
    EventuallyReady
CHECK_DEADLOCK FALSE
