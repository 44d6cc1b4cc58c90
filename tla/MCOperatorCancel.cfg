SPECIFICATION Spec
CONSTANTS
    w1 = w1
    w2 = w2
    c1 = c1
    c2 = c2
    Workers <- MCWorkers
    Contracts <- MCContracts
    Quiesce <- MCQuiesce
    NoContract = NoContract
    StageCount = 1
    MaxAttempts = 1
    MaxRequests = 1
    MaxFaults = 2
    MaxLost = 0
PROPERTIES
    CancelledNeverReplays
CHECK_DEADLOCK FALSE
