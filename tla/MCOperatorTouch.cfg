SPECIFICATION Spec
CONSTANTS
    w1 = w1
    w2 = w2
    c1 = c1
    c2 = c2
    Workers <- MCWorkers
    Contracts <- MCContracts
    Quiesce <- MCQuiesce
    NoContract = NoContract
    StageCount = 1
    MaxAttempts = 1
    MaxRequests = 2
    MaxFaults = 0
    MaxLost = 0
PROPERTIES
    MarkerNotSwallowed
CHECK_DEADLOCK FALSE
