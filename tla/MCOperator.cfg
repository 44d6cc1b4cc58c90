SPECIFICATION FairSpec
CONSTANTS
    w1 = w1
    w2 = w2
    c1 = c1
    c2 = c2
    Workers <- MCWorkers
    Contracts <- MCContracts
    Quiesce <- MCQuiesce
    NoContract = NoContract
    StageCount = 2
    MaxAttempts = 2
    MaxRequests = 1
    MaxFaults = 2
    MaxLost = 1
INVARIANTS
    WorkersRemembered
    StageExclusion
    FenceHasRecovery
    BudgetAcrossCrashes
PROPERTIES
    StartJustified
    WorkersRestored
CHECK_DEADLOCK FALSE
