SPECIFICATION SpecUpToNames
CONSTANTS
    None = None
    Manifest <- TwoOwners
    Host <- OneHost
    Capacity <- RoomForOne
    Producers = {}
    Versions = {v1, v2}
    Texts = {t1, t2}
    FailingCompactions = TRUE
    MaxEvents = 1
    MaxFaults = 1
PROPERTIES
    FairAdmission
    EventuallyDelivered
INVARIANTS
    NoIdRebinding
    SentIsJournalled
    NothingLost
    HostCapacity
CHECK_DEADLOCK FALSE
