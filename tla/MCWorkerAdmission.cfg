SPECIFICATION Spec
CONSTANTS
    Controllers = {c1, c2}
    Jobs = {j1, j2}
    Executions = {e1, e2}
    NoOne = NoOne
    NoJob = NoJob
    NoExec = NoExec
INVARIANTS
    SingleEffects
    EffectsRecorded
    OutputOfOriginal
PROPERTIES
    DurableMonotone
    ImplementsOneShot
CHECK_DEADLOCK FALSE
