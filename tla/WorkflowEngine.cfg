SPECIFICATION EngineSpec
CONSTANTS
    NSteps = 3
    Modes <- MCModes
    Leasings <- MCLeasings
    Softs = {TRUE, FALSE}
    MaxStepCalls = 2
    MaxCalls = 3
    MaxEngines = 2
    MaxApprovals = 2
INVARIANTS
    LeaseFitsStep
    NoStepSkipped
    SnapshotFitsReport
    QueuedCallsAreCurrent
PROPERTIES
    SuspensionEnds
CHECK_DEADLOCK FALSE
