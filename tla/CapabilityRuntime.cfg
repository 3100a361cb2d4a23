CONSTANTS
    Tools <- ToolNames
    External <- ExternalTools
    Leases <- LeaseNames
    Grants <- LeaseGrants
    NoLease = NoLease
    MaxPromises = 3
    MaxCalls = 2
    MaxPending = 2
    Limits <- Configurations
SPECIFICATION FairSpec
INVARIANTS
    OneOutcomePerCall
    PromisesAccountedFor
    LeaseSpansEvaluation
    DeadlineDecides
PROPERTIES
    CancellationStops
    SuspendedResumes
CHECK_DEADLOCK FALSE
