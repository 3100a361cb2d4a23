CONSTANTS
    Tools <- ToolNames
    External <- ExternalTools
    Leases <- LeaseNames
    Grants <- LeaseGrants
    NoLease = NoLease
    MaxPromises = 2
    MaxCalls = 2
    MaxPending = 2
    Limits <- SoftConfiguration
SPECIFICATION Spec
INVARIANT SuspendedIsResumable
CHECK_DEADLOCK FALSE
