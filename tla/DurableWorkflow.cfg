SPECIFICATION Spec
CONSTANTS
    NSteps = 2
    Modes <- MCModes
    Leasings <- MCLeasings
    Softs = {FALSE}
    MaxStepCalls = 1
    MaxCalls = 2
    MaxEngines = 2
    MaxApprovals = 2
    MaxOperations = 2
    Outcomes <- MCOutcomes
    Scopes <- MCScopes
    r1 = r1
    r2 = r2
    Recoverers <- MCRecoverers
    Recoverable <- FirstCall
    MaxRevision = 12
    MaxFence = 4
INVARIANTS
    CompensationIsDecided
    OutcomeStopsDispatch
PROPERTIES
    StoredOutcomeIsFinal
    DispatchServesCurrentCall
CHECK_DEADLOCK FALSE
