CONSTANTS
    MaxRequests = 4
    MaxCalls = 3
    MaxIds = 5
    Modes = {TRUE, FALSE}
SPECIFICATION FairSpec
INVARIANTS
    NoProtocolFault
    OutcomeIsTruthful
    NoDetachedEffect
PROPERTIES
    CallsEnd
CHECK_DEADLOCK FALSE
