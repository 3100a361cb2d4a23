CONSTANTS
    MaxRequests = 1
    MaxCalls = 1
    MaxIds = 2
    Modes = {TRUE}
SPECIFICATION FairSpec
INVARIANT DeliveredResultKept
CHECK_DEADLOCK FALSE
