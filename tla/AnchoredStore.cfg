CONSTANTS
    Procs = {p1, p2}
    Payloads = {a, b}
    NoPayload = NoPayload
    MaxRevision = 2
    MaxFence = 2
    MaxPending = 1
    MaxRetries = 2
    MaxRestores = 0
    ExternalLeases = FALSE
    Recovery = TRUE
SYMMETRY Symmetry
SPECIFICATION Spec
INVARIANTS
    CommittedRowPresent
    RowsBounded
    MissingMeansMoved
    LeasesUnique
PROPERTIES
    ImplementsFencedStore
CHECK_DEADLOCK FALSE
