CONSTANTS
    Procs = {p1, p2}
    Payloads = {a, b}
    NoPayload = NoPayload
    MaxRevision = 2
    MaxFence = 1
    MaxPending = 1
    MaxRetries = 2
    MaxRestores = 1
    ExternalLeases = TRUE
    Recovery = FALSE
SYMMETRY Symmetry
SPECIFICATION Spec
INVARIANTS
    LoadsReturnCommitted
    AnswersAreDefinite
CHECK_DEADLOCK FALSE
