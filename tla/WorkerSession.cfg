CONSTANTS
    Workers = {w1, w2}
    Keys = {k, l}
    Identities = {i, j}
    NoIdentity = NoIdentity
    NoJournal = NoJournal
    MaxRevision = 4
    MaxFence = 2
    MaxRecords = 1
    MaxReconciliations = 1
SYMMETRY Symmetry
SPECIFICATION Spec
INVARIANTS
    EffectAtMostOnce
    IntentBeforeEffect
    ResponsesAreDurable
    JournalIsTruthful
PROPERTIES
    StaleSessionsAreHarmless
CHECK_DEADLOCK FALSE
