SPECIFICATION Spec
CONSTANTS
    e1 = e1
    e2 = e2
    s1 = s1
    s2 = s2
    Exporters <- MCExporters
    Runtimes <- MCRuntimes
    Kinds <- MCKinds
    Capacities = {1, 2}
    MaxEvents <- MCEvents
    MaxFailures = 1
    MaxSegments = 2
    MaxAttempts = 2
    MaxAggregate = 2
    MaxCursor = 4
    MaxRetained = 2
    MaxWeight = 2
    MaxSources = 4
    HeavyMarks = {2, 3}
INVARIANTS
    JournalIsHistory
    AcknowledgedIsStored
    TimelineIsComplete
PROPERTIES
    AggregateOrderSettled
    ExportersCatchUp
CHECK_DEADLOCK FALSE
