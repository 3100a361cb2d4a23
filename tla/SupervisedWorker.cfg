CONSTANTS
    s1 = s1
    s2 = s2
    Own = s1
    Sessions <- MCSessions
    Bodies <- MCBodies
    MaxSequence = 3
    MaxFaults = 2
    MaxStops = 1
SPECIFICATION SupervisedSpec
INVARIANTS
    DeliversInOrder
    StoppedMeansGone
    StoppedCallRefused
PROPERTIES
    SupervisionEnds
CHECK_DEADLOCK FALSE
