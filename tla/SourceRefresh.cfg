SPECIFICATION LiveSpec
CONSTANTS
    s1 = s1
    s2 = s2
    Sources = {s1, s2}
    NoSource = NoSource
    MaxFailures = 1
    MaxWaiters = 2
    MaxEdits = 3
    MaxFaults = 2
CHECK_DEADLOCK FALSE
INVARIANTS
    TypeOK
    SingleFlight
PROPERTIES
    NeverSkipped
    Answered
    KeptFresh
    ShutdownEnds
