SPECIFICATION FairSpec
CONSTANTS
    MaxQueue = 3
    BatchSize = 2
    MaxLogs = 6
INVARIANTS
    TypeOK
    Balanced
    DrainedBeforeExit
PROPERTIES
    Delivery
    EventuallySettled
    StopTerminates
CHECK_DEADLOCK FALSE
