SPECIFICATION FairSpec
CONSTANTS
    MaxFiles = 2
    Multi = {2}
    MaxCalls = 1
    MaxTries = 2
    MaxFaults = 2
INVARIANTS
    VerdictIsRight
PROPERTIES
    QueuedSessionEnds
CHECK_DEADLOCK FALSE
