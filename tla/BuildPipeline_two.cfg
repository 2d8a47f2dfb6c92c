SPECIFICATION Spec
CONSTANTS
    Profiles = {p1}
    MaxBuilds = 2
    MaxJobs = 1
    MaxTries = 2
    MaxFaults = 1
    GpuModes <- BothModes
    StepChoices <- FullAndTrain
    Requests = {"reset", "delete profile"}
INVARIANTS
    GateBeforeRelease
    TriggeredSerialized
PROPERTIES
    ResultIsFinal
CHECK_DEADLOCK FALSE
