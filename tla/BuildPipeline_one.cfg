SPECIFICATION FairSpec
CONSTANTS
    Profiles = {p1}
    MaxBuilds = 1
    MaxJobs = 2
    MaxTries = 2
    MaxFaults = 2
    GpuModes <- BothModes
    StepChoices <- FullOnly
    Requests = {"delete profile"}
INVARIANTS
    GatedMeansTrained
PROPERTIES
    TrainingResolved
    PostTrainResolved
CHECK_DEADLOCK FALSE
