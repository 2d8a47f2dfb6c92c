SPECIFICATION FileSpec
CONSTANTS
    a = a
    b = b
    Docs = {a, b}
    Jobs = {1, 2, 3}
    FilesOf <- MCFilesOf
    MaxRunning = 2
    MaxWriteFaults = 1
    MaxRedisFaults = 1
    MaxCancels = 1
    Cancellable = {1, 3}
INVARIANTS
    FilesAccounted
    LossPerFault
    CancelStopsSoon
CHECK_DEADLOCK FALSE
