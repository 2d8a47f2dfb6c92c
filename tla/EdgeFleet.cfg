SPECIFICATION Spec
CONSTANTS
    Versions = {v1, v2}
    Names = {n1}
    Broken = {v2}
    Sick = {v2}
    MaxFaults = 2
INVARIANTS
    SomeCopyKept
    WorkingCopyKept
    RequestKept
PROPERTIES
    StampedIsInstalled
