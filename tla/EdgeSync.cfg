SPECIFICATION Spec
CONSTANTS
    Versions = {v1, v2, v3}
    Unsigned = {v3}
    Unloadable = {v2}
    MaxCuts = 2
INVARIANTS InstalledIsVerified LastModelKept
PROPERTY ReloadedServesIt KeepsSlot
