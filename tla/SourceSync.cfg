SPECIFICATION FairSpec
CONSTANTS
    Sources = {s}
    Users = {1, 2}
    Static = TRUE
    MaxBoots = 2
    MaxRev = 2
    MaxUpsets = 1
INVARIANTS SyncingIsExplained RecordsSettle SkippedWasHandedOn AloneIsServed UpIsExplained
PROPERTIES FingerprintBackOnlyOvertaken SyncsEnd
CHECK_DEADLOCK FALSE
