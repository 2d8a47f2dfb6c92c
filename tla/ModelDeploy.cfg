SPECIFICATION Spec
CONSTANTS
    MaxBuilds = 2
    MaxOps = 2
    MaxCalls = 3
    MaxFaults = 1
INVARIANTS
    BaselineIsManifest
    ManifestServed
    AppVersionKept
    DeployedWasUploaded
CHECK_DEADLOCK FALSE
