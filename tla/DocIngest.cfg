CONSTANTS
    short = short
    long = long
    KBs = {k1, k2}
    Docs = {d1}
    Contents = {short, long}
    ChunkCount <- MCChunkCount
    BatchSize = 2
    MaxChunks = 2
    MaxRuns = 2
    MaxCalls = 2
    MaxBoots = 2
    None = None
SYMMETRY MCSymmetry
SPECIFICATION Spec
INVARIANTS CacheMeansStored DuplicateHasWitness WholeDocument
PROPERTIES SecondCopyIsSeen KeepsContract
CHECK_DEADLOCK FALSE
