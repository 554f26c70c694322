SPECIFICATION FairSpec
CONSTANTS
    Procs = {p1, p2}
    Parts = {x1}
    Values = {v1, v2}
    None = None
INVARIANTS
    SuccessIsReal
    BufferMatchesPartition
    BlackMemoryFreed
PROPERTIES
    EveryIoctlReturns
