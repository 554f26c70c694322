SPECIFICATION Spec
CONSTANTS
    f1 = f1
    f2 = f2
    b1 = b1
    b2 = b2
    e1 = e1
    e2 = e2
    e3 = e3
    Files <- MCFiles
    Bufs <- MCBufs
    Entries <- MCEntries
    NoEntry = NoEntry
    Sizes = {1, 4, 7}
    PageSize = 2
    Word = 8
    Preempt = FALSE
SYMMETRY Symmetry
INVARIANTS
    EveryBufferRemembered
    UnloadedLeavesNothing
PROPERTIES
    MapsLiveBuffer
