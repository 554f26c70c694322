SPECIFICATION Spec
CONSTANTS
    RegFb = 4
    Streams <- AllStreams
    PostProc = {TRUE, FALSE}
    Faults = TRUE
INVARIANTS
    TypeOK
    SteadyNoOverwrite
    SteadyNoBufferLost
    FreedAfterThread
CHECK_DEADLOCK FALSE
