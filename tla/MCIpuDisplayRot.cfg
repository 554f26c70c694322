SPECIFICATION Spec
CONSTANTS
    RegFb = 4
    Streams <- SteadyStreams
    PostProc = {TRUE}
    Faults = FALSE
INVARIANTS
    NoOverwriteOnDisplay
CHECK_DEADLOCK FALSE
