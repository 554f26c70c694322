SPECIFICATION FairSpec
CONSTANTS
    RegFb = 4
    Streams <- SteadyStreams
    PostProc = {FALSE}
    Faults = FALSE
PROPERTIES
    PictureReachesIpu
CHECK_DEADLOCK FALSE
