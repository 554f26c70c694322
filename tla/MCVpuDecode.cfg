SPECIFICATION FairSpec
CONSTANTS
    MinFb = 2
    ExtFb = 2
INVARIANTS
    NeverQueuedTwice
    NoOverwriteOnDisplay
    NoBufferLost
    LockStep
PROPERTIES
    QuitCompletes
    PictureDelivered
    EndOfStreamStops
