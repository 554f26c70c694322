SPECIFICATION FairSpec
CONSTANTS
    STREAM_BUF_SIZE = 8
    Block = 2
    Fills <- FillSizes
    Sources <- BothSources
    MaxBytes = 12
INVARIANTS
    RingIsFifo
    StreamInOrder
    EndMarkIsTrue
PROPERTY ReachesEnd
CHECK_DEADLOCK FALSE
