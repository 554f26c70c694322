SPECIFICATION FairSpec
CONSTANTS
    MaxPkts = 3
    MaxLen = 2
    MaxReq = 2
    MaxDups = 1
    FaultSets <- AnyNetwork
INVARIANTS
    CopiesEveryByte
    NeverGoesBack
    EndMeansAll
PROPERTY ReachesEnd
CHECK_DEADLOCK FALSE
