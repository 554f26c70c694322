SPECIFICATION FairSpec
CONSTANTS
    Files = {f1, f2}
    Threads = {t1, t2}
    Ctxs = {c1, c2}
    NULL = NULL
    Counts = {0, 4, 5}
    FifoWords = 1
INVARIANTS
    ContextOfCallLives
    UsersAreOpenFiles
    SuccessIsReal
PROPERTIES
    GetRandomReturns
