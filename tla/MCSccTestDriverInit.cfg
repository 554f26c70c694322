SPECIFICATION Spec
CONSTANTS
    p1 = p1
    p2 = p2
    s1 = s1
    s2 = s2
    o1 = o1
    o2 = o2
    Procs <- MCProcs
    Slots <- MCSlots
    Owners <- MCOwners
    Nobody = Nobody
    InitMajor = 240
    MajorBusy = {FALSE, TRUE}
    KernelMem = 2
    MaxMmap = 1
SYMMETRY Symmetry
INVARIANTS
    FailedInitUndone
