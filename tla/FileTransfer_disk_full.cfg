SPECIFICATION Spec
CONSTANTS
    f1 = f1
    f2 = f2
    b1 = b1
    b2 = b2
    b3 = b3
    None = None
    File = {f1, f2}
    Block = {b1, b2, b3}
    Real0 <- MCReal
    Temp0 <- MCTemp
    Lists <- MCLists
    CanFail = {"write"}
    MaxJobs = 1
    MaxBreaks = 0
INVARIANTS
    WholeFile
CHECK_DEADLOCK FALSE
