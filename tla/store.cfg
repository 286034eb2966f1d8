SPECIFICATION FairSpec
CONSTANTS
    r1 = r1
    r2 = r2
    t1 = t1
    t2 = t2
    Runs = {r1, r2}
    Tasks = {t1, t2}
    Kinds = {"stream"}
    MaxEvents = 1
    MaxOps = 3
    MaxFaults = 1
    MaxCrashes = 1
    MaxReloads = 1
INVARIANTS
    TypeOK
    LoneWritersLeaveWholeFile
    QuietDiskIsMemory
    ErrNeedsCause
PROPERTIES
    OperationsReturn
CHECK_DEADLOCK FALSE
