SPECIFICATION Spec
CONSTANTS
    r1 = r1
    r2 = r2
    t1 = t1
    t2 = t2
    Runs = {r1, r2}
    Tasks = {t1, t2}
    Kinds = {"stream"}
    MaxEvents = 2
    MaxOps = 2
    MaxFaults = 0
    MaxCrashes = 1
    MaxReloads = 0
SYMMETRY Symmetry
INVARIANTS
    CrashLeavesReadableFile
CHECK_DEADLOCK FALSE
