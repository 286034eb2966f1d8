SPECIFICATION LifetimeSpec
CONSTANTS
    r1 = r1
    r2 = r2
    t1 = t1
    t2 = t2
    Runs = {r1, r2}
    Tasks = {t1, t2}
    Kinds = {"stream"}
    MaxEvents = 2
    MaxOps = 4
    MaxFaults = 1
    MaxCrashes = 0
    MaxReloads = 0
INVARIANTS
    DiskNeverAhead
PROPERTIES
    ImplementsRunTable
CHECK_DEADLOCK FALSE
