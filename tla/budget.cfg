SPECIFICATION Spec
CONSTANTS
    t1 = t1
    t2 = t2
    f1 = f1
    Callers = {t1, t2}
    Fingerprints = {f1}
    Channels = {"GitHub", "Triz"}
    Hour = 3
    Cost = 2
    TTL = 2
    Start = 2
    MaxTime = 3
    MaxCalls = 4
    MaxExcused = 2
SYMMETRY Symmetry
INVARIANTS
    TypeOK
    LedgerHolds
    
PROPERTIES
    
    YesLasts
    LimitRolls
CHECK_DEADLOCK FALSE
