SPECIFICATION Spec
CONSTANTS
    p1 = p1
    p2 = p2
    Pollers = {p1, p2}
    MaxEvents = 4
    MaxAppends = 7
INVARIANTS
    TypeOK
    NeverTwice
    NoGapBeforeTheLimit
