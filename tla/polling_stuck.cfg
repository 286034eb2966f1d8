SPECIFICATION Spec
CONSTANTS
    p1 = p1
    p2 = p2
    Pollers = {p1, p2}
    MaxEvents = 2
    MaxAppends = 3
INVARIANTS
    PollIsComplete
