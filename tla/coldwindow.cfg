SPECIFICATION FairSpec
CONSTANTS
    Totals = {5, 20, 41, 46, 60}
    Advisory = 21
    Caution = 42
    Budget = 60
    Raised = {45}
    MinDwell = 2
    Warmup = 3
    Capacity = 2
    Viewers = {v1}
    Adapters = {a1}
    MaxTicks = 4
INVARIANTS
    TypeOK
    SpikesStaySilent
    LastingConditionAlerts
    AlarmOutlivesDips
    EscalationIsNested
PROPERTIES
    
    ViewersCatchUp
