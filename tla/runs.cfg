SPECIFICATION FairSpec
CONSTANTS
    r1 = r1
    q1 = q1
    Runs = {r1}
    Backends = {"http", "cli"}
    Readers = {q1}
    Stops = {"service", "adapter"}
    PipeCapacity = 1
    MaxLines = 1
    MaxErrLines = 2
    MaxStoreErrs = 1
    MaxPanics = 1
    MaxEvents = 3
    Kinds = {"start", "stream", "completion", "error"}
CHECK_DEADLOCK FALSE
INVARIANTS
    TypeOK
    SuccessIsComplete
    FailureIsExplained
    
    KilledEndsCanceled
    ReplyIsConsistent
PROPERTIES
    VerdictsStand
    
