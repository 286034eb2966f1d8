SPECIFICATION FairSpec
CONSTANTS
    p1 = p1
    p2 = p2
    r1 = r1
    r2 = r2
    Servers <- MCServers
    Roots <- MCRoots
    RootsOf <- MCRootsOf
    NoList = NoList
    Never = Never
    Backdates = TRUE
    TTL = 1
    ScanTime = 1
    EmptyAt = {1}
    MaxVersion = 2
INVARIANTS
    TypeOK
    ServedListsAreRecent
    SecondAnswerIsCurrent
PROPERTY
    AnswersConverge
