SPECIFICATION FairSpec
CONSTANTS
    r1 = r1
    r2 = r2
    u1 = u1
    s1 = s1
    w1 = w1
    w2 = w2
    None = None
    Commands = {r1, u1}
    Workers = {w1, w2}
    Kind <- MCKind
    MaxPull = 2
    MaxDeliveries = 2
    MaxRestarts = 2
INVARIANTS
    TypeOK
    RunAtMostOnce
    AckedIsAccounted
    ShortAckedLast
PROPERTIES
    StopCompletes
    ImplementsService
    EveryCommandSettles
CHECK_DEADLOCK FALSE
