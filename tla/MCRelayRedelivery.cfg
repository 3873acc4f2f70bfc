SPECIFICATION Spec
CONSTANTS
    r1 = r1
    r2 = r2
    u1 = u1
    s1 = s1
    w1 = w1
    None = None
    Commands = {s1}
    Workers = {w1}
    Kind <- MCKind
    MaxPull = 1
    MaxDeliveries = 2
    MaxRestarts = 1
INVARIANT InterruptedIsRedelivered
CHECK_DEADLOCK FALSE
