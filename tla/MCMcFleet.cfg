CONSTANTS
    r1 = r1
    r2 = r2
    r3 = r3
    t1 = t1
    t2 = t2
    Targets = {t1}
    Runs = {r1, r2}
    Target <- MCTarget
    Callers = {s1}
    None = None
    MaxTroubles = 1
SPECIFICATION Spec
INVARIANT ReportedIsOver
CHECK_DEADLOCK FALSE
