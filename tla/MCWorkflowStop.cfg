SPECIFICATION Spec
CONSTANTS
    r1 = r1
    r2 = r2
    r3 = r3
    t1 = t1
    t2 = t2
    f1 = f1
    f2 = f2
    f3 = f3
    n1 = n1
    n2 = n2
    None = None
    Runs = {r1}
    Targets = {t1, t2}
    Files = {f1, f2, f3}
    Names = {n1, n2}
    Target <- MCTarget
    Settings <- MCSettings
    Basename <- MCBasename
    Matched <- MCMatched
    Carries = {r1}
    MaxRuns = 1
    MaxStops = 1
    MaxRestarts = 0
PROPERTIES
    StopStops
CHECK_DEADLOCK FALSE
