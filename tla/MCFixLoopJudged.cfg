SPECIFICATION FixSpec
CONSTANTS
    Commits = {a, b, c}
    MaxAttempts = 2
    Unset = Unset
INVARIANT EveryFixIsJudged
CHECK_DEADLOCK FALSE
