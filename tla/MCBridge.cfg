CONSTANTS
    Calls = {ping}
    Starts = {run}
    MaxPull = 2
    MaxResets = 1
    MaxDeletes = 1
SPECIFICATION FairSpec
INVARIANTS TypeOK AnswerAccounted StartedMeansTaken
PROPERTIES ImplementsMailbox EveryCallReturns NoAnswerRots
CHECK_DEADLOCK FALSE
