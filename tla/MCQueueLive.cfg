CONSTANTS
    Manual = Manual
    None = None
    Process = {p1, p2}
    MaxTasks = 2
    MaxAttempts = 2
    Grace = 0
    MaxTrouble = 2
SPECIFICATION FairSpec
PROPERTIES EveryTaskSettles
CHECK_DEADLOCK FALSE
