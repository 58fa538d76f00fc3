CONSTANTS
    Manual = Manual
    None = None
    Process = {p1, p2}
    MaxTasks = 2
    MaxAttempts = 2
    Grace = 2
    MaxTrouble = 2
SPECIFICATION Spec
SYMMETRY ProcessSymmetry
INVARIANTS StatusMatchesStream HolderServesLiveTask VerdictIsEarned
           ExecutionsBounded ChargedForRuns
PROPERTIES FinalStatusIsFinal
CHECK_DEADLOCK FALSE
