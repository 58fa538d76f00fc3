CONSTANTS
    None = None
    Run = {r1, r2}
    Edition = {e1}
    Switches = {{"legacy"}}
    Grace = 0
    ReportFails = FALSE
SPECIFICATION FairSpec
INVARIANTS StuckOnlyAfterDoubt
PROPERTIES CompletedFillIsFinal RecordsImplementFill LockComesFree
CHECK_DEADLOCK FALSE
