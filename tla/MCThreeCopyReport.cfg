CONSTANTS
    None = None
    Run = {r1, r2}
    Edition = {e1}
    Switches = {{"legacy"}}
    Grace = 0
    ReportFails = TRUE
SPECIFICATION Spec
SYMMETRY Symmetry
INVARIANTS RetryableIsUntouched
CHECK_DEADLOCK FALSE
