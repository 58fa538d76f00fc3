CONSTANTS
    None = None
    Run = {r1, r2}
    Edition = {e1}
    Switches = {{"new"}}
    Grace = 0
    ReportFails = FALSE
SPECIFICATION Spec
SYMMETRY Symmetry
INVARIANTS NotFilledIsNotFilled
CHECK_DEADLOCK FALSE
