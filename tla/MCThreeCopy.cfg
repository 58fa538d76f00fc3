CONSTANTS
    None = None
    Run = {r1, r2}
    Edition = {e1, e2}
    Switches = {{}, {"legacy"}, {"new"}}
    Grace = 1
    ReportFails = FALSE
SPECIFICATION Spec
SYMMETRY Symmetry
INVARIANTS OneFilePerStage RecordsAgree ReportedIsDelivered NameMatchesDecision
PROPERTIES NeverCorrupt ImplementsDelivery
CHECK_DEADLOCK FALSE
