CONSTANTS
    Old = {o1}
    Target = {t1}
    Added = {a1, a2}
    Summary = {s1}
    MaxEdits = 2
    MaxFills = 2
SPECIFICATION Spec
SYMMETRY AddedSymmetry
INVARIANTS SnapshotIsReal CompletedIsWhole ColumnsOnce LostOnlyInTheGap
PROPERTIES ImplementsFill
CHECK_DEADLOCK FALSE
