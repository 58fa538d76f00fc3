CONSTANTS
    Nobody = Nobody
    Holder = {h1, h2}
    TTL = 11
    AcquireDelay = 1
    MaxStall = 2
    MaxTime = 16
SPECIFICATION Spec
SYMMETRY HolderSymmetry
INVARIANTS GuardLag KeepsLock
CHECK_DEADLOCK FALSE
