SPECIFICATION Spec
CONSTANTS
    Thread = {t1, t2}
    Conn = {k1, k2, k3, k4}
    PoolSize = 2
    Loops = 1
    MaxCalls = 3
    MaxFaults = 2
SYMMETRY Symmetry
INVARIANTS HandedOutOnce ConnectionCap SavedIsDurable
CHECK_DEADLOCK FALSE
