SPECIFICATION FairSpec
CONSTANTS
    Record = {r1, r2, r3}
    BatchSize = 2
    MaxSize = 2
    Faults = {"db", "slow"}
CHECK_DEADLOCK FALSE
INVARIANTS Accounted DrainedBeforeRelease
PROPERTIES Promise Settles
