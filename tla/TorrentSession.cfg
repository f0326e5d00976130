SPECIFICATION Spec
CONSTANTS
    Hash = {h1}
    Caller = {c1, c2}
    Stray = {h1}
    Sites <- AllSites
    Ops = {"download", "delete", "move", "complete", "reconcile"}
    Faults = {"deadline", "db", "add"}
    MaxAlerts = 1
    MaxSaves = 2
    Steady = TRUE

INVARIANTS HandlesSettled NeverResurrects Durable PendingCovers CloseFlushes
SYMMETRY Symmetry
VIEW View
