SPECIFICATION Spec
CONSTANTS
    Worker = {w1, w2}
    mal = mal
    kitsu = kitsu
    Key = {mal, kitsu}
    Payloads <- Shows
    Starts <- Stored
    Item = {x1}
    Ops = {"ingest", "enrich", "link", "repair"}
    MaxBatch = 2
    MaxId = 3
SYMMETRY Symmetry
CHECK_DEADLOCK FALSE
INVARIANTS NothingOrphaned RepairHeals DedupeIsExact
PROPERTY IdentityKept
