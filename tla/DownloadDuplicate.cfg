CONSTANTS
    Anime = {a1, a2}
    Hash = {h1}
    Task = {t1, t2, t3}
    Caller = {c1, c2}
    MaxWorkers = 2
    Known = {}
    Ops = {"enqueue", "complete", "removedFile"}
    Faults = {"client"}
SPECIFICATION Spec
SYMMETRY Symmetry
INVARIANT SingleFlight
