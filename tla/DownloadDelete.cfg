CONSTANTS
    Anime = {a1}
    Hash = {h1, h2}
    Task = {t1, t2}
    Caller = {c1}
    MaxWorkers = 1
    Known = {}
    Ops = {"enqueue", "enqueueUrl", "delete", "deleteHash", "seen"}
    Faults = {"db", "client"}
SPECIFICATION Spec
SYMMETRY Symmetry
INVARIANTS TypeOK LiveIndexed ReservationBacked PanelSound
