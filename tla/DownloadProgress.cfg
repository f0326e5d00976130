CONSTANTS
    Anime = {a1}
    Hash = {h1}
    Task = {t1, t2}
    Caller = {c1}
    MaxWorkers = 1
    Known = {}
    Ops = {"enqueue", "cancel", "cancelHash", "close"}
    Faults = {}
SPECIFICATION FairSpec
PROPERTIES CancelHonoured TaskResolves ReservationReleased CloseQuiesces
