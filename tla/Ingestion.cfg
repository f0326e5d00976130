SPECIFICATION FairSpec
CONSTANTS
    p1 = p1
    p2 = p2
    f1 = f1
    f2 = f2
    Request = {r1, b1}
    Schedule = {b1}
    Provider = {p1, p2}
    Scheduled = {p1}
    Payload = {f1, f2}
    Offer <- Catalogues
    Limit = 4
    MaxWorkers = 1
    Kinds = {"search", "stream"}
    Faults = {"provider", "store"}
CHECK_DEADLOCK FALSE
INVARIANTS StatusTruthful ShownIsStored ClosedIsQuiet
PROPERTY Answered
