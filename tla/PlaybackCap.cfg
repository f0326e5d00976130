SPECIFICATION Spec
CONSTANTS
    Session = {s1, s2}
    Thread = {t1, t2}
    Lock = {l1, l2}
    MaxActive = 1
    Total = 2
    Durations = {2}
    Margin = 0
    Window = 0
    MaxJump = 0
    Lookahead = 0
    Ops = {"create", "resolve", "heartbeat", "cleanup"}
SYMMETRY Symmetry
INVARIANTS Anchored AdvertisedServable CapRespected
