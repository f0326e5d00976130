SPECIFICATION FairSpec
CONSTANTS
    Session = {s1}
    Thread = {t1, t2}
    Lock = {l1, l2}
    MaxActive = 1
    Total = 2
    Durations = {0, 2}
    Margin = 1
    Window = 0
    MaxJump = 1
    Lookahead = 1
    Ops = {"create", "resolve", "manifest", "stop", "cleanup", "expire"}

INVARIANTS PlayReady RestartSerialized
PROPERTIES LockReleased
