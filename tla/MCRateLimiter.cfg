SPECIFICATION Spec
CONSTANTS
    p1 = p1
    p2 = p2
    NoProc = NoProc
    NoFile = NoFile
    Never = Never
    NoMemo = NoMemo
    Proc = {p1, p2}
    Limit = 2
    Slowed = TRUE
    MemoTime = 1
    MaxDay = 1
    MaxClock = 2
    SoloFirstUse = TRUE
SYMMETRY MCSymmetry
INVARIANTS
    LimiterInv
    DailyLimit
    OneLateGrant
    AlertOncePerDay
PROPERTIES
    SlowedDown
