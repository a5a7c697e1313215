SPECIFICATION Spec
CONSTANTS
    p1 = p1
    p2 = p2
    guide = guide
    serebii = serebii
    kofan = kofan
    NoPersona = NoPersona
    NoSession = NoSession
    NoReq = NoReq
    NoFile = NoFile
    NoData = NoData
    Never = Never
    Page = {}
    Source = {guide, serebii}
    Persona = {kofan}
    Proc = {p1, p2}
    Requests <- MCRequests
    BlockCooldown = 2
    BlockFactor = 2
    ThrottleCooldown = {1}
    PersonaCooldown = 1
    HealthScores = {40}
    MaxBlocks = 1
    MaxClock = 1
    MaxRuns = 2
INVARIANT OnePersonaBrowser
