SPECIFICATION Spec
CONSTANTS
    p1 = p1
    p2 = p2
    p3 = p3
    h1 = h1
    h2 = h2
    n1 = n1
    n2 = n2
    serebii = serebii
    namuwiki = namuwiki
    guide = guide
    kofan = kofan
    namufan = namufan
    NoPersona = NoPersona
    NoReq = NoReq
    NoProc = NoProc
    Proc = {p1, p2}
    Host = {h1, h2}
    Pid = {n1, n2}
    Source = {serebii, guide, namuwiki}
    Persona = {kofan, namufan}
    HostOf <- MCHostOf
    PidOf <- MCPidOf
    Requests <- MCRequests
    Stagger = 1
    MaxClock = 1
    SoloFirstBoot = FALSE
INVARIANT SourceExclusion
