SPECIFICATION FairSpec
CONSTANTS
    p1 = p1
    p2 = p2
    c1 = c1
    c2 = c2
    page = page
    guide = guide
    kofan = kofan
    NoSession = NoSession
    Never = Never
    NoFile = NoFile
    NoData = NoData
    NoOp = NoOp
    Page = {page}
    Source = {guide}
    Persona = {kofan}
    Proc = {p1}
    Caller = {c1}
    ProcOf <- MCProcOf
    Ops <- MCOps
    Debouncing = {TRUE, FALSE}
    MaxCalls = 4
INVARIANTS
    CrawlInv
    PersistedAtOnce
PROPERTIES
    UpdatesKept
    FileKept
    ImplementsStore
    CompletedIsSaved
