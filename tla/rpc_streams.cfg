SPECIFICATION RpcStreamsSpec
CONSTANTS
    c1 = c1
    c2 = c2
    s1 = s1
    Clients = {c1, c2}
    Servers = {s1}
    Procs = {c1, c2, s1}
    Handles = {1, 2}
    Routes = {"loop", "wire"}
    Callers <- MCCallers
    Ops <- MCOps
    Crowded = {"loop", "wire"}
    MaxXid <- MCMaxXid
    Retrys = 2
    QMax = 2
    CacheSize = 2
    HiWat = 1
    MaxMsgs = 4
    Requests <- MCRequests
    Funs = {f, g}
    MaxTicks = 3
    NCallout = 4
    MaxLate = 2
INVARIANTS
    BuffersOwned
    RightReply
    DoneOnce
    InOrder
    NoStall
    AckIsOwners
    TimersOwned
    TimesExact
PROPERTIES
    KludgeWorks
CHECK_DEADLOCK FALSE
