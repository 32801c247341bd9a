SPECIFICATION Spec
CONSTANTS
    r1 = r1
    r2 = r2
    ws = ws
    c1 = c1
    c2 = c2
    NoReq = NoReq
    NoConn = NoConn
    Reqs = {r1, r2, ws}
    Conns = {c1}
    NonIdemp = {r2, ws}
    Upgrade = {ws}
    HMonitor = {r1}
    Droppable = {r2, ws}
    Expirable = {r1}
    StaleCe = {r2}
    RetryNip = FALSE
    MaxRefwd = 1
    MaxQsize = 2
    TmoNr = 1
    MaxRecns = 1
INVARIANTS
    AssertionsHold
    QueueConsistent
    PairRight
    HeldByQueue
    NipIsLast
    NipSentOnce
CHECK_DEADLOCK FALSE
