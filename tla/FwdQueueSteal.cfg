SPECIFICATION Spec
CONSTANTS
    r1 = r1
    r2 = r2
    ws = ws
    c1 = c1
    c2 = c2
    NoReq = NoReq
    NoConn = NoConn
    Reqs = {r1, ws}
    Conns = {c1}
    NonIdemp = {ws}
    Upgrade = {ws}
    HMonitor = {}
    Droppable = {}
    Expirable = {}
    StaleCe = {}
    RetryNip = FALSE
    MaxRefwd = 1
    MaxQsize = 2
    TmoNr = 1
    MaxRecns = 1
INVARIANTS
    SocketAssertion
CHECK_DEADLOCK FALSE
