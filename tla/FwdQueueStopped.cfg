SPECIFICATION FairSpec
CONSTANTS
    r1 = r1
    r2 = r2
    ws = ws
    c1 = c1
    c2 = c2
    NoReq = NoReq
    NoConn = NoConn
    Reqs = {r1, r2}
    Conns = {c1}
    NonIdemp = {}
    Upgrade = {}
    HMonitor = {}
    Droppable = {}
    Expirable = {}
    StaleCe = {r1}
    RetryNip = TRUE
    MaxRefwd = 1
    MaxQsize = 2
    TmoNr = 1
    MaxRecns = 1
PROPERTIES
    BadRespCloses
CHECK_DEADLOCK FALSE
