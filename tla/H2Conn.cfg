SPECIFICATION Spec
CONSTANTS
    MaxStream = 2
    MaxStreams = 2
    MaxClosed = 1
    DefWnd = 1
    MaxWnd = 4
    WndSettings = {0, 4}
    WndIncrs = {0, 2}
    MaxFrame = 2
    MinSend = 2
    Responses <- MCResponses
    Bursts = {2}
    MaxRecv = 2
INVARIANT NoLostWakeup
INVARIANT BlocksContiguous
INVARIANT WindowsKept
INVARIANT CurSendActive
INVARIANT AckOnItsWay
CHECK_DEADLOCK FALSE
