SPECIFICATION Spec
CONSTANTS
    MaxStream = 2
    MaxStreams = 2
    MaxClosed = 1
    DefWnd = 2
    MaxWnd = 4
    WndSettings = {0, 4}
    WndIncrs = {0, 2}
    MaxFrame = 2
    MinSend = 2
    Responses <- MCResponses
    Bursts = {1, 3}
    MaxRecv = 2
INVARIANT NotEarly
CHECK_DEADLOCK FALSE
