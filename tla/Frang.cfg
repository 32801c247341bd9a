CONSTANTS
    Freq = 3
    HZ = 3
    ConnTf = 1
    ReqTf = 1
    RespTf = 2
    ConnMax = 2
    Rate <- MCRate
    Burst <- MCBurst
    Cpus = {c1, c2}
    MaxDelay = 2
    MaxTime = 6
    MaxEvents = 3
SYMMETRY Symmetry
SPECIFICATION Spec
INVARIANTS LimitsEnforced BlocksJustified
CHECK_DEADLOCK FALSE
