\* Three CPUs, a ring of two slots: positions wrap and the queue overflows.
\* No symmetry, because of the liveness property.
CONSTANTS
    c1 = c1
    c2 = c2
    c3 = c3
    w1 = w1
    w2 = w2
    Cpus = {c1, c2, c3}
    Home = c1
    Items = {w1, w2}
    NoItem = NoItem
    QSize = 2
    Budget = 2
    LongMax = 9
    MaxCalls = 3
SPECIFICATION FairSpec
INVARIANTS
    NoSlotRace
    IInv
PROPERTIES
    RefinesFifo
    EveryPushIsPopped
