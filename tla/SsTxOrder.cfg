CONSTANTS
    c1 = c1
    c2 = c2
    c3 = c3
    Cpus = {c1, c2}
    Home = c1
    Producers = {c1, c2}
    QSize = 2
    MinBudget = 1
    UnlockIsBarrier = FALSE
    MaxWorks = 3
    LongMax = 99
SPECIFICATION Spec
INVARIANTS
    CloseAfterData
