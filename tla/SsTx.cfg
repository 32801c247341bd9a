CONSTANTS
    c1 = c1
    c2 = c2
    c3 = c3
    Cpus = {c1, c2}
    Home = c1
    Producers = {c1, c2}
    QSize = 1
    MinBudget = 1
    UnlockIsBarrier = FALSE
    MaxWorks = 2
    LongMax = 99
SPECIFICATION FairSpec
INVARIANTS
    NoLostWakeup
    IInv
    TurnMatchesBacklog
PROPERTIES
    WorksAreDrained
