CONSTANTS
    NReqs = 2
    Expect = {2}
    QSize = 8
    MinBudget = 1
    LongMax = 99
SPECIFICATION Spec
INVARIANTS
    FreedUnlinked
CHECK_DEADLOCK FALSE
