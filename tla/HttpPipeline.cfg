CONSTANTS
    NReqs = 3
    Expect = {2}
    QSize = 3
    MinBudget = 1
    LongMax = 99
SPECIFICATION FairSpec
INVARIANTS
    ResponsesInOrder
    OtherAssertionsHold
CHECK_DEADLOCK FALSE
PROPERTIES
    RequestEnds
