SPECIFICATION Spec
CONSTANTS
    MaxStream = 4
    Weights = {1, 2}
    MaxWeight = 2
INVARIANT CountsExact
INVARIANT TreeRight
INVARIANT AssertionsHold
