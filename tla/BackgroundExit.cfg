SPECIFICATION Spec
CONSTANTS
    Grace = 2
    Limit = 3
INVARIANT SuccessTruthful
CHECK_DEADLOCK FALSE
