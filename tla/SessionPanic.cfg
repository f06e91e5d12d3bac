SPECIFICATION Spec
CONSTANTS
    Grace = 2
    Limit = 3
INVARIANT NoPanic
CHECK_DEADLOCK FALSE
