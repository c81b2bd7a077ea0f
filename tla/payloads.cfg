CONSTANT MaxItems = 4
SPECIFICATION Spec
INVARIANTS
    FailureLeaks
    FreedOnce
CHECK_DEADLOCK FALSE
