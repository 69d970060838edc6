CONSTANTS
    t1 = t1
    t2 = t2
    Maker = maker
    Takers = {t1}
    NoOne = NoOne
    Scenarios <- MCCrash
SPECIFICATION Spec
INVARIANTS NobodyPanics
CHECK_DEADLOCK FALSE
