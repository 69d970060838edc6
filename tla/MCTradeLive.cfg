CONSTANTS
    t1 = t1
    t2 = t2
    Maker = maker
    Takers = {t1}
    NoOne = NoOne
    Scenarios <- MCLive
SPECIFICATION FairSpec
INVARIANTS NobodyPanics
PROPERTIES AgreementIsCompleted
CHECK_DEADLOCK FALSE
