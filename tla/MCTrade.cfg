CONSTANTS
    t1 = t1
    t2 = t2
    Maker = maker
    Takers = {t1, t2}
    NoOne = NoOne
    Scenarios <- MCFaults
SPECIFICATION Spec
INVARIANTS TypeOK OneAgreement BelievesWhatIsTrue PaidAsAgreed FundsMatchState
PROPERTIES ImplementsSwap
CHECK_DEADLOCK FALSE
