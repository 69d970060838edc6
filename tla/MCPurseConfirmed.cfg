CONSTANTS
    Ids = {i1, i2, i3}
    Callers = {c1}
    Amounts = {2, 3}
    Fee = 1
    Deposit <- MCLargerDeposit
    Modulus = 16
    OverflowChecks = TRUE
    MaxCrashes = 0
SPECIFICATION Spec
PROPERTIES OnlyConfirmedSent
CHECK_DEADLOCK FALSE
