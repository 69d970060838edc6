CONSTANTS
    Ids = {i1, i2, i3}
    Callers = {c1}
    Amounts = {2, 3}
    Fee = 1
    Deposit <- MCDeposit
    Modulus = 16
    OverflowChecks = FALSE
    MaxCrashes = 0
SPECIFICATION Spec
PROPERTIES GrantsFitBalance
CHECK_DEADLOCK FALSE
