CONSTANTS
    Ids = {i1, i2}
    Callers = {c1, c2}
    Amounts = {2, 3}
    Fee = 1
    Deposit <- MCDeposit
    Modulus = 16
    OverflowChecks = TRUE
    MaxCrashes = 1
SPECIFICATION Spec
INVARIANTS TypeOK SettledOncePerLife WalletSendsOwnFunds
PROPERTIES ImplementsEscrow GrantsFitBalance
CHECK_DEADLOCK FALSE
