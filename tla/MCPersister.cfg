CONSTANTS
    NoFile = NoFile
    Torn = Torn
    WritesMayFail = TRUE
    MaxUpdates = 4
    MaxCrashes = 2
SPECIFICATION Spec
INVARIANTS TypeOK NoUpdateForgotten FlushedWhenClosed
PROPERTIES EventuallyOnDisk TerminateReturns ImplementsDurableStore
CHECK_DEADLOCK FALSE
