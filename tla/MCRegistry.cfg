CONSTANTS
    Makers = {buyMaker, sellMaker}
    Takers = {sellTaker}
    Funding = {buyMaker, sellTaker}
    Nobody = Nobody
    MaxTasks = 2
    MaxRequests = 1
    MaxCrashes = 1
SPECIFICATION FairSpec
INVARIANTS TypeOK ShutdownIsComplete ErrorStopsTrades FundsHaveOwner
PROPERTIES RegistrySurvives ShutdownReturns
CHECK_DEADLOCK FALSE
