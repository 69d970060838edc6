CONSTANTS
    Users = {trading, watching}
    trading = trading
    watching = watching
    MayAsk <- MCMayAsk
    Listeners = {c1, c2}
    Offers = {o1}
    TradeRsp = TradeRsp
    Peer = Peer
    Nothing = Nothing
    RequestCapacity = 1
    NotifCapacity = 1
    MaxAbandoned = 1
    MaxRestarts = 1
SPECIFICATION FairSpec
INVARIANTS TypeOK PanicsAreProvoked LostOnlyIfExposed BegunIsRecorded
PROPERTIES RequestsAreAnswered StoredIsTold
CHECK_DEADLOCK FALSE
