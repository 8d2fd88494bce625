SPECIFICATION Spec
CONSTANTS
    u1 = u1
    u1Mixed = u1Mixed
    u2 = u2
    btc = btc
    Conns = {c1}
    Users = {u1}
    Spelled = {u1, u1Mixed}
    normalized <- lower
    NoUser = NoUser
    NoConn = NoConn
    NoId = NoId
    Ids = {1, 2}
    Coins = {btc}
    OrderOwners = {}
    BookCoins = {btc}
    Asks <- BookAsks
    ChCap = 1
    MaxUpdates = 2
    MaxAsks = 2
    Calm = FALSE
INVARIANT SnapshotFirst
CHECK_DEADLOCK FALSE
