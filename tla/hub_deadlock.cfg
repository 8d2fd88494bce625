SPECIFICATION Spec
CONSTANTS
    u1 = u1
    u1Mixed = u1Mixed
    u2 = u2
    btc = btc
    Conns = {c1, c2}
    Users = {u1, u2}
    Spelled = {u1, u2, u1Mixed}
    normalized <- lower
    NoUser = NoUser
    NoConn = NoConn
    NoId = NoId
    Ids = {1, 2}
    Coins = {btc}
    OrderOwners = {u1Mixed, NoUser}
    BookCoins = {}
    Asks <- SteadyAsks
    ChCap = 1
    MaxUpdates = 2
    MaxAsks = 2
    Calm = FALSE
INVARIANT NeverStuck
CHECK_DEADLOCK FALSE
