SPECIFICATION ServerSpec
CONSTANTS
    w1 = w1
    w2 = w2
    btc = btc
    Wallets = {w1, w2}
    NoWallet = NoWallet
    NoCloid = NoCloid
    NoOid = NoOid
    NoRequest = NoRequest
    Remaining = Remaining
    Retired = Retired
    MaxInt64 = 2000000
    BaseOid = 1000000
    ChCap = 2
    Handlers = {1, 2}
    IocReference = 2
    MaxRequests = 2
    MaxClock = 0
    Requests <- MCRequests
    Fills <- MCFills
    Conns = {c1}
    NoConn = NoConn
    NoId = NoId
    Coins = {btc}
    Asks <- MCAsks
    MaxAsks = 1
    MaxFills = 1
INVARIANTS OwnOrdersOnly ShownAsStored
PROPERTIES ClientsConverge Answered
CHECK_DEADLOCK FALSE
