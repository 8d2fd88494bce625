SPECIFICATION Spec
CONSTANTS
    w1 = w1
    w2 = w2
    Wallets = {w1, w2}
    NoWallet = NoWallet
    NoCloid = NoCloid
    NoOid = NoOid
    NoRequest = NoRequest
    Remaining = Remaining
    Retired = Retired
    MaxInt64 = 2000000
    BaseOid = 1000000
    ChCap = 2
    Handlers = {h1, h2}
    IocReference = 2
    MaxRequests = 2
    MaxClock = 0
    Requests <- CreateRequests
    Fills <- NoFills
INVARIANT QueriedByOid
