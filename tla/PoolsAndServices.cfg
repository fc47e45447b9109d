SPECIFICATION AllFair
CONSTANTS
    coin = coin
    charlie = charlie
    w = w
    Coins = {coin, charlie}
    Enrolled = {coin}
    Served = {charlie}
    Wallets = {w}
    Whole = 4
    Rent = 3
    MaxOutside = 24
    Toll = 1
    Payees <- TwoPayees
    SolBurn = 2
    Buyback = 1
    Ops = 1
    OpsWallets = {w}
    Offered <- SomeRoutes
    Fees = {4, 7}
    bot = bot
    trial = trial
    Urls = 2
    Retries = 3
    Timeout = 15
    Backoff <- Backoffs
    Longest = 120
    Patience = 5
    MaxFailures = 3
    MaxTurns = 1
    Programs = {bot}
    NoGrant = NoGrant
    MaxLogins = 2
    MaxIssued = 3
    MaxLost = 1
    Bot = bot
    Gap = 60
    MaxAge = 2
INVARIANT PoolsStayOpen NothingIsRefused Conserved AnsweredIfOneIsUp GrantOutlivesRefresh
PROPERTY TollArrives TagIsSettled
