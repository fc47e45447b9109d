SPECIFICATION FairSpec
CONSTANTS
    a = a
    b = b
    x = x
    y = y
    m1 = m1
    m2 = m2
    m3 = m3
    Last = 2
    Accounts = {a, b}
    Tickers = {x, y}
    UserOf <- OneUser
    TickerOf <- OneTicker
    Mints = {m1, m2}
    NoMint = NoMint
    Pool <- OneKey
    Nobody = Nobody
    Door = Door
    PerDay = 1
    DailyCeiling = 2
    PerThirtyDays = 3
    Timeout = 3
    Banned = {}
    ByHand = TRUE
    Facts <- SomeFacts
    Bypass = TRUE
    MaxFaults = 1
INVARIANT NoOrphanCoin AnnouncedIsPaid LaunchedAtMostOnce NoCoinBehindRefusal OneAnswerADay LateCoinsCount
PROPERTY TagIsActedOn
