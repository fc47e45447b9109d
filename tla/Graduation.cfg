SPECIFICATION FairSpec
CONSTANTS
    coin = coin
    w = w
    v = v
    Coins = {coin}
    Wallets = {w, v}
    Admins = {keeper, owner}
    Keeper = keeper
    Whole = 4
    LpShare = 1
    Rent = 2
    Offered <- SomeSplits
    Hand = {}
    Fees = {5}
    Mins = {5}
    MaxEarned = 10
    MaxStrays = 1
    MaxChanges = 0
PROPERTY GraduatedIsCranked
CHECK_DEADLOCK FALSE
