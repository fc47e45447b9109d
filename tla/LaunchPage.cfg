SPECIFICATION FairSpec
CONSTANTS
    m1 = m1
    m2 = m2
    dev = dev
    friend = friend
    Dev = dev
    Others = others
    None = None
    Toll = toll
    Incinerator = incinerator
    Treasury = treasury
    Ops = ops
    TollBps = 2500
    OpsPercent = 10
    MaxShareholders = 8
    Pool <- TwoMints
    Forms <- SomeForms
    Rates <- SomeRates
    Details = {1, 2}
    MaxApprovals = 4
    MaxFaults = 2
INVARIANT BuiltAsShown CoinTakesItsSplit DoneMeansSet
PROPERTY CoinGetsItsSplit
CHECK_DEADLOCK FALSE
