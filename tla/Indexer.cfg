SPECIFICATION AllFair
CONSTANTS
    c = c
    d = d
    Coins <- OneCoin
    Venues <- SomeVenues
    Pools <- SomePools
    Slippage = 0
    Lot = 6
    MinLot = 6
    Reserve = 2
    MinVault = 16
    PumpMin = 8
    MinClaim = 8
    Fee = 16
    MaxExtra = 3
    MaxBusy = 2
    MaxFailures = 2
    Budget = 6
    Places = 1
    MinBuy = 4
    MaxBuy = 100
    MaxDevBuy = 85
    MinSlippage = 50
    MaxSlippage = 5000
    DefaultSlippage = 2500
    DevSlippage = 100
    Wallet = 8
    NewCurve <- InitialReserves
    FreshFees <- SomeFees
    Amounts <- SomeAmounts
    Slippages <- SomeSlippages
    None = None
    Toll = toll
    Incinerator = incinerator
    Treasury = treasury
    Ops = ops
    BurnAddress = burn111
    TollBps = 9925
    OpsPercent = 1
    MaxShareholders = 8
    Configs <- SomeConfigs
    Kinds = {"bought", "bare", "stranger"}
    Initial = 5
    Page = 2
    MaxPaid = 1
    MaxBurns = 2
    MaxStrange = 1
    MaxFaults = 1
INVARIANT QuoteFitsLot OwnSolKept WithheldIsNotShown ShownHolds
PROPERTY EveryFeeMovesOn BurnsAreRead
CHECK_DEADLOCK FALSE
