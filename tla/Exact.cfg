SPECIFICATION RecordSpec
CONSTANTS
    None = None
    Toll = toll
    Incinerator = incinerator
    Treasury = treasury
    Ops = ops
    BurnAddress = burn111
    TollBps = 9925
    OpsPercent = 1
    MaxShareholders = 8
    Configs <- SomeConfigs
    Kinds = {"bought", "bare", "stranger"}
    Initial = 5
    Page = 2
    MaxPaid = 1
    MaxBurns = 2
    MaxStrange = 1
    MaxFaults = 1
PROPERTY ExactIsExact
