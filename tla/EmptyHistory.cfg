SPECIFICATION FairInflows
CONSTANTS
    Endpoints = {a}
    Steady = {a}
    Legs = {"paid"}
    Failed = failed
    Amounts <- SomeAmounts
    Batch = 2
    MaxTx = 1
    MaxDropped = 0
    Lag = 0
PROPERTY EveryInflowRecorded
CHECK_DEADLOCK FALSE
