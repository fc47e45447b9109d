SPECIFICATION AllFair
CONSTANTS
    Endpoints = {a, b}
    Steady = {a}
    Legs = {"paid"}
    Failed = failed
    Amounts <- SomeAmounts
    Batch = 2
    MaxTx = 3
    MaxDropped = 1
    Lag = 1
    Coins = {c}
    NoCoin = NoCoin
    Issues = 2
    Limit = 2
    MaxInputs = 3
INVARIANT NothingNewMissed NoBurnMissed
PROPERTY NewInflowsRecorded SubmissionIsAnswered
CHECK_DEADLOCK FALSE
