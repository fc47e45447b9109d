SPECIFICATION Spec
CONSTANTS
    Users = {u1, u2}
    Wallets = {w1}
    NoWallet = NoWallet
    Toll = Toll
    Burn = Burn
    CreditSizes = {3}
    Float = 3
    Fee = 1
    Rent = 2
    MinClaim = 3
    MinBurn = 3
    MaxClaims = 1
    StaleReads = FALSE
    MaxCredit = 3
    MaxHash = 1
    MaxQueue = 1
    MaxFaults = 0
SYMMETRY Symmetry
INVARIANT EveryFeeSeen OneDebitPerSignature
PROPERTY BurnSparesFreshAndHeld
