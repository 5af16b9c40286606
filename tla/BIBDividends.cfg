SPECIFICATION Spec
CONSTANTS
    Address = {token, dead, pair, owner, a1, a2}
    Token = token
    DeadAddress = dead
    Pair = pair
    Owner = owner
    Magnitude = 4
    MaxInt = 1000
    MinBalance = 1
    MinClaimWait = 1
    MaxClaimWait = 1
    InitialSupply = 6
    Hundred = 5
    MaxFee = 4
    InitialFees <- FullFees
    InitialThreshold = 4
    StartTime = 2
    Refusals = {}
    GasRunsOut = FALSE
    Amounts = {2, 4}
    Turns = {1}
    SwapRewards = {0, 2}
    MaxReward = 2
    FeeChoices <- NoFeeChoices
    Thresholds = {}
    ClaimWaits = {}
    Freezable = {}
    FreezeAmounts = {}
    MaxFreeze = 0
    Switches = {}
    Listed = {}
    FeeListed = {token}
    Refusable = {}
    MaxTime = 2
INVARIANTS
    TypeOK
    DividendsAreBacked
    TaxedOnce
    ProcessedOnce
SYMMETRY Symmetry
CHECK_DEADLOCK FALSE
