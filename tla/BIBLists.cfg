SPECIFICATION Spec
CONSTANTS
    Address = {token, dead, pair, owner, a1}
    Token = token
    DeadAddress = dead
    Pair = pair
    Owner = owner
    Magnitude = 4
    MaxInt = 1000
    MinBalance = 2
    MinClaimWait = 1
    MaxClaimWait = 1
    InitialSupply = 5
    Hundred = 5
    MaxFee = 4
    InitialFees <- FullFees
    InitialThreshold = 3
    StartTime = 1
    Refusals = {}
    GasRunsOut = TRUE
    Amounts = {2, 5}
    Turns = {1}
    SwapRewards = {0}
    MaxReward = 0
    FeeChoices <- NoRewardFees
    Thresholds = {}
    ClaimWaits = {}
    Freezable = {token, a1}
    FreezeAmounts = {2}
    MaxFreeze = 2
    Switches = {TRUE, FALSE}
    Listed = {a1}
    FeeListed = {}
    Refusable = {}
    MaxTime = 1
INVARIANTS
    PairsEarnNothing
PROPERTIES
    FrozenStaysFrozen
CHECK_DEADLOCK FALSE
