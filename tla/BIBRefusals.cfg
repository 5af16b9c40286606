SPECIFICATION Spec
CONSTANTS
    Address = {token, dead, pair, owner, a1, a2}
    Token = token
    DeadAddress = dead
    Pair = pair
    Owner = owner
    Magnitude = 4
    MaxInt = 1000
    MinBalance = 2
    MinClaimWait = 1
    MaxClaimWait = 1
    InitialSupply = 5
    Hundred = 5
    MaxFee = 4
    InitialFees <- FullFees
    InitialThreshold = 3
    StartTime = 2
    Refusals = {"reverts"}
    GasRunsOut = FALSE
    Amounts = {2, 4}
    Turns = {2}
    SwapRewards = {1}
    MaxReward = 1
    FeeChoices <- NoFeeChoices
    Thresholds = {4}
    ClaimWaits = {1}
    Freezable = {}
    FreezeAmounts = {}
    MaxFreeze = 0
    Switches = {}
    Listed = {}
    FeeListed = {}
    Refusable = {a1}
    MaxTime = 3
INVARIANTS
    RefusalsChangeNoTransfer
PROPERTIES
    SharesFollowBalances
CHECK_DEADLOCK FALSE
