SPECIFICATION Spec
CONSTANTS
    Address = {a1, a2}
    Magnitude = 2
    MaxInt = 7
    MinBalance = 2
    MinClaimWait = 1
    MaxClaimWait = 2
    StartTime = 2
    TransferFailures = {"answers false", "reverts"}
    GasRunsOut = FALSE
    Balances = {1, 2, 3}
    Amounts = {1, 3}
    OwnerAmounts = {1}
    ClaimWaits = {}
    Callers = {"controller"}
    MaxReward = 4
    MaxTime = 2
INVARIANTS
    WithdrawableIsHeld
CHECK_DEADLOCK FALSE
