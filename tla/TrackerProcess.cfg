SPECIFICATION Spec
CONSTANTS
    Address = {a1, a2, a3}
    Magnitude = 2
    MaxInt = 100
    MinBalance = 1
    MinClaimWait = 1
    MaxClaimWait = 2
    StartTime = 2
    TransferFailures = {"reverts"}
    GasRunsOut = TRUE
    Balances = {0, 1}
    Amounts = {3}
    OwnerAmounts = {}
    ClaimWaits = {1}
    Callers = {"controller"}
    MaxReward = 6
    MaxTime = 3
INVARIANTS
    FullPassPaysEveryone
    IterationsPredictedInRange
PROPERTIES
    LoopPaysWhoIsDue
SYMMETRY Symmetry
CHECK_DEADLOCK FALSE
