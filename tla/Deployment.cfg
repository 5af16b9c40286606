SPECIFICATION FairSpec
CONSTANTS
    Governance = Governance
    Safe = Safe
    BUSD = BUSD
    TestRouter = TestRouter
    Router = Router
    TestVaults <- TestVaultsByName
    team = team
    v1 = v1
    v2 = v2
    v3 = v3
    v4 = v4
    v5 = v5
    v6 = v6
    v7 = v7
    Deployer = Deployer
    Stranger = Stranger
    Dead = Dead
    Account = {Governance, Safe, BUSD, TestRouter, Router, team, v1, v2, v3, v4, v5, v6, v7, Deployer, Stranger, Dead}
    ClaimWait = 3600
    Configs <- AllConfigs
    Tasks <- SomeTasks
    MaxRuns = 3
    MaxEvents = 4
INVARIANTS
    TypeOK
    PairedWithItsToken
    LiveTokensAreComplete
    FinishedMeansDeployed
    NoGasLostToVerification
PROPERTIES
    LiveTokensStay
    ImplementsPairing
    MigrationsFinish
CHECK_DEADLOCK FALSE
