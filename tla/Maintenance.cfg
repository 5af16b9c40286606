SPECIFICATION Spec
CONSTANTS
    Deployer = Deployer
    Admin = Admin
    new = new
    Account = {Deployer, Admin, new}
    Envs <- AllEnvs
    JobLists <- AllJobLists
    ConsoleCalls <- AllConsoleCalls
    MaxRuns = 3
    MaxEvents = 3
INVARIANTS
    TypeOK
    NothingIsStuck
    TransferredIsTrue
    AdminChangedIsTrue
    ExcludedIsTrue
    SwitchedWhenSettled
PROPERTIES
    TasksEnd
CHECK_DEADLOCK FALSE
