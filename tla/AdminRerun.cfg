SPECIFICATION Spec
CONSTANTS
    Deployer = Deployer
    Admin = Admin
    new = new
    Account = {Deployer, Admin, new}
    Envs <- RightKey
    JobLists <- ChangesOnly
    ConsoleCalls <- NobodyElse
    MaxRuns = 2
    MaxEvents = 3
PROPERTIES
    OnlyAdministeredAreListed
CHECK_DEADLOCK FALSE
