SPECIFICATION FairSpec
CONSTANTS
    Tenants = {t1, t2}
    Keys = {1, 2}
    Hosts = {h1, h2}
    NoTenant = NoTenant
    NoKey = NoKey
    NoHost = NoHost
    StorageOutcomes = {"ok"}
    DeployOutcomes = {"ok"}
    DeleteOutcomes = {"ok"}
    Slots = 1
    Flaky = FALSE
    BatchMayExpire = FALSE
    MayStop = FALSE
PROPERTIES
    DownIsMarked
    UpIsRestored
CHECK_DEADLOCK FALSE
