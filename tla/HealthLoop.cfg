SPECIFICATION Spec
CONSTANTS
    Tenants = {t1, t2}
    Keys = {1, 2}
    Hosts = {h1, h2}
    NoTenant = NoTenant
    NoKey = NoKey
    NoHost = NoHost
    StorageOutcomes = {"ok", "err", "lost"}
    DeployOutcomes = {"ok"}
    DeleteOutcomes = {"ok"}
    Slots = 1
    Flaky = TRUE
    BatchMayExpire = TRUE
    MayStop = TRUE
SYMMETRY Symmetry
INVARIANTS
    TypeOK
PROPERTIES
    StatusFollowsCounter
    StoppedStartsNoWrite
CHECK_DEADLOCK FALSE
