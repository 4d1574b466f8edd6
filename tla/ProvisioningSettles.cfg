SPECIFICATION FairSpec
CONSTANTS
    Tenants = {1, 2, 3, 4, 5}
    Keys = {1, 2, 3, 4, 5}
    Hosts = {h1}
    Requests = {r1, r2, r3}
    NoTenant = NoTenant
    NoKey = NoKey
    NoHost = NoHost
    Worker = Worker
    QueueCap = 1
    StorageOutcomes = {"ok"}
    DeployOutcomes = {"ok", "err", "lost"}
    DeleteOutcomes = {"ok", "lost"}
    ReturnsAPIKey = TRUE
    MayCrash = FALSE
    MayCancel = FALSE
INVARIANTS
    NoLeakedInstance
    ProvisioningIsHandled
    ActiveWithoutAddressIsTransient
PROPERTIES
    QueuedSettles
    RequestAnswered
CONSTRAINT DrawnInOrder
CHECK_DEADLOCK FALSE
