SPECIFICATION Spec
CONSTANTS
    Tenants = {1, 2, 3, 4}
    Keys = {1, 2, 3, 4}
    Hosts = {h1, h2, h3}
    Requests = {r1, r2, r3}
    NoTenant = NoTenant
    NoKey = NoKey
    NoHost = NoHost
    Worker = Worker
    QueueCap = 1
    StorageOutcomes = {"ok"}
    DeployOutcomes = {"ok"}
    DeleteOutcomes = {"ok"}
    ReturnsAPIKey = TRUE
    MayCrash = FALSE
    MayCancel = FALSE
SYMMETRY Symmetry
INVARIANTS
    FallbackKeepsTheTenant
CONSTRAINT DrawnInOrder
CHECK_DEADLOCK FALSE
