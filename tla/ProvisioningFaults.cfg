SPECIFICATION Spec
CONSTANTS
    Tenants = {1, 2, 3, 4}
    Keys = {1, 2, 3, 4}
    Hosts = {h1, h2}
    Requests = {r1, r2, r3}
    NoTenant = NoTenant
    NoKey = NoKey
    NoHost = NoHost
    Worker = Worker
    QueueCap = 1
    StorageOutcomes = {"ok", "err", "lost"}
    DeployOutcomes = {"ok", "err", "lost"}
    DeleteOutcomes = {"ok", "err", "lost"}
    ReturnsAPIKey = TRUE
    MayCrash = TRUE
    MayCancel = TRUE
SYMMETRY Symmetry
INVARIANTS
    TypeOK
    ExclusiveOwnership
    KeyOwnership
    ActiveIsServable
PROPERTIES
    PublishedStays
    ImplementsLifecycle
CONSTRAINT DrawnInOrder
CHECK_DEADLOCK FALSE
