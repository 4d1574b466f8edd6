SPECIFICATION FairSpec
CONSTANTS
    Tenants = {1, 2}
    Keys = {1, 2}
    Hosts = {h1}
    NoTenant = NoTenant
    NoKey = NoKey
    NoHost = NoHost
    StorageOutcomes = {"ok"}
    DeployOutcomes = {"ok", "lost"}
    DeleteOutcomes = {"ok", "lost"}
    Requests = {r1, r2}
    Worker = Worker
    QueueCap = 1
    ReturnsAPIKey = TRUE
    MayCrash = FALSE
    MayCancel = FALSE
    Handlers = {p1}
    PatchStatuses = {"active"}
    PatchHosts = {}
    MayExpire = FALSE
    Slots = 1
    Flaky = FALSE
    BatchMayExpire = FALSE
    MayStop = FALSE
INVARIANTS
    MisroutedIsRefused
    DeletedHasNoInstance
    DestroyedWhileMarked
PROPERTIES
    GoneStays
    OldKeyInvalid
    ImplementsWriters
    ZombieIsFound
CONSTRAINT DrawnInOrder
CHECK_DEADLOCK FALSE
