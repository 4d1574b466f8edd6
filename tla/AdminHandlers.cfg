SPECIFICATION Spec
CONSTANTS
    Tenants = {t1, t2}
    Keys = {1, 2, 3}
    Hosts = {h1}
    Handlers = {p1, p2}
    NoTenant = NoTenant
    NoKey = NoKey
    NoHost = NoHost
    StorageOutcomes = {"ok", "err", "lost"}
    DeployOutcomes = {"ok"}
    DeleteOutcomes = {"ok", "err", "lost"}
    PatchStatuses = {"active", "suspended"}
    PatchHosts = {}
    MayExpire = TRUE
SYMMETRY Symmetry
CONSTRAINT DrawnInOrder
INVARIANTS
    TypeOK
    DeletedHasNoInstance
CHECK_DEADLOCK FALSE
