SPECIFICATION Spec
CONSTANTS
    Tenants = {t1}
    Keys = {1}
    Hosts = {h1}
    NoTenant = NoTenant
    NoKey = NoKey
    NoHost = NoHost
    StorageOutcomes = {"ok"}
    Calls = {c1, c2}
    LogCap = 1
    NoConn = NoConn
    WrittenStatuses = {"active", "suspended"}
INVARIANTS
    RoutedAsLogged
CONSTRAINT DrawnInOrder
CHECK_DEADLOCK FALSE
