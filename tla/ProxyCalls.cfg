SPECIFICATION FairSpec
CONSTANTS
    Tenants = {t1, t2}
    Keys = {1, 2}
    Hosts = {h1}
    NoTenant = NoTenant
    NoKey = NoKey
    NoHost = NoHost
    StorageOutcomes = {"ok", "err"}
    Calls = {c1, c2}
    LogCap = 1
    NoConn = NoConn
    WrittenStatuses = {"active", "suspended"}
INVARIANTS
    TypeOK
    RoutedToAddress
    ServedAsKeyOwner
PROPERTIES
    NeverBlocked
CONSTRAINT DrawnInOrder
CHECK_DEADLOCK FALSE
