SPECIFICATION FairSpec
CONSTANTS
    Tenants = {1, 2}
    ServiceIds = {11, 12, 13, 14, 15, 21, 22, 23, 24, 25}
    NoService = NoService
    MaxRetries = 3
    Outcomes = {"ok", "err", "lost"}
INVARIANTS
    TypeOK
    NoHalfConfiguredApp
    ReadyIsComplete
PROPERTIES
    DeployEnds
CONSTRAINT DrawnInOrder
CHECK_DEADLOCK FALSE
