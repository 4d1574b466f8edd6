SPECIFICATION Spec
CONSTANTS
    Tenants = {t1}
    Callers = {c1, c2}
    Buckets = {b1, b2, b3}
    Rps = 3
    Window = 2
    Burst = 1
    StaleAfter = 5
    TicksPerSecond = 2
    MaxTime = 11
    MaxResets = 1
    NoBucket = NoBucket
    NoTenant = NoTenant
SYMMETRY Symmetry
INVARIANTS
    TypeOK
    BucketBound
    TenantBound
CHECK_DEADLOCK FALSE
