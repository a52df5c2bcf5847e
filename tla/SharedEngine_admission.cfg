\* Rate limits of tenants and keys across minutes, and idempotency keys.
CONSTANTS
    Owner = {o1}
    Principal = {p1, p2}
    Tenant = {t1}
    TenantOf <- OneTenant
    Pool = {}
    Execution = {e1, e2, e3}
    Attempt = {}
    Key = {k1}
    Episode = {}
    EpisodeOf <- OneEpisode
    None = None
    TenantLimits <- RatedTenant
    ResourceLimits = {}
    Authorization <- RatedKey
    LeaseTicks = 2
    MinuteTicks = 1
    DeferTicks = 3
    MaxAttempts = 2
    MaxPending = 2
    CatchUpBudget = 2
    MaxTime = 2
    MaxPolicy = 2
    MaxGeneration = 0
    MaxCredential = 1
    t1 = t1
    r1 = r1
SYMMETRY Ids
SPECIFICATION Spec
INVARIANTS
    RateAccounting
    KeyNamesItsExecution
\* The modelled clock ends: nothing is left to do after MaxTime.
CHECK_DEADLOCK FALSE
