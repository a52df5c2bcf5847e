\* Limits, keys, credentials and the configuration change under running work.
CONSTANTS
    Owner = {o1}
    Principal = {p1}
    Tenant = {t1}
    TenantOf <- OneTenant
    Pool = {r1}
    Execution = {e1}
    Attempt = {a1}
    Key = {}
    Episode = {}
    EpisodeOf <- OneEpisode
    None = None
    TenantLimits <- TightAndRoomy
    ResourceLimits = {0, 1}
    Authorization <- RevocableKey
    LeaseTicks = 1
    MinuteTicks = 9
    DeferTicks = 1
    MaxAttempts = 2
    MaxPending = 2
    CatchUpBudget = 2
    MaxTime = 2
    MaxPolicy = 2
    MaxGeneration = 1
    MaxCredential = 2
    t1 = t1
    r1 = r1
SYMMETRY Ids
SPECIFICATION Spec
PROPERTIES
    FencedDispatch
\* The modelled clock ends: nothing is left to do after MaxTime.
CHECK_DEADLOCK FALSE
