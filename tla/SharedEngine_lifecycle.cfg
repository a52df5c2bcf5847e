\* Two incarnations share two executions and a pool; no policy changes.
CONSTANTS
    Owner = {o1, o2}
    Principal = {p1}
    Tenant = {t1}
    TenantOf <- OneTenant
    Pool = {r1}
    Execution = {e1, e2}
    Attempt = {a1, a2}
    Key = {}
    Episode = {}
    EpisodeOf <- OneEpisode
    None = None
    TenantLimits <- RoomyTenant
    ResourceLimits = {2}
    Authorization <- FixedKey
    LeaseTicks = 1
    MinuteTicks = 9
    DeferTicks = 1
    MaxAttempts = 2
    MaxPending = 2
    CatchUpBudget = 2
    MaxTime = 3
    MaxPolicy = 1
    MaxGeneration = 0
    MaxCredential = 1
    t1 = t1
    r1 = r1
SYMMETRY Ids
SPECIFICATION Spec
INVARIANTS
    TenantConservation
    ResourceConservation
    OneUnresolvedAttempt
    SendOnce
    EventAgrees
    OutcomeIsTrue
PROPERTIES
    SettledIsFinal
\* The modelled clock ends: nothing is left to do after MaxTime.
CHECK_DEADLOCK FALSE
