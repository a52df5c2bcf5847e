\* Recovery and delivery keep running; the episode backlog holds one execution.
CONSTANTS
    Owner = {o1}
    Principal = {p1}
    Tenant = {t1}
    TenantOf <- OneTenant
    Pool = {r1}
    Execution = {e1, e2}
    Attempt = {a1, a2}
    Key = {}
    Episode = {ep1}
    EpisodeOf <- OneEpisode
    None = None
    TenantLimits <- RoomyTenant
    ResourceLimits = {1}
    Authorization <- FixedKey
    LeaseTicks = 1
    MinuteTicks = 9
    DeferTicks = 1
    MaxAttempts = 2
    MaxPending = 1
    CatchUpBudget = 1
    MaxTime = 2
    MaxPolicy = 1
    MaxGeneration = 0
    MaxCredential = 1
    t1 = t1
    r1 = r1
SPECIFICATION FairSpec
INVARIANT
    FenceKeepsEvidence
PROPERTIES
    GuardSeesEvidence
    OrphanSettles
    EventProjected
\* The modelled clock ends: nothing is left to do after MaxTime.
CHECK_DEADLOCK FALSE
