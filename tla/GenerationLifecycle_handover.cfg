\* A handover to a second generation, a failed pass, and a shutdown at any time.
SPECIFICATION Spec
CONSTANTS
    Request = {r1}
    None = None
    MaxRetired = 1
    MaxBuilds = 2
    MaxRevision = 2
    MaxFailures = 1
    LastStop = 2
INVARIANTS
    ServedIsCurrent
    ReclaimedIsIdle
    SealedIsComplete
    ForceIsSticky
    ReportIsTrue
