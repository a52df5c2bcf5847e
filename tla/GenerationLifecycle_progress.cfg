\* Two handovers with a failed pass; the process may stop before the first one.
SPECIFICATION FairSpec
CONSTANTS
    Request = {r1}
    None = None
    MaxRetired = 1
    MaxBuilds = 4
    MaxRevision = 3
    MaxFailures = 1
    LastStop = 1
PROPERTIES
    ShutdownEnds
    Converges
CHECK_DEADLOCK FALSE
