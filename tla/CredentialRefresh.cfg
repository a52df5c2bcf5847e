\* Three sessions; leases of two ticks expire and are reclaimed within the time.
CONSTANTS
    Session = {s1, s2, s3}
    None = None
    LeaseTicks = 2
    MaxTime = 4
    MaxVersion = 4
SYMMETRY Ids
SPECIFICATION Spec
INVARIANTS
    PresentedOnce
    PresentedIsFenced
PROPERTIES
    RefreshFollowsItsToken
    DispatchesUnspent
\* The modelled clock and versions end.
CHECK_DEADLOCK FALSE
