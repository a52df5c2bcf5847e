\* Two requests of two generations share two slots and the queue of a fair
\* worker; either may stay alive for ever, and one calls a provider.
CONSTANTS
    Request = {r1, r2}
    Generation = {g1, g2}
    GenerationOf <- Apart
    None = None
    Limit = 2
    MaxAttempts = 1
    Episodic = {r1}
    Calling = {r1}
SPECIFICATION FairSpec
CHECK_DEADLOCK FALSE
INVARIANT EntryAccounting
PROPERTY DroppedRetires
