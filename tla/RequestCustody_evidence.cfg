\* Two requests, each with a fallback attempt, and one slot for both.
CONSTANTS
    Request = {r1, r2}
    Generation = {g1}
    GenerationOf <- Together
    None = None
    Limit = 1
    MaxAttempts = 2
    Episodic = {r1}
    Calling = {r1, r2}
SPECIFICATION Spec
CHECK_DEADLOCK FALSE
INVARIANTS
    RetiredIsSettled
    EvidenceKept
    SentIsNeverUnsent
    DeliveredIsDurable
PROPERTIES
    IntentStands
