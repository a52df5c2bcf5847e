CONSTANTS
    p1 = p1
    p2 = p2
    A = A
    B = B
    Pub = {p1, p2}
    Producer = {A, B}
    ProducerOf <- OneProcess
    MayStop = {A}
    MayCrash = {A}
    MayFail = {p1}
    MayExpire = {}
    None = None
SPECIFICATION Spec
CHECK_DEADLOCK FALSE
INVARIANTS
    DeliveredIsPublished
    ClearedIsGone
    ResolvedIsDelivered
