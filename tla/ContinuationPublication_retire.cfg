CONSTANTS
    p1 = p1
    p2 = p2
    A = A
    B = B
    Pub = {p1}
    Producer = {A, B}
    ProducerOf <- OneProcess
    MayStop = {A, B}
    MayCrash = {A}
    MayFail = {p1}
    MayExpire = {p1}
    None = None
SPECIFICATION FairSpec
CHECK_DEADLOCK FALSE
PROPERTY RetiredLeavesNothing
PROPERTY CrashedIsRecovered
