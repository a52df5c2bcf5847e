\* One reliable worker and one that may fail, two events.
CONSTANTS
    Worker = {w1, w2}
    Fragile = {w2}
    Event = {ev1, ev2}
    None = None
    Interval = 1
    MaxFailures = 1
SPECIFICATION FairSpec
INVARIANT
    EffectsOnce
PROPERTIES
    DeliversInOrder
    DeliversEventually
