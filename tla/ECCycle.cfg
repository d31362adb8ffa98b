SPECIFICATION Spec
CONSTANTS
    o1 = o1
    o2 = o2
    Observers = {o1, o2}
    MaxTrail = 6
INVARIANTS
    TrailIsPath
    ToldOfEach
CHECK_DEADLOCK FALSE
