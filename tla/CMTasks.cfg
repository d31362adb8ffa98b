SPECIFICATION FairSpec
CONSTANTS
    t1 = t1
    t2 = t2
    t3 = t3
    b1 = b1
    b2 = b2
    d1 = d1
    Tracked = {t1, t2}
    Bounded = {b1, b2}
    Drains = {d1}
    MaxConcurrent = 2
INVARIANTS
    SlotsAccounted
    StopReachesAll
PROPERTIES
    AllEnd
CHECK_DEADLOCK FALSE
