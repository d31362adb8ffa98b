SPECIFICATION Spec
CONSTANTS
    s1 = s1
    s2 = s2
    s3 = s3
    e1 = e1
    e2 = e2
    Base = Base
    Kind = Kind
    OtherKind = OtherKind
    OtherEvent = e2
    Catcher = s1
    Subs = {s1, s2, s3}
    Events = {e1, e2}
    SubType <- MCSubType
    EventType <- MCEventType
    MaxDead = 2
INVARIANTS
    CountsTrue
    LatestFailures
PROPERTIES
    ImplementsDelivery
    NoneStarved
CHECK_DEADLOCK FALSE
