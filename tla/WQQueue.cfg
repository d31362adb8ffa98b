SPECIFICATION FairSpec
CONSTANTS
    t1 = t1
    t2 = t2
    t3 = t3
    w1 = w1
    w2 = w2
    c1 = c1
    NoTask = NoTask
    Urgent = t1
    Tasks = {t1, t2, t3}
    Workers = {w1, w2}
    Clients = {c1}
    MaxSize = 2
    Priority <- MCPriority
    Timed = {t1}
    SelfCancelling = {t2}
    Nowait = {t3}
INVARIANTS
    OneHolder
    FutureMatchesStatus
    ExitDrained
    CountersMatch
    CleanStopDrains
    ClientsTold
PROPERTIES
    ImplementsLifecycle
    StopReturnsEventually
    StopEnds
    QueuedIsTaken
CHECK_DEADLOCK FALSE
