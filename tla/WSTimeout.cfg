SPECIFICATION Spec
CONSTANTS
    t1 = t1
    t2 = t2
    w1 = w1
    NoTask = NoTask
    Urgent = t1
    Tasks = {t1, t2}
    Workers = {w1}
    MaxSize = 1
    Priority <- MCPriority
    Timed = {t1}
    SelfCancelling = {}
INVARIANTS
    TimeoutEnforced
CHECK_DEADLOCK FALSE
