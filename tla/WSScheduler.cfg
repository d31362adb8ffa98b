SPECIFICATION FairSpec
CONSTANTS
    t1 = t1
    t2 = t2
    t3 = t3
    w1 = w1
    w2 = w2
    NoTask = NoTask
    Urgent = t1
    Tasks = {t1, t2, t3}
    Workers = {w1, w2}
    MaxSize = 2
    Priority <- MCPriority
    Timed = {t1}
    SelfCancelling = {t2}
INVARIANTS
    InStep
    FuturesAgree
    StopLeavesNoneQueued
PROPERTIES
    OutcomeStable
    ImplementsWorkflows
    AcceptedSettles
CHECK_DEADLOCK FALSE
