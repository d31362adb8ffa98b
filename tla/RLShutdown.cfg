SPECIFICATION FairSpec
CONSTANTS
    c1 = c1
    c2 = c2
    Callers = {c1, c2}
    HookCount = 3
    Slow = {2}
    MaxPauses = 2
INVARIANTS
    CompleteIsStopped
    HooksRunOnce
PROPERTIES
    ShutdownCompletes
CHECK_DEADLOCK FALSE
