SPECIFICATION Spec
CONSTANTS
    a = a
    b = b
    o1 = o1
    o2 = o2
    Threads = {a, b}
    Observers = {o1, o2}
    GuardedCalls <- MCGuardedCalls
    MaxTransitions = 4
INVARIANTS
    IInv
    ToldOnceEach
CHECK_DEADLOCK FALSE
