SPECIFICATION Spec
CONSTANTS
    t1 = t1
    t2 = t2
    Absent = Absent
    Containers = {"root", "child"}
    Keys = {"a", "b"}
    Threads = {t1, t2}
    Bindings = {"a", "b"}
    Place <- MCCyclePlace
    Singletons = {"a", "b"}
    Given = {}
    Overriding = {}
    Needs <- MCCycleNeeds
    Requests <- MCCycleRequests
    Chain <- MCChain
INVARIANTS
    NoCircularWait
CHECK_DEADLOCK FALSE
