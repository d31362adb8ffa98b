SPECIFICATION FairSpec
CONSTANTS
    t1 = t1
    t2 = t2
    Absent = Absent
    Containers = {"root", "child"}
    Keys = {"service", "store", "ping", "pong"}
    Threads = {t1, t2}
    Bindings = {"service", "store", "given", "newer", "ping", "pong"}
    Place <- MCPlace
    Singletons = {"service", "store", "given", "newer"}
    Given = {"given"}
    Overriding = {"newer"}
    Needs <- MCNeeds
    Requests <- MCRequests
    Chain <- MCChain
INVARIANTS
    OneMaker
PROPERTIES
    OneInstance
    ResolveEnds
CHECK_DEADLOCK FALSE
