SPECIFICATION Spec
CONSTANTS
    r1 = r1
    r2 = r2
    r3 = r3
    r4 = r4
    a1 = a1
    a2 = a2
    z1 = z1
    z2 = z2
    Nobody = Nobody
    Names = {r1, r2, r3}
    Regs = {r1, r2, r3, r4}
    Newer = r4
    Older = r2
    Name <- MCName
    Lifecycle = {r1, r2, r3, r4}
    Overriders = {r4}
    Starters = {a1, a2}
    Stoppers = {z1, z2}
INVARIANTS
    StartsInOrder
    StopsAllInReverse
CHECK_DEADLOCK FALSE
