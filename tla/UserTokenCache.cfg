SPECIFICATION Spec
CONSTANTS
    Keys = {k1, k2, k3, k4}
    Requests = {r1, r2}
    MaxSize = 2
    MaxOutdated = 2
INVARIANTS
    TypeOK
    SizeBounded
    OrderOfEntries
