SPECIFICATION Spec
CONSTANTS
    N = 2
    FromStore = {1}
    Goroutines = {g1, g2}
    MaxIssued = 3
    MaxOvertaken = 1
    MaxCrashes = 1
INVARIANTS
    RotationPersisted
CHECK_DEADLOCK FALSE
