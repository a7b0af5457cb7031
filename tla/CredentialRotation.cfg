SPECIFICATION Spec
CONSTANTS
    N = 2
    FromStore = {1}
    Goroutines = {g1, g2}
    MaxIssued = 3
    MaxOvertaken = 1
    MaxCrashes = 1
INVARIANTS
    TypeOK
    FilePersisted
PROPERTIES
    NeverBack
    WritesCurrent
CHECK_DEADLOCK FALSE
