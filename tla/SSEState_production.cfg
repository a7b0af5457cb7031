SPECIFICATION Spec
CONSTANTS
    MaxIndex = 2
    StrictMode = FALSE
INVARIANTS
    TypeOK
    Agreement
    NeverRepeated
    ClosedBeforeMessageDelta
    FreshIndex
