SPECIFICATION Spec
CONSTANTS
    a = a
    w = w
    ToolIds = {a, w}
    WebSearch = {w}
    Shapes <- MCShapes
    MaxMessages = 5
INVARIANTS
    TypeOK
    Carried
    Paired
    ToolTurns
CHECK_DEADLOCK FALSE
