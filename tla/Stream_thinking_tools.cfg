SPECIFICATION Spec
CONSTANTS
    NoToolId = NoToolId
    ToolIds = {t1, t2}
    MaxIndex = 2
    MaxMessages = 4
    Liberties = {"tools_with_thinking"}
INVARIANTS
    StopReasonHonest
