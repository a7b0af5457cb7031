SPECIFICATION Spec
CONSTANTS
    NoToolId = NoToolId
    ToolIds = {t1, t2, t3}
    MaxIndex = 3
    MaxMessages = 7
    Liberties = {}
INVARIANTS
    TypeOK
    Faultless
    ToolsDelivered
    ThinkingDelivered
PROPERTIES
    ImplementsClaudeStream
    StableBlocks
