SPECIFICATION FormatsSpec
CONSTANTS
    NoToolId = NoToolId
    ToolIds = {NoToolId, a, b}
    Pieces = 2
    MaxCalls = 3
    ObjectThenStop = FALSE
    MaxIndex = 3
INVARIANTS
    FormatsTypeOK
    DistinctBlocks
    RegisteredHaveBlocks
    JoinedArguments
    SameCall
    OpenAIFaultless
    OpenAIArguments
    FormatsAgree
CHECK_DEADLOCK FALSE
