SPECIFICATION FramingSpec
CONSTANTS
    Frames <- MCFrames
    MaxFrames = 3
    MaxSize = 11
    Units <- MCUnits
INVARIANTS
    FramingTypeOK
    BufferBounded
    ChunkingInvisible
    DamageContained
CHECK_DEADLOCK FALSE
