SPECIFICATION Spec
CONSTANTS
    Keys = {k1, k2}
    MaxTokenLen = 4
    MaxPreview = 8
    MaxPiece = 2
    Scripts <- Texts
INVARIANTS
    ChunkingIsInvisible
    NothingHeldAtTheEnd
PROPERTIES
    NothingAfterTheEnd
CHECK_DEADLOCK FALSE
