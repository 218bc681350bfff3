SPECIFICATION Spec
CONSTANTS
    Line <- MCLines
    Prose <- MCProse
    MaxLines = 4
    MaxPages = 3
    max_chars = 6
    overlap_chars = 3
    NoTitle = NoTitle
INVARIANTS
    ChunkIdsAreUnique
    PathsNest
    EveryCharacterIsKept
    PagesAreWhereTextStarts
PROPERTIES
    ProseTouchesOneSection
CHECK_DEADLOCK FALSE
