SPECIFICATION Spec
CONSTANTS
    Limit = 16
    WordBytes = 2
    ChunkWords = 2
    Layouts <- MCLayouts
INVARIANTS OwnRegionOnly CallExact ValidationExact
CHECK_DEADLOCK FALSE
