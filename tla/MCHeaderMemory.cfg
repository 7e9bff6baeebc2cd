CONSTANTS
    Files <- MemoryFiles
    Reserved <- ReservedNames
SPECIFICATION Spec
INVARIANTS
    DeclaredMemoryCounts
CHECK_DEADLOCK FALSE
