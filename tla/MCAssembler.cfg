CONSTANTS
    Files <- AllFiles
    Reserved <- ReservedNames
SPECIFICATION Spec
INVARIANTS
    AcceptsSensibleHeaders
    EveryDeclarationCounts
    AcceptsTheWellFormed
    LabelsDenoteTheirBundles
    EveryInstructionIsPlaced
    AssembledProgramsAreInputs
CHECK_DEADLOCK FALSE
