CONSTANTS
    LineBytes = 2
    CapacityBytes = 4
    HitLatency = 1
    MissLatency = 3
    WritebackLatency = 2
    ByteBits = 1
    ByteMod = 2
    MemBytes = 8
    NumGprs = 4
    NumPreds = 3
    LinkReg = 3
    Slots <- TwoSlots
    Latency <- DefaultLatency
    Programs <- CorePrograms
    MaxCycle = 16
SPECIFICATION TraceFairSpec
INVARIANTS
    TypeOK
    LinkFollowsACall
    TraceIsComplete
    OutcomesExplainReadyCycles
    StallsAreExplained
PROPERTIES
    ReadyWithinWorstCase
    SlotsAreParallel
    LoopFreeProgramsEnd
CHECK_DEADLOCK FALSE
