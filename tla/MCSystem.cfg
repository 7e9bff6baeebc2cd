CONSTANTS
    LineBytes = 4
    CapacityBytes = 4
    HitLatency = 1
    MissLatency = 3
    WritebackLatency = 2
    ByteBits = 1
    ByteMod = 2
    MemBytes = 8
    NumGprs = 4
    NumPreds = 2
    LinkReg = 3
    NumCpus = 2
    Slots <- TwoSlots
    Latency <- DefaultLatency
    ProgramSets <- TwoCpuPrograms
    MaxCycle = 20
SPECIFICATION FairSpec
INVARIANTS
    TypeOK
PROPERTIES
    ImplementsCoherence
    RequestsLostOnlyAfterDrift
    QuiescenceIsFinal
    FinishedCpusAreInert
    LoopFreeSystemsEnd
CHECK_DEADLOCK FALSE
