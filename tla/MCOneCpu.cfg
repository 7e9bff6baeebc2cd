CONSTANTS
    LineBytes = 4
    CapacityBytes = 4
    HitLatency = 1
    MissLatency = 3
    WritebackLatency = 2
    ByteBits = 1
    ByteMod = 2
    MemBytes = 8
    NumGprs = 4
    NumPreds = 2
    LinkReg = 3
    NumCpus = 1
    Slots <- ThreeSlots
    Latency <- DefaultLatency
    ProgramSets <- OneCpuPrograms
    MaxCycle = 14
SPECIFICATION Spec
PROPERTIES
    OneCpuBehavesAsTraced
CHECK_DEADLOCK FALSE
