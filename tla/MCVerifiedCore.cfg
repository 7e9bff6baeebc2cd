CONSTANTS
    LineBytes = 2
    CapacityBytes = 4
    HitLatency = 1
    MissLatency = 2
    WritebackLatency = 1
    ByteBits = 1
    ByteMod = 2
    MemBytes = 8
    NumGprs = 4
    NumPreds = 3
    LinkReg = 3
    NumCpus = 1
    Slots <- TwoSlots
    Latency <- DefaultLatency
    Programs <- VerifiedPrograms
    MaxCycle = 9
SPECIFICATION Spec
INVARIANTS
    IssuesOnSchedule
    ScoreboardWithinStaticBound
PROPERTIES
    VerifiedBundlesAreLegal
    StaticAddressesNeverPanic
CHECK_DEADLOCK FALSE
