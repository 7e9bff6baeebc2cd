CONSTANTS
    LineBytes = 4
    CapacityBytes = 4
    HitLatency = 1
    MissLatency = 1
    WritebackLatency = 1
    ByteBits = 1
    ByteMod = 2
    MemBytes = 8
    NumGprs = 4
    NumPreds = 2
    LinkReg = 3
    NumCpus = 2
    Slots <- TwoSlots
    Latency <- DefaultLatency
    ProgramSets <- AllSystems
    MaxCycle = 30
SPECIFICATION Spec
INVARIANTS
    CpusIssueOnSchedule
    VerifiedPollingIsBounded
PROPERTIES
    ScheduledAccessesAreServed
    AcquireSeesRelease
CHECK_DEADLOCK FALSE
