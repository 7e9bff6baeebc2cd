CONSTANTS
    LineBytes = 2
    CapacityBytes = 4
    HitLatency = 1
    MissLatency = 3
    WritebackLatency = 2
    ByteMod = 2
    MemBytes = 6
    NumCpus = 3
    MaxCycle = 5
    Accesses <- AlignedAccesses
SPECIFICATION DataSpec
INVARIANTS
    TypeOK
    MsiFieldsAgree
    AtMostOneModified
    ValidCopiesAreCurrent
PROPERTIES
    StoreTakesOwnership
    PeersOnlyLoseTheStoredLine
    MemoryChangesOnlyByTheOwner
