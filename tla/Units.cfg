SPECIFICATION Spec
CONSTANTS
    CtlBlock = {d, v1, v2, v3}
    CtlDefaults = d
    Corrupt = Corrupt
    MaxFaults = 1
    HalErrors = TRUE
    LogMax = 3
    LogEvents <- SomeEvents
    LogBits = {0, 1}
    MaxAppends = 4
    MaxLogFaults = 2
    KeySet = {k1, k2}
    CompiledKey = dev
    Builds <- EveryBuild
    NoBoard = NoBoard
    RegMax = 2
    MemMax = 3
    PeriphMax = 2
    Word = 16
    HdrBytes = 2
    HdrMax = 3
    ImgMax = 3
    SlotPlaces <- TwoSlotPlaces
    TlvMax = 14
    TlvEntriesMax = 2
    TlvLens = {0, 1, 4, 6}
    MaxData = 11
    Block = 4
    LenBytes = 1
    Cores = {c1}
    McSlots = {A}
    NoSlot = NoSlot
    Entries = {0, 1, 2}
    MaxRewrites = 2
    VarNames = {n1, n2, n3}
    Bytes = {0, 1}
    MaxVars = 2
    MaxVarSize = 2
    RtosConfigs <- TwoRtosConfigs
    ExtraRegions <- OneExtraRegion
    NodeNames <- TreeNames
    NodePaths <- TreePaths
    MaxDepth = 5
INVARIANTS
    UnitsTypeOK
    OneFaultKeepsBlock
    NoLogGap
    ReadOutInOrder
    RevokedStaysRevoked
    SignedByTrustedKey
    AttestationTells
    AcceptedImageInSlot
    TlvEntriesInside
    CutsDoNotMatter
    CoresRunVerified
    LockdownHolds
    PropOfNodeAsked
    TableTells
PROPERTIES
    BlockIsAtomic
    SavedEntriesKept
    RegionsKept
    StoreIsMap
CHECK_DEADLOCK FALSE
