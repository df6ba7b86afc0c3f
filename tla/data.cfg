SPECIFICATION SpecAll
CONSTANTS
    Threads = {t1, t2}
    Events = {e1, e2}
    NULL = NULL
    Idle = Idle
    Fail = Fail
    Bad = Bad
    Nil = Nil
    Default = Default
    Values = {a, b}
    Paths = {p, q}
    Handles = {h, i}
    BlockSize = 2
    DevSize = 5
    MaxWrites = 1
    MaxMounts = 2
    PathLength = 2
    MaxBlocks = 2
    Half = 4
    Ms = 2
    MaxNow = 18
    Late = 2
    NKeys = 4
    NV = 5
    ByteBits = 3
    IntBits = 3
    Mantissa = 4
    Bases = {2, 3}
    MaxList = 3
    ElemBits = 1
    ElemSize = 2
    MaxArray = 2
    MemOffsets = 12
    MemSize = 4
    EraseSize = 3
INVARIANTS
    TypeOK NoLostCondition DisabledIsForgotten
     TimesAreKept FilesAreListed LoadsWholeFile
PROPERTIES
    KeepsWatching ConditionIsSeen
    ListActsOnSequence ArrayActsOnElements MemActsInBounds SymbolHashIsPerfect
CHECK_DEADLOCK FALSE
