SPECIFICATION Spec
CONSTANTS
    A = A
    B = B
    t1 = t1
    t2 = t2
    io = io
    NoChl = NoChl
    QTY = 3
    BLK = 2
    MBQTY = 1
    MaxLen = 2
    Quota <- Quota41
    Channels <- MCChannels
    Threads <- MCThreads
    Io <- io
    Uses <- PoolUses
    IsrChannels = {}
INVARIANTS
    TypeOK
    MutualExclusion
    NoLeak
    WholePool
PROPERTIES
    InOrder
