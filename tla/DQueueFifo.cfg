SPECIFICATION Spec
CONSTANTS
    A = A
    B = B
    t1 = t1
    t2 = t2
    io = io
    NoChl = NoChl
    QTY = 2
    BLK = 2
    MBQTY = 1
    MaxLen = 2
    Quota <- Quota31
    Channels <- MCChannels
    Threads <- MCThreads
    Io <- io
    Uses <- FifoUses
    IsrChannels = {}
INVARIANTS
    LengthIsThere
PROPERTIES
    ImplementsFifo
