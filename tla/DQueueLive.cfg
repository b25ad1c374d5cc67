SPECIFICATION FairSpec
CONSTANTS
    A = A
    B = B
    t1 = t1
    t2 = t2
    io = io
    NoChl = NoChl
    QTY = 2
    BLK = 2
    MBQTY = 1
    MaxLen = 2
    Quota <- Quota32
    Channels <- MCChannels
    Threads <- OneThread
    Io <- io
    Uses <- OneUse
    IsrChannels = {A}
INVARIANT SemaphoreKept
PROPERTIES
    CallsReturn
    MailboxDrains
    SentLeaves
