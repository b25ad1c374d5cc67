SPECIFICATION FairSpec
CONSTANTS
    a = a
    b = b
    Links = {a, b}
    Types <- OthersAndTC
    NSOCK = 2
    MSGS = 1
    TMO = 1
    REFRESH = 1
    HOLD = 1
    KEEP = 0
    RETRIES = 1
    LONG = 1
    Reused = FALSE
INVARIANTS
    TypeOK
    SocketsAreHeld
    GivesUp
PROPERTIES
    NotTooEarly
    Reconnects
