SPECIFICATION Spec
CONSTANTS
    a = a
    b = b
    Links = {a, b}
    Types <- Servers
    NSOCK = 2
    MSGS = 1
    TMO = 1
    REFRESH = 1
    HOLD = 1
    KEEP = 0
    RETRIES = 0
    LONG = 1
    Reused = FALSE
INVARIANTS
    SocketsAreHeld
