SPECIFICATION Spec
CONSTANTS
    s1 = s1
    s2 = s2
    NoSec = NoSec
    FF = FF
    Junk = Junk
    Secs <- MCSecs
    SpiSecs <- MCSecs
    NextSec <- MCNext
    Vals = {a}
    LAST = 2
    DELAY = 2
    PERIOD = 1
    AHEAD = 3
    Mishaps = {"clock0"}
PROPERTIES
    ReadsAsWritten
