SPECIFICATION Spec
CONSTANTS
    N = 3
    CAP = 7
    i1 = i1
    i2 = i2
    i3 = i3
    short = short
    long = long
    Ids <- TwoIds
    Vals <- TwoVals
    SizeOf <- Sizes
    None = None
    Blank = Blank
    NoReq = NoReq
    Format = Format
    CutAt <- Copying
    Tears = FALSE
    WriteAfter <- Everywhere
SYMMETRY Symm2
CHECK_DEADLOCK FALSE
PROPERTY ImplementsKv
