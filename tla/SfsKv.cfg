SPECIFICATION Spec
CONSTANTS
    N = 3
    CAP = 7
    i1 = i1
    i2 = i2
    i3 = i3
    short = short
    long = long
    Ids <- ThreeIds
    Vals <- TwoVals
    SizeOf <- Sizes
    None = None
    Blank = Blank
    NoReq = NoReq
    Format = Format
    CutAt <- Everywhere
    Tears = FALSE
    WriteAfter <- NotDuplicate
SYMMETRY Symm3
INVARIANTS TypeOK Fits OldIsThere OneValid
PROPERTY ImplementsKv
CHECK_DEADLOCK FALSE
