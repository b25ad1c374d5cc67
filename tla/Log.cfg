SPECIFICATION Spec
CONSTANTS
    QTY = 3
    MOD = 8
    MaxWrites = 4
    None = None
    Blank = Blank
    NoReq = NoReq
    Format = Format
INVARIANTS
    TypeOK
    Held
PROPERTIES
    RightEntry
