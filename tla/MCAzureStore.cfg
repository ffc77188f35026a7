SPECIFICATION Spec
CONSTANTS
    Call = {c1, c2}
    Value = {v, w}
    Empty = Empty
    None = None
    MaxAttempts = 3
    MaxOutside = 3
PROPERTIES
    KeepsContract
    NameFree
    Terminates
CHECK_DEADLOCK FALSE
