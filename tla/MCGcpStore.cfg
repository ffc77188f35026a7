SPECIFICATION Spec
CONSTANTS
    Call = {c1, c2, c3}
    Value = {v, w}
    Empty = Empty
    None = None
    Blank = Blank
    MaxOutside = 3
SYMMETRY Symmetric
INVARIANTS
    RacingPutsSucceed
    OneRevision
PROPERTIES
    KeepsContract
CHECK_DEADLOCK FALSE
