SPECIFICATION MCSpec
CONSTANTS
    Call = {c1, c2}
    Object = {o1, o2}
    Name = {KeyName, spelt, other}
    KeyName = KeyName
    Spelling = {KeyName, spelt}
    Value = {v, w}
    Empty = Empty
    None = None
    Note = {NoNote, n}
    NoNote = NoNote
    MaxOutside = 2
SYMMETRY Symmetric
INVARIANTS
    FoundIsHeld
    AbsentWhenTold
    ListedIsHeld
PROPERTIES
    NoteCarried
CHECK_DEADLOCK FALSE
