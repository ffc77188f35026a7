SPECIFICATION Spec
CONSTANTS
    Call = {c1, c2, c3}
    Object = {o1, o2}
    Name = {KeyName, spelt, other}
    KeyName = KeyName
    Spelling = {KeyName, spelt}
    Value = {v}
    Empty = Empty
    None = None
    Note = {NoNote}
    NoNote = NoNote
    MaxOutside = 0
SYMMETRY Symmetric
PROPERTIES
    DeleteRemoves
CHECK_DEADLOCK FALSE
