SPECIFICATION Spec
CONSTANTS
    Capital <- OneLetter
    Digit = {"0", "1", "2", "3"}
    MaxNamespaceDepth = 2
    MaxSegmentLen = 3
    MaxNameLen = 3
    MaxIDLen = 8
    MaxVaultNameLen = 7
    TextChar = {"a", "A", "0", "1", "-", "/", ".", "_"}
    MaxText = 6
INVARIANTS Canonical RoundTrip Skipped
CHECK_DEADLOCK FALSE
