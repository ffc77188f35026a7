SPECIFICATION PollerSpec
CONSTANTS
    Item = {1}
    Key = {1}
    KeyOf <- Identity
    VersionOf <- Number
    MaxWrites = 3
    NoRev = NoRev
    NoEvent = NoEvent
PROPERTY CopyConverges
CHECK_DEADLOCK FALSE
