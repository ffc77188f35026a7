SPECIFICATION PollerSpec
CONSTANTS
    Item = {1, 2}
    Key = {1, 2}
    KeyOf <- Identity
    VersionOf <- Opaque
    MaxWrites = 3
    NoRev = NoRev
    NoEvent = NoEvent
INVARIANTS PollerTypeOK Replica Honest CaughtUp InSyncOnce IInv
PROPERTIES Discipline CopyConverges Silent KeepsContract
CHECK_DEADLOCK FALSE
