SPECIFICATION Spec
CONSTANTS
    Item = {1, 2}
    Key = {1, 2}
    KeyOf <- Identity
    VersionOf <- Opaque
    MaxWrites = 2
    NoRev = NoRev
    NoEvent = NoEvent
    Segment = {"a", "b"}
    MaxNamespaceDepth = 2
    Principal = {"caller", "other"}
    NsOf <- TwoNs
    Caller = "caller"
    PolicyChoices <- AllPolicies
    NsChoices <- TwoRequests
    Malformed = Malformed
    WireSize = 1
INVARIANTS Pipeline Authorized Accounted CleanEnd
PROPERTY ClientDiscipline
CHECK_DEADLOCK FALSE
