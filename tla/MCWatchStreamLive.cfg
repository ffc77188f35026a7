SPECIFICATION Spec
CONSTANTS
    Item = {1, 2}
    Key = {1, 2}
    KeyOf <- Identity
    VersionOf <- Opaque
    MaxWrites = 1
    NoRev = NoRev
    NoEvent = NoEvent
    Segment = {"a", "b"}
    MaxNamespaceDepth = 2
    Principal = {"caller", "other"}
    NsOf <- TwoNs
    Caller = "caller"
    PolicyChoices <- AllPolicies
    NsChoices <- OneRequest
    Malformed = Malformed
    WireSize = 1
PROPERTIES NoLeak Announced Converges
CHECK_DEADLOCK FALSE
