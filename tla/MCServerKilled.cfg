SPECIFICATION Spec
CONSTANTS
    Call = {c1, c2}
    Key = {1, 2}
    NsOf <- TwoNs
    Malformed = Malformed
    Segment = {"a", "b"}
    MaxNamespaceDepth = 2
    Principal = {"ann", "bob", "eve"}
    User = {"ann", "bob"}
    Request <- Writes
    PolicyChoices <- TwoPolicies
    MaxOutside = 1
INVARIANT AuditTrail
SYMMETRY CallSymmetry
CHECK_DEADLOCK FALSE
