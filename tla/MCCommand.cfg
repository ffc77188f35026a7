SPECIFICATION MCSpec
CONSTANTS
    Call = {c1, c2}
    Key = {1, 2}
    NsOf <- TwoNs
    Malformed = Malformed
    Segment = {"a", "b"}
    MaxNamespaceDepth = 2
    Principal = {"ann", "bob", "eve"}
    User = {"ann", "bob"}
    Request <- Requests
    PolicyChoices <- TwoPolicies
    MaxOutside = 1
    Mine = c1
    Options <- FewOptions
INVARIANTS Authorized ExactListing Accounted CleanDrain ExitTells
CHECK_DEADLOCK FALSE
