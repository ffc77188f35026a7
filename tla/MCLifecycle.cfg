SPECIFICATION Spec
CONSTANTS
    Call = {c1, c2}
    Configuration <- Configurations
INVARIANTS
    StoreOutlivesCalls
    NothingLeftOpen
PROPERTIES
    Configured
    Stops
CHECK_DEADLOCK FALSE
