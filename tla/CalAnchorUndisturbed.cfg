SPECIFICATION Spec
CONSTANTS
    AnchorInterval = 1
    TimeoutBlocks = 0
    MaxHeight = 5
    MaxTxInt = 5
    MaxJobs = 2
    Events = {"btc_error"}
CHECK_DEADLOCK FALSE
INVARIANTS
    NoCalLost
    OnlyIndexedAnchored
    RootsComplete
