SPECIFICATION Spec
CONSTANTS
    AnchorInterval = 1
    TimeoutBlocks = 0
    MaxHeight = 4
    MaxTxInt = 8
    MaxJobs = 2
    Events = {"other_tx"}
CHECK_DEADLOCK FALSE
INVARIANT OnlyIndexedAnchored
