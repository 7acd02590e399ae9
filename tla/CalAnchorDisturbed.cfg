SPECIFICATION Spec
CONSTANTS
    AnchorInterval = 0
    TimeoutBlocks = 0
    MaxHeight = 2
    MaxTxInt = 5
    MaxJobs = 2
    Events = {"other_tx", "slow", "crash", "no_leader", "rpc_error", "no_scan", "overdue"}
CHECK_DEADLOCK FALSE
INVARIANTS
    TypeOK
    MarkersOrdered
    
