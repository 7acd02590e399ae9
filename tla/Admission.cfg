SPECIFICATION Spec
CONSTANTS
    me = me peer = peer k1 = k1 k2 = k2 k3 = k3
    Cores = {me, peer}
    Self = me
    KeysOf <- MCKeysOf
    Uris = {u1}
    Allowed <- MCAllowed
    PerBlocks <- MCPerBlocks
    ProposedVal <- MCVote
    Criteria = 0
    Testnet = FALSE
    ExemptId = nobody
    FirstValidators = {me}
    FirstHeight = 3
    MaxHeight = 5
    MaxChecks = 2
    MaxCrashes = 1
    MaxDelivered = 3
    NoKey = NoKey NoRecord = NoRecord NoUri = NoUri NoVal = NoVal
CHECK_DEADLOCK FALSE
INVARIANTS TypeOK WithinRate KeysRecorded 
