SPECIFICATION Spec
CONSTANTS
    me = me peer = peer k1 = k1 k2 = k2 k3 = k3
    Cores = {me, peer}
    Self = me
    KeysOf <- MCKeysOf
    Uris = {u1, u2}
    Allowed <- MCAllowed
    PerBlocks <- MCPerBlocks
    ProposedVal <- MCVote
    Criteria = 0
    Testnet = FALSE
    ExemptId = nobody
    FirstValidators = {me, peer}
    FirstHeight = 3
    MaxHeight = 6
    MaxChecks = 1
    MaxCrashes = 0
    MaxDelivered = 3
    NoKey = NoKey NoRecord = NoRecord NoUri = NoUri NoVal = NoVal
CHECK_DEADLOCK FALSE
INVARIANT AgreedValAccepted
