SPECIFICATION Spec
CONSTANTS
    v = v n = n v1 = v1 v2 = v2 n1 = n1 n2 = n2
    Cores = {v, n}
    Validators = {v}
    Founders = {v}
    KeysOf <- MCKeysOf
    FirstKey <- MCFirst
    Rank <- MCRank
    ReadyHeight = 0
    MaxLen = 5
    MaxCals = 1
    MaxRestarts = 1
    NoKey = NoKey
CHECK_DEADLOCK FALSE
INVARIANTS TypeOK KeysCurrent SameTxInt StakedDeclared 
PROPERTY EventuallyDeclared
