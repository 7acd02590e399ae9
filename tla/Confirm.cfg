SPECIFICATION FairSpec
CONSTANTS
    Cals = {c1}
    Roots = {{c1}}
    Txs = {t1}
    Scanners = {s1, s2}
    Confirmations = 2
    MaxGap = 3
    Rounds = 2
    MaxTip = 4
    MaxBtcC = 1
    NoTx = NoTx
    Events = {"slow", "late_btca", "rpc_error"}
PROPERTY EventuallyProved
