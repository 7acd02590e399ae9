SPECIFICATION Spec
SYMMETRY Symmetry
CONSTANTS
    Cals = {c1, c2}
    Roots = {{c1}, {c2}}
    Txs = {t1, t2}
    Scanners = {s1}
    Confirmations = 2
    MaxGap = 3
    Rounds = 1
    MaxTip = 4
    MaxBtcC = 1
    NoTx = NoTx
    Events = {"slow", "crash", "rpc_error", "lnd_error", "late_btca"}
INVARIANTS
    TypeOK
    ProofsBuried
    ProofsVerify
    
