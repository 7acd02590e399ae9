\* A second day passes while two hashes, one of them paid for again, are
\* aggregated, anchored and pruned.
SPECIFICATION Spec
CONSTANTS
    Ids = {i1, i2}
    i1 = i1
    i2 = i2
    Derived = {i2}
    MaxAggs = 2
    Cals = {c1, c2}
    c1 = c1
    c2 = c2
    Txs = {t1, t2}
    t1 = t1
    t2 = t2
    Lifetime = 0
    MaxTime = 1
    MaxCrashes = 1
    NoTx = NoTx
INVARIANTS TypeOK HashAccounted   CalDataServed
PROPERTIES NeverDowngraded ProofKept 
SYMMETRY Interchangeable
CHECK_DEADLOCK FALSE
