SPECIFICATION FairSpec
CONSTANTS
    Hashes = {h1, h2, h3}
    Workers = {w1, w2}
    Callers = {c1, c2}
    BatchSize = 1
    NoOne = NoOne
    Loop = Loop
INVARIANTS
    TypeOK
    ExactlyOnce
    NothingVanishes
    DrainUndisturbed
    MutexHeldInside
PROPERTIES
    ImplementsPool
    EventuallySettled
    CallsReturn
