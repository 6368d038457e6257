SPECIFICATION Spec
CONSTANTS
    Slot = {s1, s2}
    Scope = {p1}
    Saver = {w1, w2}
    Acquirer = {a1, a2}
    Validator = {}
    AnyPair = TRUE
    MaxEntries = 1
    MaxAttempts = 2
    None = None
SYMMETRY ActorSymmetry
INVARIANTS
    TypeOK
    CacheIsSound
CHECK_DEADLOCK FALSE
