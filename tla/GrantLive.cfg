SPECIFICATION FairSpec
CONSTANTS
    Slot = {s1}
    Scope = {p1, p2}
    Saver = {w1}
    Acquirer = {}
    Validator = {v1, v2}
    AnyPair = TRUE
    MaxEntries = 1
    MaxAttempts = 2
    None = None
INVARIANTS
    CacheIndexed
    HealthIsEarned
PROPERTIES
    ValidationEnds
    StaleGrantsGo
CHECK_DEADLOCK FALSE
