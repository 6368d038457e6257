SPECIFICATION FairSpec
CONSTANTS
    Call = {c1, c2, c3}
    Canceller = {k1}
    Id = {i1, i2}
    None = None
INVARIANTS
    TypeOK
    LiveIsRegistered
    NoGhostSession
PROPERTY CancelIsSeen
CHECK_DEADLOCK FALSE
