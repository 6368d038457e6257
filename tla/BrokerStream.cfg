SPECIFICATION FairSpec
CONSTANTS
    MaxChunks = 4
    EventCap = 3
    BufferFrames = 2
    None = None
INVARIANTS
    TypeOK
    NobodyWaitsInVain
    ClosedIsJoined
PROPERTIES
    Contract
    TasksEnd
CHECK_DEADLOCK FALSE
