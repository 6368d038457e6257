SPECIFICATION FairSpec
CONSTANTS
    Rect = {r1, r2}
    Initial = r1
    MaxReports = 3
    None = None
INVARIANTS
    TypeOK
    DurableIsInFile
PROPERTIES
    WritesInOrder
    PendingIsWritten
CHECK_DEADLOCK FALSE
