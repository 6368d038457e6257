SPECIFICATION FairSpec
CONSTANTS
    merge=merge
    copy=copy
    Previewer = {1, 2, 3}
    Importer = {i1, i2}
    Writer = {w}
    Row = {"settings", "bindings"}
    Doc = {merge, copy}
    Compared <- RowsCompared
    Written <- RowsWritten
    Bytes <- Sizes
    MaxSessions = 2
    Budget = 3
    None = None
INVARIANTS
    TypeOK
    Accounted
    ClaimIsExclusive
PROPERTIES
    SavesSurvive
    ClaimsEnd
CHECK_DEADLOCK FALSE
