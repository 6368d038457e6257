SPECIFICATION FairSpec
CONSTANTS
    Op = {c1, c2}
    Provider = {p1}
    Proxy = {g}
    Boot = Boot
    None = None
    Overlap = TRUE
    MaxCrashes = 1
INVARIANT NoLostUpdate
PROPERTIES
    StartupServes
    EveryCommandAnswered
CHECK_DEADLOCK FALSE
