SPECIFICATION Spec
CONSTANTS
    Op = {c1, c2, c3}
    Provider = {p1}
    Proxy = {g}
    Boot = Boot
    None = None
    Overlap = FALSE
    MaxCrashes = 1
SYMMETRY CommandSymmetry
INVARIANTS
    TypeOK
    BoundSecretPresent
    SecretAccountedFor
    PreflightFreesOwner
PROPERTIES
    AllClearStartupCleans
    OneStore
CHECK_DEADLOCK FALSE
