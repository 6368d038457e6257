SPECIFICATION Spec
CONSTANTS
    Op = {c1, c2, c3}
    Provider = {p1}
    Proxy = {g}
    Boot = Boot
    None = None
    Overlap = TRUE
    MaxCrashes = 0
INVARIANT BoundSecretPresent
CHECK_DEADLOCK FALSE
