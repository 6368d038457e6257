SPECIFICATION Spec
CONSTANTS
    p = p
    q = q
    Cmd = {c1, c2, c3, c4}
    Adapter = {1, 2}
    Package = {p, q}
    Declares <- Aliases
    None = None
SYMMETRY Symmetry
INVARIANT NoOrphanGrant
CHECK_DEADLOCK FALSE
