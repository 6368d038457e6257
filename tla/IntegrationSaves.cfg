SPECIFICATION Spec
CONSTANTS
    Reviewer = {p}
    Saver = {c1, c2}
    Writer = {w}
    Slot = {s1, s2}
    Official = official
    Custom = {x}
    Pin = {r0, r1}
    MaxCrashes = 1
    None = None
SYMMETRY Symmetry
INVARIANTS
    TypeOK
    SecretsAgree
    ReviewsAreHonoured
PROPERTIES
    CustomNeedsReview
CHECK_DEADLOCK FALSE
