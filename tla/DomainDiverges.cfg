SPECIFICATION Spec
CONSTANTS
    Ids = {c1, c2}
    Domains = {d1, d2}
    Actors = {a1, a2}
    MaxClaims = 2
    Threshold = 0
    MaxFailures = 1
SYMMETRY Interchangeable
INVARIANTS
    NeverDiverges
CHECK_DEADLOCK FALSE
