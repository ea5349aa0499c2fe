SPECIFICATION Spec
CONSTANTS
    Ids = {c1}
    Domains = {d1, d2}
    Actors = {a1}
    MaxClaims = 1
    Threshold = 2
    MaxFailures = 2
SYMMETRY Interchangeable
PROPERTIES
    UnresolvedNeverRevokes
CHECK_DEADLOCK FALSE
