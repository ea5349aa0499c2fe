SPECIFICATION Spec
CONSTANTS
    Ids = {c1, c2}
    Domains = {d1, d2}
    Actors = {a1, a2}
    MaxClaims = 1
    Threshold = 1
    MaxFailures = 1
SYMMETRY Interchangeable
INVARIANTS
    TypeOK
    CacheMatchesClaims
    ClaimsOvershootBounded
CHECK_DEADLOCK FALSE
