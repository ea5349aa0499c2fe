SPECIFICATION Spec
CONSTANTS
    Scans = {s1, s2}
    Requests = {r1, r2}
    Tasks = {t1, t2, t3}
    Stages = 1
    MaxActive = 1
    MayHappen = {"worker", "api", "ambiguous", "pipeline", "module"}
    MaxFaults = 2
SYMMETRY Interchangeable
INVARIANTS
    TypeOK
    ActiveHasDriver
    OneTaskPerDelivery
    SettledShowsNoStage
    CapOvershootBounded
PROPERTIES
    CancelHolds
CONSTRAINT SecondScanBounded
CHECK_DEADLOCK FALSE
