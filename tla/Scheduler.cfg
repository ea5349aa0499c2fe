SPECIFICATION Spec
CONSTANTS
    Schedules = {s1, s2}
    Domains = {d1}
    Dispatchers = {t1, t2}
    Handlers = {h1, h2}
    Cadences <- DailyOrWeekly
    Moments <- TwoMoments
    MaxActive = 1
    MaxPerTick = 2
    FailureLimit = 1
    MaxRequests = 2
    MayHappen = {"refused", "ambiguous", "crash"}
    MaxFaults = 1
SYMMETRY Interchangeable
INVARIANTS
    TypeOK
    QueuedHasPublisher
    EnabledIsHealthy
    NextFitsCadence
PROPERTIES
    ImplementsWindowBook
    TickRespectsCap
CHECK_DEADLOCK FALSE
