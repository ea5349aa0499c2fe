SPECIFICATION FairSpec
CONSTANTS
    Schedules = {s1, s2}
    Domains = {d1}
    Dispatchers = {t1}
    Handlers = {h1}
    Cadences <- OnlyHourly
    Moments <- LateMoments
    MaxActive = 1
    MaxPerTick = 1
    FailureLimit = 2
    MaxRequests = 1
    MayHappen = {"refused", "crash"}
    MaxFaults = 1
PROPERTIES
    EveryWindowHandled
CHECK_DEADLOCK FALSE
