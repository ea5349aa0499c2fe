SPECIFICATION FairSpec
CONSTANTS
    Scans = {s1}
    Requests = {r1}
    Tasks = {t1}
    Stages = 1
    MaxActive = 1
    MayHappen = {"module"}
    MaxFaults = 1
PROPERTIES
    AlwaysReachesTerminal
CHECK_DEADLOCK FALSE
