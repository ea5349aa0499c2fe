SPECIFICATION FairSpec
CONSTANTS
    Scans = {s1}
    Requests = {r1, r2}
    Tasks = {t1, t2}
    Stages = 1
    MaxActive = 1
    MayHappen = {"worker", "redelivery", "api", "broker", "ambiguous", "pipeline", "module"}
    MaxFaults = 1
PROPERTIES
    ImplementsBoard
    EveryScanSettles
CHECK_DEADLOCK FALSE
