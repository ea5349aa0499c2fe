SPECIFICATION Spec
CONSTANTS
    Scans = {s1}
    Requests = {r1}
    Tasks = {t1}
    Stages = 1
    MaxActive = 1
    MayHappen = {}
    MaxFaults = 0
SYMMETRY Interchangeable
PROPERTIES
    CancelledIsFinal
CHECK_DEADLOCK FALSE
