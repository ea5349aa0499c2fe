SPECIFICATION StreamFairSpec
CONSTANTS
    Viewers = {v1}
    Modules = 1
    HistoryMax = 2
    Replays = {0, 2}
    MaxTroubles = 1
INVARIANTS
    StreamTypeOK
    NothingLostInTheGap
    ClosedShowsTheRow
PROPERTIES
    EveryViewerLearns
CHECK_DEADLOCK FALSE
