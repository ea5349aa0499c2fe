SPECIFICATION ComponentsSpec
CONSTANTS
    MaxSessions = 3
    MaxPasswords = 1
    Handlers = {p1, p2}
    Callers = {p1, p2}
    AddressLimit = 4
    AccountLimit = 1
    MaxCount = 4
    MaxMishaps = 2
    Tokens = {s1, s2}
    Pages = {p1, p2}
    Calls = {p1, p2}
    MaxReports = 2
    MaxSecond = 2
    Desks = {p1, p2}
    MaxBreakdowns = 1
    Chains = {s1, s2}
    MaxRows = 2
    MaxSlips = 1
    Assets = {h1, h2}
    Runs = {s1, s2}
    MaxBirths = 2
    MaxAttempts = 2
    MaxSetbacks = 1
    Analysts = {p1, p2}
    MaxFindings = 1
    MaxLosses = 1
SYMMETRY Interchangeable
PROPERTIES
    ImplementsTokenChain
INVARIANTS
    ComponentsTypeOK
    ReuseEndsFamily
    UsableProvesPassword
    NoRequestDeadlock
    UnexpiringIsPending
    LockoutOvershootBounded
    NoReplayWithinAPage
    SignedOutStaysOut
    ReadyHasOwnFile
    PendingHasBuilder
    OrphanFilesFromRaces
    ExposureReported
    OpenPortHasFinding
    AnnouncedOnce
    NoBirthUnannounced
    CreditMatchesText
    ResolvedIffClosed
CHECK_DEADLOCK FALSE
