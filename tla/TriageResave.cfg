SPECIFICATION TriageSpec
CONSTANTS
    Analysts = {a1}
    MaxFindings = 1
    MaxLosses = 0
PROPERTIES
    ResaveKeepsCredit
CHECK_DEADLOCK FALSE
