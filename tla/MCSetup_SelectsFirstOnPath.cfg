CONSTANTS
    Order <- MCOrder
    MaxRuns <- MCMaxRuns
SPECIFICATION Spec
INVARIANT SelectsFirstOnPath
CHECK_DEADLOCK FALSE
