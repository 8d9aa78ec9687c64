CONSTANTS
    Order <- MCOrder
    MaxRuns <- MCMaxRuns
SPECIFICATION Spec
INVARIANT ExecutableDownloadsWhole
CHECK_DEADLOCK FALSE
