CONSTANTS
    Order <- MCOrder
    MaxRuns <- MCMaxRuns
SPECIFICATION Spec
INVARIANT ChecksumGuardsExecutable
CHECK_DEADLOCK FALSE
