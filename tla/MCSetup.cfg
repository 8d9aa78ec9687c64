CONSTANTS
    Order <- MCOrder
    MaxRuns <- MCMaxRuns
SPECIFICATION Spec
INVARIANT CleanRunInstallsAll
PROPERTY InstalledToolsUntouched
PROPERTY ContractRefined
\* The CLI exits after its last invocation: the bounded run really stops.
CHECK_DEADLOCK FALSE
