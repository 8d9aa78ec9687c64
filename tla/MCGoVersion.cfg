CONSTANTS
    MaxSegments <- MCMaxSegments
SPECIFICATION FairSpec
INVARIANT TypeOK
INVARIANT FirstSuccessUsed
PROPERTY LookupRefined
\* go_install() returns or raises once: the computation really stops.
CHECK_DEADLOCK FALSE
