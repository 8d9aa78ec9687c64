CONSTANTS
    MaxSegments <- MCMaxSegments
SPECIFICATION Spec
INVARIANT ExhaustionRaises
\* go_install() returns or raises once: the computation really stops.
CHECK_DEADLOCK FALSE
