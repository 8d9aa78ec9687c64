CONSTANTS
    MaxSegments <- MCMaxSegments
SPECIFICATION Spec
INVARIANT FullPathTriedFirst
\* go_install() returns or raises once: the computation really stops.
CHECK_DEADLOCK FALSE
