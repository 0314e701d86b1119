SPECIFICATION FairStrideSpec
CONSTANTS
    init = init
    a = a
    b = b
    none = none
    Task <- Tasks3
    InitProc <- init
    NoTask <- none
    Half = 5
    DefaultPrio = 4
INVARIANTS
    LagWithinStride
    ComparisonExact
PROPERTIES
    IdealSpec
    NoStarvation
