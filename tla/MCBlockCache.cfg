SPECIFICATION CacheSpec
CONSTANTS
    b0 = b0
    b1 = b1
    b2 = b2
    o0 = o0
    o1 = o1
    o2 = o2
    BlockNo <- Blocks
    Val = {0, 1}
    Obj <- Objs
    Max = 2
    MaxNest = 2
INVARIANTS
    ReadsLatest
    NeverRunsOut
PROPERTIES
    DiskSpec
