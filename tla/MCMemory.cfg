SPECIFICATION Spec
CONSTANTS
    m0 = m0
    m1 = m1
    m2 = m2
    Space <- Spaces
    End = 15
    Pages = 5
    Fan = 3
    Image <- ImageRanges
    StackPages = 2
    MaxCalls = 4
SYMMETRY Symmetry
INVARIANTS
    FramesPartition
    OwnPagesOnly
    PanicsExplained
CHECK_DEADLOCK FALSE
