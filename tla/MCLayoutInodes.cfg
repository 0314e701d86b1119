SPECIFICATION Spec
CONSTANTS
    BlockSz = 512
    InodeSz = 136
    Totals = {16384}
    BitmapBlocks = {1}
INVARIANTS InodesInArea
CHECK_DEADLOCK FALSE
