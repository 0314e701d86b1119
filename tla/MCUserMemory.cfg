SPECIFICATION Spec
CONSTANTS
    PageSize = 4
    Word = 2
    Pages = 3
    Frames = {1, 2, 3, 4}
    Structs = {2, 4}
    MaxLen = 6
    StackSize = 16
    ArgLists <- Lists
INVARIANTS
    BufferExact
    StructExact
    ArgumentsArrive
CHECK_DEADLOCK FALSE
