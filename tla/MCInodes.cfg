SPECIFICATION Spec
CONSTANTS
    f0 = f0
    f1 = f1
    h0 = h0
    h1 = h1
    File <- Files
    Handle <- Handles
    Direct = 1
    Width = 2
    Area = 13
    Val = {101, 102}
    Lens = {1, 4, 9}
    Flags <- OpenFlagSets
    MaxCalls = 7
SYMMETRY Symmetry
INVARIANTS
    BlocksAccounted
    OnlyLimitsPanic
PROPERTIES
    PlainSpec
CHECK_DEADLOCK FALSE
