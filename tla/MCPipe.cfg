SPECIFICATION FairSpec
CONSTANTS
    init = init
    a = a
    none = none
    Proc <- Procs
    First <- init
    None <- none
    Byte <- Bytes
    Zero = 0
    Size = 2
    MaxLen = 3
    MaxFds = 2
INVARIANTS
    BudgetCovered
PROPERTIES
    ChannelSpec
    NoMutualWait
    EofDelivered
