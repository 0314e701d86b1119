SPECIFICATION FairSpec
CONSTANTS
    init = init
    a = a
    b = b
    d = d
    none = none
    Task <- Tasks4
    InitProc <- init
    NoTask <- none
    MaxPid = 3
    Stoppable <- Stopped1
INVARIANTS
    QueueInSync
    PidPartition
    FamilyTree
    StrongCountExact
    OnlyInitExitPanics
PROPERTIES
    BlockedStaysLive
    LifecycleSpec
    ZombiesOfInitReaped
CHECK_DEADLOCK FALSE
