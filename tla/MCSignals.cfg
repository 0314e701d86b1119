SPECIFICATION FairSpec
CONSTANTS
    Sig <- Sigs
    Masks <- MaskSets
    NoCtx = NoCtx
INVARIANTS
    FatalStopsUser
    FrozenStaysOff
    MainRecoverable
PROPERTIES
    NoSignalLost
    KillEnds
CHECK_DEADLOCK FALSE
