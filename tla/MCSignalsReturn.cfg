SPECIFICATION FairSpec
CONSTANTS
    Sig <- Sigs
    Masks <- MaskSets
    NoCtx = NoCtx
PROPERTIES
    SigreturnRestores
CHECK_DEADLOCK FALSE
