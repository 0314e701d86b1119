SPECIFICATION Spec
CONSTANTS
    Lines <- MCLines
    MaxStages = 3
    Size = 2
    Message = 1
    Report = 3
    MaxLen = 1
    MaxCalls = 2
INVARIANTS
    WiredRight
    PromptIsClean
PROPERTIES
    LineEnds
CHECK_DEADLOCK FALSE
