SPECIFICATION Spec
CONSTANTS
    x = x
    y = y
    None = None
    Transfer <- MCPair
    Direction <- MCDownload
    Policy <- MCNotSkip
    Requested <- MCNames
    MaxName = 2
    Size = 1
    Silent = {}
    MaxSlots = 2
    MaxRestart = 1
CHECK_DEADLOCK FALSE
SYMMETRY MCPairSymmetry
INVARIANTS
    OneWriterPerTarget
    LeavesNothingBehind
PROPERTY
    UserFilesSurvive
