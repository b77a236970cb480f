SPECIFICATION Spec
CONSTANTS
    x = x
    y = y
    None = None
    Transfer <- MCPair
    Direction <- MCUpload
    Policy <- MCNotAsk
    Requested <- MCNames
    MaxName = 3
    Size = 1
    Silent = {}
    MaxSlots = 2
    MaxRestart = 0
CHECK_DEADLOCK FALSE
PROPERTY
    RenameKeepsFiles
