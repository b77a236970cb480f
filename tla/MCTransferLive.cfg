SPECIFICATION Spec
CONSTANTS
    x = x
    y = y
    None = None
    Transfer <- MCPair
    Direction <- MCUpload
    Policy <- MCOverwrite
    Requested <- MCNames
    MaxName = 1
    Size = 1
    Silent <- MCFirst
    MaxSlots = 1
    MaxRestart = 0
CHECK_DEADLOCK FALSE
PROPERTIES
    CancelEnds
    QueueAdvances
    CancelIsFinal
