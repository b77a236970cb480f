SPECIFICATION LinesSpec
CONSTANTS
    y1 = y1
    y2 = y2
    Transfer <- MCTransfer
    Modem <- MCModem
    MaxReconnects = 1
    Blocks = 4
    Files = 1
    Modulus = 4
    MaxRetries = 2
    MaxNoise = 1
    MaxEnds = 1
    d1 = d1
    d2 = d2
    Peer = Peer
    Other = Other
    j1 = j1
    j2 = j2
    v1 = v1
    v2 = v2
    c1 = c1
    c2 = c2
    None = None
    Fresh <- MCFresh
    Job <- MCJob
    InvitationLife = 1
    PendingLife = 2
    LastHour = 2
    LastEpoch = 2
    Version <- MCVersion
    Call <- MCCall
    MaxAsked = 1
    MaxChanges = 1
    MaxDetected = 2
    MaxWire = 2
    MaxFiles = 2
    Parts <- MCParts
CHECK_DEADLOCK FALSE
INVARIANTS
    LinesTypesOK
    LineHasOneUser
    ReceivedIsPrefix
    MemberAgreesWithRelay
    ZmodemAsksFirst
    RunsWhatWasSigned
PROPERTIES
    CloseEndsSession
    CancelledKermitEnds
