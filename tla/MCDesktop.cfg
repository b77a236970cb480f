SPECIFICATION DesktopSpec
CONSTANTS
    s1 = s1
    k1 = k1
    k2 = k2
    k3 = k3
    small = small
    large = large
    None = None
    Session <- MCSession
    Shell <- MCShell
    Size <- MCSize
    MaxAttempts = 5
    a1 = a1
    r1 = r1
    r2 = r2
    r3 = r3
    r4 = r4
    Client <- MCClient
    Req <- MCReq
    Asks <- MCAsks
    MaxInFlight = 2
    MaxPending = 1
    MaxSessions = 1
    MaxStarts = 1
    MaxAdmin = 3
    p1 = p1
    c1 = c1
    c2 = c2
    ForwardId <- MCForwardId
    MaxRuns = 2
    Bytes = 3
    XChannel <- MCXChannel
    MaxXChannels = 1
    n1 = n1
    n2 = n2
    n3 = n3
    Plan <- MCPlan
    Script <- MCScript
    MaxTasks = 1
    Connection <- MCConnection
    Limit = 2
    Parts <- MCParts
CHECK_DEADLOCK FALSE
INVARIANTS
    DesktopTypesOK
    NoShellLeaks
    BridgeLosesNothing
    ListedRunsLive
PROPERTIES
    ReaderSettles
    RevokedRequestsEnd
    WaiterLearnsTheEnd
    BatchSettles
    ForwardsCanBeStopped
