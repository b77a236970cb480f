SPECIFICATION ComponentSpec
CONSTANTS
    u = u
    a = a
    t1 = t1
    t2 = t2
    i1 = i1
    None = None
    Device <- MCDevice
    Founder = u
    Invitation <- MCInvitation
    Task <- MCTask
    MaxMembers = 2
    MaxInvitations = 1
    MaxEpoch = 4
    c1 = c1
    c2 = c2
    h1 = h1
    h2 = h2
    o1 = o1
    o2 = o2
    Conn <- MCConn
    AcceptNew <- MCAcceptNew
    HostKey <- MCHostKey
    Op <- MCOp
    Lane <- MCLane
    MaxIdle = 1
    MaxEdits = 1
    n1 = n1
    n2 = n2
    p1 = p1
    v1 = v1
    v2 = v2
    x1 = x1
    Entry <- MCEntry
    Proxies <- MCProxies
    Value <- MCValue
    LongPath <- MCLong
    Command <- MCCommand
    MaxCalls = 2
    MaxFaults = 1
    MaxSockets = 3
    MaxOutput = 2
    MaxInput = 1
    MaxGrants = 1
    Window = 2
    HubSize = 1
    a1 = a1
    r1 = r1
    r2 = r2
    r3 = r3
    r4 = r4
    Client <- MCClient
    Req <- MCReq
    Asks <- MCAsks
    MaxInFlight = 2
    MaxPending = 1
    MaxSessions = 1
    MaxStarts = 1
    MaxAdmin = 3
    q1 = q1
    q2 = q2
    Schedule <- MCSchedule
    PlanKind <- MCPlanKind
    Wall <- MCWall
    MaxTime = 4
    MaxWrites = 2
    MaxLaunches = 2
    Parts <- MCTransport
CHECK_DEADLOCK FALSE
PROPERTIES
    ReuseIsCurrent
