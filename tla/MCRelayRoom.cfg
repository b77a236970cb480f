SPECIFICATION MCSpec
CONSTANTS
    f = f
    a = a
    t1 = t1
    t2 = t2
    i1 = i1
    r1 = r1
    r2 = r2
    None = None
    Founder = f
    Device <- MCDevice
    Task <- MCTask
    Invitation <- MCInvitation
    Room <- MCRoom
    MaxMembers = 3
    MaxInvitations = 0
    MaxEpoch = 3
    MaxActiveRooms = 1
    MaxRoomHistory = 0
    MaxParticipants = 2
    MaxReplayFrames = 3
    MaxOutput = 4
    MaxInput = 1
    MaxGrants = 2
    Parts <- MCParts
SYMMETRY MCSymmetry
CHECK_DEADLOCK FALSE
INVARIANTS
    LeaseHolderAuthorised
    HostCloseIsFinal
    ReplayWindowHasNoGap
PROPERTIES
    CountersNeverRewind
    InputIsAuthorised
