CONSTANTS
    r1 = r1
    r2 = r2
    r3 = r3
    r4 = r4
    p1 = p1
    p2 = p2
    p3 = p3
    Blank = Blank
    Malformed = Malformed
    ManualRequests <- TwoRequests
    MaxRevision = 3
    MaxInterval = 2
    ApiRequests <- TwoRequests
    AdminRequests <- OtherRequests
    Deadline = 1
    ClientProxies <- TwoProxies
    MaxClients = 4
    Buffer = 2
    MaxEvents = 3
    MaxDials = 2
    Proxies <- AllProxies
    Lists <- SomeLists
    Requests <- MCRequests
    Configs <- MCConfigs
    InitialConfig <- One
SPECIFICATION PartsSpec
INVARIANTS
    PartsTypeOK
    AdmissionSafe
    RotationSafe
    PaceKept
    ShutdownSafe
    OneClient
    StreamWhole
PROPERTIES
    RoomSpec
    IdleSlotTaken
    NoRollback
    WaitEnds
    ProcessEnds
    TestEnds
