CONSTANTS
    k1 = k1
    k2 = k2
    r1 = r1
    r2 = r2
    Idle = Idle
    Keys <- OneKey
    Requests <- TwoRequests
    Sizes <- Small
    RecordLimit = 2
    QueueLimit = 2
    QueueBytes = 3
    BatchBytes = 2
    MaxRevision = 6
SPECIFICATION FairSpec
INVARIANTS
    CapturesSafe
PROPERTIES
    NewestStays
    ShutdownEnds
