CONSTANTS
    k1 = k1
    r1 = r1
    r2 = r2
    Keys <- OneKey
    Settings <- OneSetting
    MaxErrors = 1
    Requests <- TwoRequests
    Kinds = {"stream", "models", "test"}
    Capacity = 1
    upstreamMaxAttempts = 2
SPECIFICATION Spec
INVARIANTS TypeOK OutcomesWithinCapacity
PROPERTIES AbandonedEnds
