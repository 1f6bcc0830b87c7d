CONSTANTS
    r1 = r1
    r2 = r2
    MaxKey = 2
    Requests <- TwoRequests
    Limits <- SmallLimits
    Capacities <- OneOrTwo
    Window = 2
    MaxHits = 2
SPECIFICATION Spec
INVARIANTS
    CountersTrue
    StrictRotation
PROPERTIES
    CapacityRespected
    RateRespected
SYMMETRY Renaming
