CONSTANTS
    r1 = r1
    r2 = r2
    r3 = r3
    Absent = Absent
    Nobody = Nobody
    Requests <- ThreeRequests
    NumNodes = 2
    MaxRoom = 2
    Cycle = 2
    OnlineAfter = 1
    MaxConnections = 1
    Capacity <- NoCapacity
    Default = 2
SPECIFICATION MCSpec
INVARIANTS
    RegistrySafe
    PoolSafe
PROPERTIES
    NodesComeBack
    GoneStayUnused
