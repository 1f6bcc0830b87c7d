SPECIFICATION Spec
CONSTANTS
    k1 = k1
    n1 = n1
    m1 = m1
    c1 = c1
    c2 = c2
    Config = Config
    Nobody = Nobody
    Keys <- OneKey
    Nodes <- NoRecords
    Minutes <- OneMinute
    Clients <- TwoClients
    MaxRevision = 3
INVARIANTS
    NothingLost
PROPERTIES
    PromiseSpec
SYMMETRY Renaming
