SPECIFICATION FairSpec
CONSTANTS
    k1 = k1
    n1 = n1
    m1 = m1
    c1 = c1
    c2 = c2
    Config = Config
    Nobody = Nobody
    Keys <- NoRecords
    Nodes <- OneNode
    Minutes <- NoRecords
    Clients <- TwoClients
    MaxRevision = 2
PROPERTIES
    FlushAnswered
    SavedEventually
