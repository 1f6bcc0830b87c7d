CONSTANTS
    k1 = k1
    k2 = k2
    r1 = r1
    r2 = r2
    Idle = Idle
    Keys <- TwoKeys
    Requests <- OneRequest
    Sizes <- AllSizes
    RecordLimit = 2
    QueueLimit = 2
    QueueBytes = 3
    BatchBytes = 2
    MaxRevision = 5
    i1 = i1
    i2 = i2
    a1 = a1
    a2 = a2
    Blank = Blank
    NoKey = NoKey
    Imports <- BothImports
    ApiKeys <- BothApiKeys
    Texts <- SomeTexts
    MaxAge = 4
    MaxDepth = 1
    MaxSamples = 2
    MaxNow = 8
SPECIFICATION PartsSpec
INVARIANTS
    StorePartsTypeOK
    QueueSafe
    ImportFaithful
    ChartComplete
PROPERTIES
    LossesCounted
SYMMETRY Renaming
