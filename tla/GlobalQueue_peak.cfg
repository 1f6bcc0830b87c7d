SPECIFICATION PeakSpec
CONSTANTS
    r1 = r1
    r2 = r2
    r3 = r3
    Requests <- MCRequests
    Configs <- MCLimits
    InitialConfig <- One
PROPERTY SampleIsHighest
