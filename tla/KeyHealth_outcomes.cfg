CONSTANTS
    k1 = k1
    k2 = k2
    Keys <- TwoKeys
    Settings <- TwoSettings
    MaxErrors = 2
SPECIFICATION Spec
SYMMETRY Renaming
INVARIANTS TypeOK
PROPERTIES CooldownKept CooldownExact OutcomesOnlyPause
