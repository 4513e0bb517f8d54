SPECIFICATION NativesSpec
CONSTANTS
    BYTE = 2
    BITS = 8
    MANTISSA = 64
    FLOAT = 2
    Junk = 1
    Top = 9
    MaxBlocks = 2
    MaxStored = 2
    MaxCalls = 4
    Sizes <- MCSizes
    Numbers <- MCNumbers
    Values <- MCValues
    Reals = {3}
    CValues = {200}
    Texts <- MCTexts
INVARIANTS
    BoundsChecked
    ReadsBack
CHECK_DEADLOCK FALSE
