SPECIFICATION LogSpec
CONSTANTS
    Tasks = {t1, t2}
    Keys = {k1, k2}
    Limit = 2
    Window = 2
    MaxTime = 3
SYMMETRY Symmetry
INVARIANTS RateInv LongRunRate BurstAtMostTwice
PROPERTIES WindowsNeverOverlap RefusalJustified
