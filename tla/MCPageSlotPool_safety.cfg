CONSTANTS
    s1 = s1
    s2 = s2
    w1 = w1
    w2 = w2
    w3 = w3
    NoSlot = NoSlot
    Slot <- TwoSlots
    Worker <- ThreeWorkers
    Timed <- OnlyW1
    MaxPages = 2
    MaxOrphans = 1
    CloseWhileBusy = TRUE
SPECIFICATION Spec
SYMMETRY Symmetry
INVARIANTS
    TypeOK
    TokensConserved
    ActiveCountsLeases
    FailedPoolHasNoBrowser
PROPERTIES
    LeasesUpToCapacity
    TokensKept
CHECK_DEADLOCK FALSE
