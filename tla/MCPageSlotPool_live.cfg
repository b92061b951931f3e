CONSTANTS
    s1 = s1
    s2 = s2
    w1 = w1
    w2 = w2
    w3 = w3
    NoSlot = NoSlot
    Slot <- OneSlot
    Worker <- ThreeWorkers
    Timed <- OnlyW1
    MaxPages = 2
    MaxOrphans = 0
    CloseWhileBusy = TRUE
SPECIFICATION FairSpec
PROPERTIES
    FetchReturns
CHECK_DEADLOCK FALSE
