CONSTANTS
    s1 = s1
    s2 = s2
    w1 = w1
    w2 = w2
    w3 = w3
    NoSlot = NoSlot
    Slot <- OneSlot
    Worker <- OneWorker
    MaxPages = 1
    MaxFaults = 1
SPECIFICATION Spec
INVARIANTS
    JobsRunWithOptions
CHECK_DEADLOCK FALSE
