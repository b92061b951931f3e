CONSTANTS
    s1 = s1
    s2 = s2
    w1 = w1
    w2 = w2
    w3 = w3
    NoSlot = NoSlot
    Slot <- TwoSlots
    Worker <- ThreeWorkers
    MaxPages = 2
    MaxFaults = 2
SPECIFICATION Spec
SYMMETRY Symmetry
INVARIANTS
    SlotsConserved
    NothingLeftRunning
    RecoveryCostBounded
    SessionPreserved
    OptionsUntilFault
PROPERTIES
    LeasesSlotsToOne
CHECK_DEADLOCK FALSE
