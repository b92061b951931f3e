CONSTANTS
    a = a
    b = b
    c = c
    w1 = w1
    w2 = w2
    Nil = Nil
    Job <- Tree
    Worker <- TwoWorkers
    Priority <- PriorityOf
    Children <- ChildrenOf
    Seed <- OneSeed
    InitJob = Nil
    Emit <- AandB
    StopPolicy <- OnlyB
    UseFailed = TRUE
    InactivityOptions <- Off
    PushMayFail = FALSE
    WriterMayFail = TRUE
    Causes <- Signal
SPECIFICATION Spec
SYMMETRY Symmetry
INVARIANTS
    ClosedAfterLastSend
    JobAccounted
    StatsCountEachJobOnce
    NoResultLost
    ResultAfterChildren
PROPERTIES
    KeepsPromise
CHECK_DEADLOCK FALSE
