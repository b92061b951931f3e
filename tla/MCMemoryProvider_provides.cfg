CONSTANTS
    hi = hi
    mid = mid
    low = low
    low2 = low2
    w1 = w1
    w2 = w2
    Nil = Nil
    Worker <- TwoWorkers
    Priority <- PriorityOf
    Job <- FourJobs
SPECIFICATION Spec
INVARIANTS
    JobInOnePlace
    OvertakingBounded
PROPERTIES
    ProvidesEveryJobOnce
CHECK_DEADLOCK FALSE
