CONSTANTS
    hi = hi
    mid = mid
    low = low
    low2 = low2
    w1 = w1
    w2 = w2
    Nil = Nil
    Worker <- TwoWorkers
    Priority <- PriorityOf
    Job <- ThreeJobs
SPECIFICATION Spec
INVARIANTS
    DeliversOnlyJobs
CHECK_DEADLOCK FALSE
