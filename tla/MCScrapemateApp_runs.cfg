CONSTANTS
    a = a
    b = b
    i = i
    w1 = w1
    x1 = x1
    x2 = x2
    Nil = Nil
    Job <- TreeAndInit
    Worker <- OneWorker
    Priority <- PriorityOf
    Children <- ChildrenOf
    Seed <- OnlyA
    SeedJobs <- OneSeed
    InitJob = i
    Emit <- Tree
    StopPolicy <- OnlyI
    UseFailed = FALSE
    InactivityOptions <- OnAndOff
    PushMayFail = TRUE
    WriterMayFail = TRUE
    Causes <- Deadline
    Writer <- TwoWriters
    Option <- Options
SPECIFICATION AppFairSpec
INVARIANTS
    AppTypeOK
    ClosedAfterLastUse
    NilMeansNothingLost
    OrderDoesNotMatter
    PageForEveryWorker
PROPERTIES
    ReturnsWhenCancelled
    ReturnsByItself
    PushedJobsAreRun
CHECK_DEADLOCK FALSE
