CONSTANTS
    c1 = c1
    c2 = c2
    k1 = k1
    Call <- TwoCalls
    Key <- OneKey
    JobSpec <- SharedJobs
    HasCache = TRUE
    HasParser = TRUE
SPECIFICATION Spec
INVARIANTS
    AttemptsBounded
    CacheHoldsGoodResponses
    ProcessSeesGoodResponses
PROPERTIES
    DoJobEnds
CHECK_DEADLOCK FALSE
