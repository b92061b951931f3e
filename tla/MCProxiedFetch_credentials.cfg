CONSTANTS
    r1 = r1
    r2 = r2
    b1 = b1
    b2 = b2
    b3 = b3
    b4 = b4
    c1 = c1
    NoProxy = NoProxy
    Request <- TwoRequests
    Configured <- TwoSessions
    Modulus = 8
    MaxUses = 20
    Browser <- Browsers
    Conn <- OneConn
    Modes <- HTTP
SPECIFICATION Spec
INVARIANTS
    SentThroughChosenProxy
CHECK_DEADLOCK FALSE
