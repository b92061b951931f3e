CONSTANTS
    a = a
    b = b
    c1 = c1
    c2 = c2
    c3 = c3
    Miss = Miss
    Failed = Failed
    Hole = Hole
    NoFile = NoFile
    Call <- Calls
    Value <- Values
    Size <- SizeOf
SPECIFICATION Spec
SYMMETRY Symmetry
PROPERTIES
    CacheIsRegister
CHECK_DEADLOCK FALSE
