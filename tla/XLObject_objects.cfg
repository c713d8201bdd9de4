SPECIFICATION Spec
CONSTANTS
    h1 = h1
    N = 4
    Attached <- AllDisks
    Blocks = 1
    Healers <- OneHealer
    MaxVer = 2
    MaxFlips = 4
    MaxRot = 0
    MaxCrash = 1
INVARIANT ReadLatest
INVARIANT ReadCorrect
 
CHECK_DEADLOCK FALSE
