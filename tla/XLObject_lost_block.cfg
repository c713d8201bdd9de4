SPECIFICATION Spec
CONSTANTS
    h1 = h1
    N = 4
    Attached <- AllDisks
    Blocks = 2
    Healers <- NoHealer
    MaxVer = 1
    MaxFlips = 2
    MaxRot = 0
    MaxCrash = 0
INVARIANT ReadCorrect
CHECK_DEADLOCK FALSE
