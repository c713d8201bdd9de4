SPECIFICATION Spec
CONSTANTS
    h1 = h1
    N = 4
    Attached <- AllButOne
    Blocks = 2
    Healers <- NoHealer
    MaxVer = 2
    MaxFlips = 3
    MaxRot = 1
    MaxCrash = 0
INVARIANT RotDetected
 
CHECK_DEADLOCK FALSE
