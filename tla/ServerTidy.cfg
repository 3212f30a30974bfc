SPECIFICATION Spec
CONSTANTS
    N = 1
    MaxTurns = 1
    Leavers = {1}
    EarlyKeys = FALSE
    Enemies = FALSE
    MaxInbox = 1
    MaxAI = 1
    MaxDepth = 30
INVARIANT TidiedUp
