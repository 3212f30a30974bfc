SPECIFICATION Spec
CONSTANTS
    N = 2
    MaxTurns = 2
    Leavers = {1, 2}
    EarlyKeys = TRUE
    Enemies = TRUE
    MaxInbox = 2
    MaxAI = 1
    MaxDepth = 14
INVARIANTS
    TypeOK
    TurnHasHolder
    TurnCanStart
 
