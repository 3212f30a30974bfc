SPECIFICATION FairSpec
CONSTANTS
    N = 3
    MaxTurns = 1
    Leavers = {}
    EarlyKeys = FALSE
    Enemies = TRUE
    MaxInbox = 1
    MaxAI = 1
    MaxDepth = 10
PROPERTY TurnsGoRound
INVARIANT NoCrash
