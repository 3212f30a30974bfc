SPECIFICATION Spec
CONSTANTS
    N = 3
    MaxTurns = 1
    Leavers = {1, 2}
    EarlyKeys = FALSE
    Enemies = FALSE
    MaxInbox = 1
    MaxAI = 1
    MaxDepth = 13
INVARIANTS
    PlayersReachable
    OneTurnHolder
    RostersAgree
PROPERTY TurnIsKept
