SPECIFICATION Spec
CONSTANTS
    Players <- TwoPlayers
    Width = 7
    Height = 5
    MaxInventorySize = 2
    ZombieHP = 5
    BanditHP = 5
    BanditArrows = 1
    PoisonedArrows = 2
    BaseTurnActions = 1
    PlayerHP = 4
    SpawnSites <- Sites
    StartItems <- Arms
    EnemySites <- EnemySitesInside
    MaxEnemies = 2
    MaxLag = 1
    MaxRounds = 2
INVARIANT ZNeverNeeded
