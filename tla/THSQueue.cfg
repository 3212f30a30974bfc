SPECIFICATION HeartbeatSpec
CONSTANTS
    p1 = p1
    p2 = p2
    a = a
    b = b
    Consumer = game
    NoThread = NoThread
    NoItem = NoItem
    Producers <- Pushers
    Items <- Elements
    PushEnds <- BothEnds
    PopEnds <- BothEnds
    Cap = 1
INVARIANTS
    TypeOK
    PopHasElement
PROPERTIES
    Implements
    MessagesHandled
