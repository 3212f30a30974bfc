SPECIFICATION FairSpec
CONSTANTS
    p1 = p1
    p2 = p2
    a = a
    b = b
    Consumer = game
    NoThread = NoThread
    NoItem = NoItem
    Producers <- AsioThread
    Items <- Elements
    PushEnds <- BackOnly
    PopEnds <- FrontOnly
    Cap = 3
PROPERTY MessagesHandled
