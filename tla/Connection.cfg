SPECIFICATION FairSpec
CONSTANTS
    Ids <- AllIds
    Bodied <- WithBody
    hello = hello
    Payloads <- OnePayload
    NoBody = NoBody
    ServerAccept = "ServerAccept"
    ClientAccepted = "ClientAccepted"
    Chatter = TRUE
    MayLeave = TRUE
    MaxFromServer = 3
    MaxFromClient = 2
CHECK_DEADLOCK FALSE
INVARIANTS
    TypeOK
    OneWriter
    InStep
    ValidatedFirst
PROPERTIES
    ServerReceivesWhatWasSent
    ClientReceivesWhatWasSent
    AllArrives
