SPECIFICATION Spec
CONSTANTS
    Ids <- AllIds
    Bodied <- WithBody
    hello = hello
    Payloads <- OnePayload
    NoBody = NoBody
    ServerAccept = "ServerAccept"
    ClientAccepted = "ClientAccepted"
    Chatter = TRUE
    MayLeave = FALSE
    MaxFromServer = 3
    MaxFromClient = 2
CHECK_DEADLOCK FALSE
INVARIANT HonestClientValidated
