CONSTANTS
    login = login
    command = command
    keepalive = keepalive
    Call = {login, command, keepalive}
    Untracked = {keepalive}
    Parts <- MCParts
    MaxIds = 4
    MaxAcks = 1
    NoAck = 9
SPECIFICATION FairSpec
INVARIANTS SenderInv
PROPERTIES ImplementsStream ResendQueueDrains
CHECK_DEADLOCK FALSE
