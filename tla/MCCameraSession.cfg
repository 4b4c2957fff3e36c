CONSTANTS
    Caller = {a, b, owner}
    Closer = {owner}
    AtOnce = 2
    Thread = {1, 2, 3}
    a = a
    b = b
    owner = owner
    Attempts <- MCAttempts
    MaxSessions = 3
    Fragile = {1}
    BatteryCamera = TRUE
    None = none
SPECIFICATION FairSpec
INVARIANTS SessionInv ReplyIsOwn ReadyIsFresh
 
CHECK_DEADLOCK FALSE
