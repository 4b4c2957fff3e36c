CONSTANTS
    QueueSize = 2
    BurstSize = 2
    MaxChunks = 5
    End = End
    Fault = Fault
SPECIFICATION FairSpec
INVARIANTS HandlerInv
PROPERTIES ImplementsStream ThreadsEnd
CHECK_DEADLOCK FALSE
