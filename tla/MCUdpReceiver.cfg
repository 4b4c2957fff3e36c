CONSTANTS
    ConnId = {own, other}
    ClientId = own
    MaxChunks = 3
    ForeignIds = {0}
    MaxAcks = 1
    NoAck = 9
    NoLimit = none
    Limits = {none, 1}
SPECIFICATION FairSpec
INVARIANTS TypeOK NoChunkForgotten NoLostWakeup
PROPERTIES ImplementsStream ReaderCatchesUp
