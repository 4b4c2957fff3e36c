SPECIFICATION FairSetupSpec
CONSTANTS
    Client <- MCClient
    HasAddress <- MCHasAddress
    Name <- MCName
    Path <- MCPath
    MaxAttempts <- MCMaxAttempts
    MaxFaults = 1
INVARIANTS ChannelInv StateKept
PROPERTIES Connects
CHECK_DEADLOCK FALSE
