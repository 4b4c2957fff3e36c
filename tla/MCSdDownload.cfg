SPECIFICATION FairSpec
CONSTANTS
    Size = 2
    Listed = 2
    Forced = FALSE
    Ranges = 1
    Replay = TRUE
    MaxAttempts = 4
    Retries = 1
    DelayedRetries = 1
    Mp4 = TRUE
    QueueSize = 2
    Unmatched = 2
    MaxCalls = 1
    MaxMishaps = 2
INVARIANTS DownloadInv Whole
PROPERTIES OldFileKept 
CHECK_DEADLOCK FALSE
