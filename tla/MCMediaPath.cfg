SPECIFICATION FairMediaSpec
CONSTANTS
    Streams <- MCStreams
    Longest = 4
    Data <- MCData
    Bytes <- MCBytes
    Garbage = {1, 99}
    TargetFrames = 2
    Wrap = 3
    AacDuration = 1
    MaxLosses = 1
INVARIANTS ParserInv Playable
PROPERTIES ParsesInOrder RecordingEnds
CHECK_DEADLOCK FALSE
