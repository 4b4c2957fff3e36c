SPECIFICATION FairLibrarySpec
CONSTANTS
    Cards <- MCCards
    Cameras <- MCCameras
    StreamType = "main"
    From = 12
    To = 29
    DayLength = 10
    PageSize = 1
    MaxPages = 3
    Movies = {2}
    Leftover = {1}
    Limits = {3}
    MaxFaults = 2
INVARIANTS Listed BatchInv
PROPERTIES LibraryEnds
CHECK_DEADLOCK FALSE
