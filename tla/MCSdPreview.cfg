SPECIFICATION FairSpec
CONSTANTS
    Viewers = 2
    Layouts <- MCLayouts
    HeadLimit = 4
    MaxBytes = 4
    MaxPayload = 2
    IdleTimeouts = 2
INVARIANTS PreviewInv Served
PROPERTIES RequestsEnd
CHECK_DEADLOCK FALSE
