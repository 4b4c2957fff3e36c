CONSTANTS
    QueueSize = 2
    BurstSize = 2
    MaxChunks = 5
    End = End
    Fault = Fault
SPECIFICATION Spec
INVARIANTS CameraReleased
CHECK_DEADLOCK FALSE
