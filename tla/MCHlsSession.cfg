CONSTANTS
    Viewer = {v}
    BufferBytes = 3
    MaxBytes = 4
    MaxSegments = 4
    None = None
SPECIFICATION FairSpec
INVARIANTS ViewerInv
PROPERTIES ImplementsWindow PlaylistsAdvance StreamResumes
