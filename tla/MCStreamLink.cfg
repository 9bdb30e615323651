\* One writer: reordered, lost and repeated frames; two window updates.
SPECIFICATION Spec
CONSTANTS
    None = None
    OffsetSpace = 100
    Writers <- OneWriter
    Lens = {1, 2}
    ReadSizes = {2, 8}
    Window = 2
    Windows = {3, 4}
    MaxBytes = 3
    DupKinds <- LiveKinds
    MaxDups = 1
INVARIANTS
    ReceivedWithinGrant
    ReceivedWithinWritten
    CloseMatches
PROPERTIES
    NothingAfterFin
    ReadsInOrder
CHECK_DEADLOCK FALSE
