\* Two bytes, two reads, and a network that loses and repeats nothing.
SPECIFICATION Spec
CONSTANTS
    None = None
    OffsetSpace = 100
    Writers <- OneWriter
    Lens = {1}
    ReadSizes = {8}
    Window = 2
    Windows = {}
    MaxBytes = 2
    DupKinds <- NoKinds
    MaxDups = 0
INVARIANTS
    WaitsOnlyForHole
CHECK_DEADLOCK FALSE
