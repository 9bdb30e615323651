\* Both sides open and close, and use the connection's budget; frames are lost, reordered and repeated.
SPECIFICATION Spec
CONSTANTS
    OffsetSpace = 100
    MaxId = 3
    IdSpace = 100
    MaxStreams <- OneEach
    ConnectionWindow = 0
    ConnectionWindows = {1}
    MaxCalls <- TwoEach
    MaxReserved <- OneAtClient
    MaxRepeats = 1
INVARIANTS
    EachHasOneOpener
    NextIsFresh
    OwnWithinLimit
CHECK_DEADLOCK FALSE
