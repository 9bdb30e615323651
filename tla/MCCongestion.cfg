\* Acks and losses in any order, samples that age, a round trip of 0.
SPECIFICATION Spec
CONSTANTS
    InitialCwnd = 20
    Second = 10
    RttWindow = 2
    Word = 65536
    Bytes = {4, 30}
    Rtts = {0, 3, 10}
    MaxAcks = 4
    MaxLosses = 2
    MaxTime = 3
INVARIANTS
    MinOfWindow
    BestBandwidth
PROPERTIES
    AckKeepsWindowOpen
    AckBoundsWindow
    OrdinaryLossCuts
CHECK_DEADLOCK FALSE
