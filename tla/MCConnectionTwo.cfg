\* Two clients connect at once on a network without faults.
SPECIFICATION FairSpec
CONSTANTS
    None = None
    Version = 0
    c1 = c1
    c2 = c2
    Clients = {c1, c2}
    ClientCaps <- MCClientCaps
    ServerCaps <- MCServerCaps
    Supports <- MCSupports
    FaultKinds <- NoFaults
    MaxFaults = 0
    MaxSends = 0
PROPERTIES
    ActiveAtBothEnds
CHECK_DEADLOCK FALSE
