\* Two clients, every kind of fault: the safety of the handshake.
SPECIFICATION FairSpec
CONSTANTS
    None = None
    Version = 0
    c1 = c1
    c2 = c2
    Clients = {c1, c2}
    ClientCaps <- MCClientCaps
    ServerCaps <- MCServerCaps
    Supports <- MCSupports
    FaultKinds <- AllFaults
    MaxFaults = 2
    MaxSends = 1
INVARIANTS
    TypeOK
    Agreement
    AcceptedOnce
    Provenance
    WithinBothCapabilities
PROPERTIES
    KeysAreFinal
    ConnectEstablishes
CHECK_DEADLOCK FALSE
