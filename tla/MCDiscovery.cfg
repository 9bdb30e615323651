\* One node watches another that leaves, crashes and starts again.
SPECIFICATION FairSpec
CONSTANTS
    watcher = watcher
    peer = peer
    Nodes = {watcher, peer}
    Stoppable = {peer}
    Readers = {watcher}
    AnnounceInterval = 1
    CacheTtl = 3
    MaxStarts = 2
    MaxInFlight = 2
INVARIANTS
    ListedWasHeard
PROPERTIES
    FreshPeersStay
    Settles
    StaysKnown
CHECK_DEADLOCK FALSE
