\* The client challenges paths until the table is full; there are as many ids as
\* paths, so that the last path gets the id of the primary one.
SPECIFICATION FairSpec
CONSTANTS
    None = None
    wifi = wifi
    lte = lte
    sat = sat
    rack = rack
    Home <- MCHome
    NewAddresses <- MCNewAddresses
    Initiators <- ClientOnly
    MaxPaths <- ThreeEach
    IdSpace = 3
    MaxChallenges = 4
    MaxRepeats = 1
INVARIANTS
    EndsAgree
PROPERTIES
    ActivationUsesNonce
    EntriesKeepAddresses
    ChallengeAnswered
CHECK_DEADLOCK FALSE
