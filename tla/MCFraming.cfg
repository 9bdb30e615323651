\* Every kind of frame, with up to two extensions, damaged at most once.
SPECIFICATION Spec
CONSTANTS
    None = None
    Error = Error
    StreamIds <- MCStreamIds
    Offsets <- MCOffsets
    Payloads <- MCPayloads
    ConnectionId <- MCConnectionId
    SourceId <- MCSourceId
    Nonce <- MCNonce
    Additions <- MCAdditions
    MaxExtensions = 2
    Damages <- MCDamages
INVARIANTS
    RoundTrip
    CutIsRefused
    AcceptedIsStable
    PayloadDamageIsLocal
CHECK_DEADLOCK FALSE
