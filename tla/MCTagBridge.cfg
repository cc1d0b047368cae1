SPECIFICATION FairSpec
CONSTANTS
    Port = {p1, p2}
    BridgeDSid = dsid
    NoDSid = noDSid
    NoPacket = noPacket
    ReqQueueLimit = 2
    RespQueueLimit = 2
    MaxPackets = 5
INVARIANTS
    SlotsConserved
    RequestsInOrder
    ResponsesRouted
    RetryOwed
PROPERTIES
    StalledIsAccepted
