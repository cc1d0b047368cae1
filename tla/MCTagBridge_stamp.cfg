SPECIFICATION Spec
CONSTANTS
    Port = {p1}
    BridgeDSid = dsid
    NoDSid = noDSid
    NoPacket = noPacket
    ReqQueueLimit = 2
    RespQueueLimit = 1
    MaxPackets = 3
INVARIANTS
    NeverStampedTwice
