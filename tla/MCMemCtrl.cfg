SPECIFICATION Spec
CONSTANTS
    Port = {p1, p2}
    DSids = {0, 1}
    Window = 2
    Addrs = {0, 1, 3}
    MaxPackets = 2
    MaxRefusals = 2
    Own = own
    NoPacket = noPacket
INVARIANTS
    SenderStateBalanced
    ResponsesRestored
    RefusedResponseUntouched
