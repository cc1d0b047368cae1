SPECIFICATION Spec
CONSTANTS
    Port = {p1}
    DSids = {0, 1}
    Window = 2
    Addrs = {0, 3}
    MaxPackets = 1
    MaxRefusals = 1
    Own = own
    NoPacket = noPacket
INVARIANTS
    RefusedRequestUntouched
