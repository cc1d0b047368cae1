CONSTANTS
    CpuPorts = {0, 1}
    SysPorts = {0}
    TagId = 1
    Requests = {r1, r2, r3}
    Addrs = {0, 1}
    fixedPortMap <- Fixed
    portMap <- Ports
    Cacheable = {0}
SYMMETRY RequestSymmetry
SPECIFICATION Spec
INVARIANTS OutstandingExact PacketsComeHome NoLostRetry
