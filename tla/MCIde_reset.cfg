\* One disk, reset at any moment.
SPECIFICATION Spec
CONSTANTS
    Disks <- MCOneDisk
    BarAddrs <- MCBarAddrs
    Workload <- MCDmaWorkload
    Transfers <- MCTransfers
    SectorWords = 2
    NumSectors = 3
    SingleDmaSize = 2
    MaxSectors = 2
    MaxCommands = 1
    MaxDisturbances = 1
INVARIANTS NeverPanics
CHECK_DEADLOCK FALSE
