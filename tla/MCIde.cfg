SPECIFICATION LiveSpec
CONSTANTS
    Disks <- MCDisks
    BarAddrs <- MCBarAddrs
    Workload <- MCWorkload
    Transfers <- MCTransfers
    SectorWords = 2
    NumSectors = 3
    SingleDmaSize = 2
    MaxSectors = 2
    MaxCommands = 2
    MaxDisturbances = 1
INVARIANTS NoPanic IntrTracksState DmaHasOneStep
PROPERTIES TransfersComplete DmaEnds
CONSTRAINT UntilBusyReset
CHECK_DEADLOCK FALSE
