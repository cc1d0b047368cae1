SPECIFICATION PortFairSpec
CONSTANTS
    LineSize = 2
    MaxAddr = 1
    MaxSize = 4
    MaxActions = 2
    LDomTags = {0, 1}
INVARIANTS
    CompletedOnce
    PacketsOfAction
PROPERTIES
    DrainSignalledIdle
    ActionsComplete
    DrainSignalled
