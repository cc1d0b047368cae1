SPECIFICATION Spec
CONSTANTS
    CPUs = {0, 1}
    SysRows = 3
    Segments <- TwoSegments
    Kickstarts <- RebootFirst
    IchRows = 2
    Ticking = {1}
    ProgramLines <- TimerAndSerial
    SerialUsers = {0}
    Terminals = {0}
    MaxData = 2
INVARIANT TxInterruptsCleared
