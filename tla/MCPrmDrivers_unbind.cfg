SPECIFICATION Spec
CONSTANTS
    sys = sys
    sys2 = sys2
    ioh = ioh
    ich = ich
    cache = cache
    NoPlane = NoPlane
    Machines <- MCMachines
    Type <- MCType
    Procs = {"P", "Q"}
    NumberOfCpDevices = 6
    MaxAdaptors = 2
INVARIANT RemovedOnlyAtUnload
