SPECIFICATION FairKernelSpec
CONSTANTS
    first = first
    second = second
    NoCell = NoCell
    Restart = Restart
    Cells = {first, second}
    Endless = {first}
    Asking = {second}
    Overlapping = FALSE
    FaultKinds = {"python", "fork", "timeout", "exit", "send", "shell", "iopub", "dispose", "kill", "restart"}
    MaxFaults = 2
    MaxStarts = 2
INVARIANTS
    KernelTypeOK
    CellsKeptApart
PROPERTIES
    ProcessesAccounted
    CallsSettle
CHECK_DEADLOCK FALSE
