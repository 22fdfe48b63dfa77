SPECIFICATION Spec
CHECK_DEADLOCK FALSE
CONSTANTS
    r1 = r1
    r2 = r2
    home = home
    Requests <- TwoRequests
    Sessions <- NoSessions
    MaxJobs = 4
    MaxActive = 4
    LastProcess = 2
    Overlap = FALSE
    Triggers = {"operator", "finalizer"}
    FaultKinds = {"crash", "handoff", "timeout", "send", "finalizer"}
    MaxFaults = 1
SYMMETRY RequestSymmetry
INVARIANTS
    TypeOK
    SerialSessions
    WorkOnce
    NothingLost
PROPERTIES
    DoneStaysDone
