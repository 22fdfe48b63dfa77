SPECIFICATION FairSpec
CHECK_DEADLOCK FALSE
CONSTANTS
    r1 = r1
    r2 = r2
    home = home
    Requests <- TwoRequests
    Sessions <- NoSessions
    MaxJobs = 3
    MaxActive = 3
    LastProcess = 2
    Overlap = FALSE
    Triggers = {"operator"}
    FaultKinds = {"crash"}
    MaxFaults = 1
PROPERTIES
    JobsSettle
