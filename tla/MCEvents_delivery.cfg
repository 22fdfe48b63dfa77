SPECIFICATION FairSpec
CHECK_DEADLOCK FALSE
CONSTANTS
    e1 = e1
    e2 = e2
    jobs = jobs
    p1 = p1
    p2 = p2
    Ids = {e1, e2}
    Consumers = {jobs}
    Processes = {p1, p2}
    Wanted <- Everything
    StartAt <- FromStart
    MaxAttempts = 2
    RetryDelay <- OneTick
    LeaseTime = 2
    SafetyWindow = 1
    Alone = TRUE
    MaxEvents = 2
    FaultKinds = {"crash", "stall", "stop", "close", "abort", "rewind", "unregister"}
    MaxFaults = 1
INVARIANTS
    TypeOK
    DeliveriesSound
PROPERTIES
    ImplementsLog
    Settles
