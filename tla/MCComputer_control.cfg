SPECIFICATION FairSpec
CONSTANTS
    run1 = run1
    run2 = run2
    h = h
    s1 = s1
    None = None
    Owners = {run1, run2}
    Humans = {h}
    Screens <- OneScreen
    Pinned <- Anywhere
    MaxCalls = 1
    MaxTouches = 2
    FaultKinds = {"cancel", "observe", "renew", "degrade", "unregister", "maintain", "close"}
    MaxFaults = 1
CHECK_DEADLOCK FALSE
INVARIANTS
    TypeOK
    ActsInControl
    PausedForHuman
PROPERTIES
    WaitingEnds
