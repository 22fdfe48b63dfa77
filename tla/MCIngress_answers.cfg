SPECIFICATION FairSpec
CHECK_DEADLOCK FALSE
CONSTANTS
    m1 = m1
    m2 = m2
    Messages = {m1, m2}
    Sender <- OneSender
    Span = 1
    MaxBatch = 100
    MaxAttempts = 3
    ReplyLimit = 100
    Grows = FALSE
    Stable = TRUE
    Background = TRUE
    FaultKinds = {"crash", "send", "executor", "finalizer"}
    MaxFaults = 2
INVARIANTS
    TypeOK
PROPERTIES
    AnsweredOnce
    Settles
