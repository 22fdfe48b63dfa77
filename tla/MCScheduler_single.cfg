SPECIFICATION Spec
CONSTANTS
    a = a
    b = b
    hourly = hourly
    daily = daily
    Instances = {a}
    Tasks <- TwoTasks
    Flaky = {a}
    Policy <- MixedPolicy
    Every <- MixedEvery
    Anchors = {0}
    MaxCatchUpRuns = 2
    MaxAttempts = 2
    Backoff <- ExponentialBackoff
    DeferBy = 1
    Lease = 2
    Beat = 1
    MaxConcurrent = 1
    Timely = FALSE
    MaxClock = 4
    MaxFaults = 2
INVARIANTS
    TypeOK
    OccurrencesKept
PROPERTIES
    CancelSticks
