SPECIFICATION FairSpec
CONSTANTS
    a = a
    b = b
    hourly = hourly
    daily = daily
    Instances = {a, b}
    Tasks <- OneTask
    Flaky = {}
    Policy <- SkipPolicy
    Every <- EveryTwo
    Anchors = {0}
    MaxCatchUpRuns = 2
    MaxAttempts = 2
    Backoff <- ExponentialBackoff
    DeferBy = 1
    Lease = 2
    Beat = 1
    MaxConcurrent = 1
    Timely = TRUE
    MaxClock = 5
    MaxFaults = 2
INVARIANTS
    RunningIsLeased
    NeverTwice
PROPERTIES
    OutcomeIsFinal
    DueIsServed
