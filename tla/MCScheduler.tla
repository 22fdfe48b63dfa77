----------------------------- MODULE MCScheduler -----------------------------
(* Values of the scheduler's constants for TLC.                            *)
EXTENDS Scheduler

CONSTANTS a, b,           \* instances
          hourly, daily   \* tasks

OneTask  == {hourly}
TwoTasks == {hourly, daily}

SkipPolicy  == [t \in Tasks |-> "skip"]
MixedPolicy == [t \in Tasks |-> IF t = hourly THEN "catch-up" ELSE "coalesce"]

EveryTwo   == [t \in Tasks |-> 2]
\* "daily" is a one-shot.
MixedEvery == [t \in Tasks |-> IF t = hourly THEN 2 ELSE 0]

\* min(maxDelay, initialDelay * 2 ^ (attempt - 1)) with delays 1 and at most 2.
ExponentialBackoff == [n \in 1 .. MaxAttempts |-> Min({2, 2 ^ (n - 1)})]
=============================================================================
