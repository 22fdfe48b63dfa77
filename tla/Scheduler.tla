------------------------------ MODULE Scheduler ------------------------------
(***************************************************************************)
(* The durable scheduler: one SQLite database shared by several scheduler  *)
(* instances (processes), each with a worker loop.                         *)
(*                                                                         *)
(* Every database call is a transaction and one atomic step.  Code between *)
(* two awaits of one instance is not interrupted by that instance, but     *)
(* another process may act between two of its database calls: that is why  *)
(* the deferral of a task without executor and the missed-run policy are   *)
(* two steps (read, then update).                                          *)
(*                                                                         *)
(* Time is a number of clock units read by every process.  A lease id and  *)
(* a run id are fresh UUIDs created together: both are the position of the *)
(* run in its task's history.  Only fixed-interval and one-shot schedules  *)
(* appear here; all tasks share one task type.                             *)
(***************************************************************************)
EXTENDS Integers, Sequences, FiniteSetsExt

CONSTANTS
    Instances,      \* processes that opened the scheduler database
    Tasks,          \* task ids
    Flaky,          \* instances whose executor may be unregistered
    Policy,         \* Policy[t]: the missed-run policy of a task
    Every,          \* Every[t]: interval in clock units, 0 for a one-shot
    Anchors,        \* instants a task may be scheduled for
    MaxCatchUpRuns, \* occurrences replayed in one pass
    MaxAttempts,    \* retry.maxAttempts
    Backoff,        \* Backoff[a]: delay after the failed attempt a
    DeferBy,        \* MISSING_EXECUTOR_RETRY_MS
    Lease,          \* leaseMs
    Beat,           \* period of the lease heartbeat
    MaxConcurrent,  \* pool size of one due-task pass
    Timely,         \* whether no process is ever stalled past a heartbeat
    MaxClock,       \* bound: horizon of the clock
    MaxFaults       \* bound: crashes, stops, cancellations, removals, ...

ASSUME ScheduleAssumption ==
    /\ Policy \in [Tasks -> {"coalesce", "catch-up", "skip"}]
    /\ Every \in [Tasks -> Nat]
    /\ Anchors \subseteq Nat

ASSUME TimingAssumption ==
    /\ Lease \in Nat \ {0}
    /\ Beat \in Nat \ {0}
    /\ DeferBy \in Nat \ {0}
    /\ MaxAttempts \in Nat \ {0}
    /\ Backoff \in [1 .. MaxAttempts -> Nat \ {0}]

ASSUME BoundAssumption ==
    /\ IsFiniteSet(Tasks)
    /\ Flaky \subseteq Instances
    /\ MaxCatchUpRuns \in Nat \ {0}
    /\ MaxConcurrent \in Nat \ {0}
    /\ Timely \in BOOLEAN
    /\ MaxClock \in Nat
    /\ MaxFaults \in Nat

VARIABLES
    clock,    \* wall clock
    task,     \* table scheduler_tasks
    runs,     \* table scheduler_runs, per task in insertion order
    worker,   \* worker loop of each instance
    todo,     \* missed-run updates a starting worker still has to write
    hasExec,  \* whether an executor is registered in each instance
    slot,     \* runTask activation of each instance for each task
    pool,     \* free pool workers of the pass of each instance
    faults    \* faults injected so far

vars == <<clock, task, runs, worker, todo, hasExec, slot, pool, faults>>

None == -1

RunStatus == {"running", "success", "error", "cancelled", "abandoned",
              "removed"}   \* "removed": the row went with its task

Absent == [present |-> FALSE, enabled |-> FALSE, next |-> 0, retry |-> None,
           lease |-> 0, expires |-> 0]

IdleSlot == [pc |-> "idle", at |-> 0, left |-> 0, lease |-> 0, next |-> 0,
             retry |-> None, abort |-> FALSE, beat |-> 0]

-----------------------------------------------------------------------------
(* Cadence of a task.                                                      *)

NextScheduleOccurrence(t, after) == after + Every[t]

\* The first instant of the cadence through "current" that lies after it and
\* after "after".
NextFutureOccurrence(t, current, after) ==
    LET next == current + Every[t]
    IN  IF next > after
        THEN next
        ELSE next + ((after - next) \div Every[t] + 1) * Every[t]

\* The occurrence a claim is for: the pending retry's, else the next one.
Anchor(row) == IF row.retry # None THEN row.retry ELSE row.next

\* Where a task stands once the occurrence "for" is settled for good.
SuccessNextRun(t, next, for, completed) ==
    IF Every[t] = 0
    THEN [enabled |-> FALSE, next |-> next]
    ELSE [enabled |-> TRUE,
          next |-> IF Policy[t] = "catch-up"
                   THEN NextScheduleOccurrence(t, for)
                   ELSE NextFutureOccurrence(t, for, completed)]

-----------------------------------------------------------------------------
(* Leases and attempts.                                                    *)

Expired(row, now) == row.lease # 0 /\ row.expires <= now

\* Mutant: a lease about to expire no longer protects its holder.
HeldUntilNearExpiry(row, now) == row.lease # 0 /\ row.expires > now + 1
Held(row, now)    == row.lease # 0 /\ row.expires > now
Due(row, now)     == row.present /\ row.enabled /\ row.next <= now

Leased(row, id, until) == [row EXCEPT !.lease = id, !.expires = until]
Release(row) == Leased(row, 0, 0)

\* The row with another next run.
Moved(row, enabled, next, retry) ==
    [row EXCEPT !.enabled = enabled, !.next = next, !.retry = retry]

Settled(history, run, status) == [history EXCEPT ![run].status = status]

\* Rows after every expired lease was given up, and the runs under them.
SweptTask(now) ==
    [t \in Tasks |-> IF Expired(task[t], now) THEN Release(task[t]) ELSE task[t]]
SweptRuns(now) ==
    [t \in Tasks |-> IF Expired(task[t], now)
                     THEN Settled(runs[t], task[t].lease, "abandoned")
                     ELSE runs[t]]

\* Mutant: the lease is cleared but its run is left running.
AbandonLeaseOnly(now) ==
    /\ task' = SweptTask(now)
    /\ runs' = runs

AbandonExpiredLeases(now) ==
    /\ task' = SweptTask(now)
    /\ runs' = SweptRuns(now)

\* Mutant: only failed attempts count.
FailedAttemptsOf(history, for) ==
    {history[n].attempt : n \in {m \in DOMAIN history :
        history[m].for = for /\ history[m].status = "error"}}

\* MAX(attempt) + 1 over the rows of the occurrence.
AttemptsOf(history, for) ==
    {history[n].attempt : n \in {m \in DOMAIN history :
        history[m].for = for /\ history[m].status # "removed"}}
\* Mutant: MAX(attempt), not its successor.
SameAttempt(history, for) == Max(AttemptsOf(history, for) \cup {0})
NextAttempt(history, for) == Max(AttemptsOf(history, for) \cup {0}) + 1

-----------------------------------------------------------------------------
(* Scheduling of the steps.                                                *)

\* An instance between two database calls of one synchronous stretch of code:
\* nothing else of that instance runs.
Busy(i) == worker[i] = "starting" \/ \E t \in Tasks : slot[i][t].pc = "deferring"

\* runTask may take its next step: a free pool worker picks the task up, or
\* the catch-up loop goes round.
Ready(i, t) ==
    /\ ~Busy(i)
    /\ \/ slot[i][t].pc = "queued" /\ pool[i] > 0
       \/ slot[i][t].pc = "looping"

Fault == faults < MaxFaults /\ faults' = faults + 1

\* The activation (i, t) enters s; it leaves the queue if it was in it.
Enter(i, t, s) ==
    /\ slot' = [slot EXCEPT ![i][t] = s]
    /\ pool' = [pool EXCEPT ![i] = IF slot[i][t].pc = "queued" THEN @ - 1 ELSE @]

\* The activation (i, t) ends.  If it returns, its pool worker is free again;
\* if it throws, that pool worker is gone, and with the last one the tasks
\* still queued.  A stopping worker is off once its pass is over.
EndTask(i, t, returns) ==
    LET held == IF slot[i][t].pc = "queued" THEN 0 ELSE 1
        free == IF returns THEN pool[i] + held ELSE pool[i] + held - 1
        left == [slot[i] EXCEPT ![t] = IdleSlot]
        engaged == \E u \in Tasks : left[u].pc \in {"looping", "deferring", "running"}
        queued  == \E u \in Tasks : left[u].pc = "queued"
        over == ~engaged /\ (free = 0 \/ ~queued)
    IN  /\ slot' = [slot EXCEPT ![i] = IF over THEN [u \in Tasks |-> IdleSlot] ELSE left]
        /\ pool' = [pool EXCEPT ![i] = IF over THEN 0 ELSE free]
        /\ worker' = IF over /\ worker[i] = "stopping"
                     THEN [worker EXCEPT ![i] = "off"] ELSE worker

-----------------------------------------------------------------------------
Init ==
    /\ clock = 0
    /\ task = [t \in Tasks |-> Absent]
    /\ runs = [t \in Tasks |-> <<>>]
    /\ worker = [i \in Instances |-> "off"]
    /\ todo = [i \in Instances |-> {}]
    /\ hasExec = [i \in Instances |-> TRUE]
    /\ slot = [i \in Instances |-> [t \in Tasks |-> IdleSlot]]
    /\ pool = [i \in Instances |-> 0]
    /\ faults = 0

-----------------------------------------------------------------------------
(* The service: schedule, cancel, remove and executor registration.        *)

Schedule(i, t) ==
    /\ ~Busy(i)
    /\ ~task[t].present
    /\ \E start \in Anchors :
          task' = [task EXCEPT ![t] = [Absent EXCEPT !.present = TRUE,
                                                     !.enabled = TRUE,
                                                     !.next = start]]
    /\ UNCHANGED <<clock, runs, worker, todo, hasExec, slot, pool, faults>>

\* Disables the row and aborts the executor this process runs for it.
Cancel(i, t) ==
    /\ ~Busy(i)
    /\ task[t].present
    /\ Fault
    /\ task' = [task EXCEPT ![t].enabled = FALSE]
    /\ slot' = [slot EXCEPT ![i][t].abort = @ \/ slot[i][t].pc = "running"]
    /\ UNCHANGED <<clock, runs, worker, todo, hasExec, pool>>

\* The history goes with the row (ON DELETE CASCADE).
Remove(i, t) ==
    /\ ~Busy(i)
    /\ task[t].present
    /\ ~Held(task[t], clock)
    /\ Fault
    /\ task' = [task EXCEPT ![t] = Absent]
    /\ runs' = [runs EXCEPT ![t] = [n \in DOMAIN @ |-> [@[n] EXCEPT !.status = "removed"]]]
    /\ UNCHANGED <<clock, worker, todo, hasExec, slot, pool>>

UnregisterExecutor(i) ==
    /\ ~Busy(i)
    /\ i \in Flaky
    /\ hasExec[i]
    /\ Fault
    /\ hasExec' = [hasExec EXCEPT ![i] = FALSE]
    /\ UNCHANGED <<clock, task, runs, worker, todo, slot, pool>>

RegisterExecutor(i) ==
    /\ ~Busy(i)
    /\ ~hasExec[i]
    /\ hasExec' = [hasExec EXCEPT ![i] = TRUE]
    /\ UNCHANGED <<clock, task, runs, worker, todo, slot, pool, faults>>

-----------------------------------------------------------------------------
(* The worker.                                                             *)

\* What the missed-run policy of a starting worker writes: a one-shot is
\* disabled, a recurring task moves to the next future point of the cadence
\* through its next run.
Missed(t) ==
    [task |-> t, at |-> clock, enabled |-> Every[t] # 0,
     next |-> IF Every[t] = 0 THEN task[t].next
              ELSE NextFutureOccurrence(t, task[t].next, clock)]

StartWorker(i) ==
    LET missed == {Missed(t) : t \in {u \in Tasks :
                      /\ task[u].present /\ task[u].enabled
                      /\ Policy[u] = "skip"
                      /\ ~Held(task[u], clock)
                      /\ task[u].next < clock}}
    IN  /\ worker[i] = "off"
        /\ ~Busy(i)
        /\ AbandonExpiredLeases(clock)
        /\ todo' = [todo EXCEPT ![i] = missed]
        /\ worker' = [worker EXCEPT ![i] = IF missed = {} THEN "on" ELSE "starting"]
        /\ UNCHANGED <<clock, hasExec, slot, pool, faults>>

\* updateMissedTask: writes the row unless another process holds its lease.
Writable(row, now) == row.present /\ ~Held(row, now)

SkipMissed(i, m) ==
    LET rest == todo[i] \ {m} IN
    /\ worker[i] = "starting"
    /\ Writable(task[m.task], m.at)
    /\ task' = [task EXCEPT ![m.task] = Moved(@, m.enabled, m.next, @.retry)]
    /\ todo' = [todo EXCEPT ![i] = rest]
    /\ worker' = [worker EXCEPT ![i] = IF rest = {} THEN "on" ELSE "starting"]
    /\ UNCHANGED <<clock, runs, hasExec, slot, pool, faults>>

\* The update affects no row: startWorker throws.
StartFails(i, m) ==
    /\ worker[i] = "starting"
    /\ ~Writable(task[m.task], m.at)
    /\ todo' = [todo EXCEPT ![i] = {}]
    /\ worker' = [worker EXCEPT ![i] = "off"]
    /\ UNCHANGED <<clock, task, runs, hasExec, slot, pool, faults>>

\* Mutant: a task that waits for a retry is not listed.
ListedUnlessRetried(row, now) == Due(row, now) /\ ~Held(row, now) /\ row.retry = None
Listed(row, now) == Due(row, now) /\ ~Held(row, now)

\* One tick: expired leases are given up and the due tasks queued with the
\* tick's time, which stays their "current" for the whole pass.
Tick(i) ==
    LET due == {t \in Tasks : Listed(task[t], clock)}
        some == Cardinality(due)
    IN  /\ worker[i] = "on"
        /\ \A t \in Tasks : slot[i][t].pc = "idle"
        /\ AbandonExpiredLeases(clock)
        /\ slot' = [slot EXCEPT ![i] = [t \in Tasks |->
              IF t \in due
              THEN [IdleSlot EXCEPT !.pc = "queued", !.at = clock,
                       !.left = IF Policy[t] = "catch-up" THEN MaxCatchUpRuns ELSE 1]
              ELSE IdleSlot]]
        /\ pool' = [pool EXCEPT ![i] = Min({MaxConcurrent, some})]
        /\ UNCHANGED <<clock, worker, todo, hasExec, faults>>

-----------------------------------------------------------------------------
(* One turn of runTask's loop.                                             *)

\* The task is not due any more, or claimTask finds it leased: the loop ends.
Pass(i, t) ==
    /\ Ready(i, t)
    /\ \/ ~Due(task[t], slot[i][t].at)
       \/ hasExec[i] /\ Held(task[t], slot[i][t].at)
    /\ EndTask(i, t, TRUE)
    /\ UNCHANGED <<clock, task, runs, todo, hasExec, faults>>

\* The time of the claim and of its lease is that of the tick, not the clock.
Claim(i, t) ==
    LET at  == slot[i][t].at
        row == task[t]
        for == Anchor(row)
        id  == Len(runs[t]) + 1
        kept == IF Expired(row, at) THEN Settled(runs[t], row.lease, "abandoned")
                ELSE runs[t]
    IN  /\ Ready(i, t)
        /\ hasExec[i]
        /\ Due(row, at)
        /\ ~Held(row, at)
        /\ runs' = [runs EXCEPT ![t] = Append(kept,
              [for |-> for, attempt |-> NextAttempt(kept, for), status |-> "running"])]
        /\ task' = [task EXCEPT ![t] = Leased(@, id, at + Lease)]
        /\ Enter(i, t, [slot[i][t] EXCEPT !.pc = "running", !.lease = id,
                           !.next = row.next, !.retry = row.retry,
                           !.beat = clock + Beat])
        /\ UNCHANGED <<clock, worker, todo, hasExec, faults>>

\* No executor: the row is read now and written by the next step.
FindMissingExecutor(i, t) ==
    /\ Ready(i, t)
    /\ ~hasExec[i]
    /\ Due(task[t], slot[i][t].at)
    /\ Enter(i, t, [slot[i][t] EXCEPT !.pc = "deferring", !.retry = Anchor(task[t])])
    /\ UNCHANGED <<clock, task, runs, worker, todo, hasExec, faults>>

\* updateMissedTask of the deferral; retry_scheduled_for is kept if it is set.
Deferred(row, at, for) ==
    Moved(row, TRUE, at + DeferBy, IF row.retry # None THEN row.retry ELSE for)

Defer(i, t) ==
    /\ slot[i][t].pc = "deferring"
    /\ IF Writable(task[t], slot[i][t].at)
       THEN /\ task' = [task EXCEPT ![t] = Deferred(@, slot[i][t].at, slot[i][t].retry)]
            /\ EndTask(i, t, TRUE)
       ELSE /\ EndTask(i, t, FALSE)
            /\ UNCHANGED task
    /\ UNCHANGED <<clock, runs, todo, hasExec, faults>>

-----------------------------------------------------------------------------
(* The executor of a claimed run settles.                                  *)

Running(i, t) == ~Busy(i) /\ slot[i][t].pc = "running"

\* Mutant: completion and renewal do not ask for the lease id.
OwnsAnyLease(i, t) == TRUE
Owns(i, t) == task[t].lease = slot[i][t].lease

\* Mutants: completeClaim enables the task again, or forgets a pending retry.
CompleteClaimReenables(t, run, status, enabled, next, retry) ==
    /\ runs' = [runs EXCEPT ![t] = Settled(@, run, status)]
    /\ task' = [task EXCEPT ![t] = Moved(Release(@), enabled, next, retry)]
CompleteClaimForgetsRetry(t, run, status, enabled, next, retry) ==
    /\ runs' = [runs EXCEPT ![t] = Settled(@, run, status)]
    /\ task' = [task EXCEPT ![t] = Moved(Release(@), @.enabled /\ enabled, next, None)]

\* completeClaim: a task disabled meanwhile stays disabled, the lease is freed.
CompleteClaim(t, run, status, enabled, next, retry) ==
    /\ runs' = [runs EXCEPT ![t] = Settled(@, run, status)]
    /\ task' = [task EXCEPT ![t] = Moved(Release(@), @.enabled /\ enabled, next, retry)]

\* completeClaim throws: the lease is no longer the executor's.
LateSettlement(i, t) ==
    /\ Running(i, t)
    /\ ~Owns(i, t)
    /\ EndTask(i, t, FALSE)
    /\ UNCHANGED <<clock, task, runs, todo, hasExec, faults>>

\* Aborted, or the executor threw an AbortError of its own: the row goes back
\* to what was claimed.
FinishCancelled(i, t) ==
    LET s == slot[i][t] IN
    /\ Running(i, t)
    /\ Owns(i, t)
    /\ IF s.abort THEN UNCHANGED faults ELSE Fault
    /\ CompleteClaim(t, s.lease, "cancelled", TRUE, s.next, s.retry)
    /\ EndTask(i, t, TRUE)
    /\ UNCHANGED <<clock, todo, hasExec>>

\* A failure within the retry budget keeps the occurrence for the next claim.
FinishRetry(i, t) ==
    LET s   == slot[i][t]
        run == runs[t][s.lease]
    IN  /\ Running(i, t)
        /\ Owns(i, t)
        /\ ~s.abort
        /\ run.attempt < MaxAttempts
        /\ CompleteClaim(t, s.lease, "error", TRUE, clock + Backoff[run.attempt], run.for)
        /\ EndTask(i, t, TRUE)
        /\ UNCHANGED <<clock, todo, hasExec, faults>>

FinishExhausted(i, t) ==
    LET s   == slot[i][t]
        run == runs[t][s.lease]
        to  == SuccessNextRun(t, s.next, run.for, clock)
    IN  /\ Running(i, t)
        /\ Owns(i, t)
        /\ ~s.abort
        /\ run.attempt >= MaxAttempts
        /\ CompleteClaim(t, s.lease, "error", to.enabled, to.next, None)
        /\ EndTask(i, t, TRUE)
        /\ UNCHANGED <<clock, todo, hasExec, faults>>

\* A catch-up task whose next occurrence was already due at the tick goes
\* round the loop again, still with the time of the tick.
FinishSuccess(i, t) ==
    LET s     == slot[i][t]
        to    == SuccessNextRun(t, s.next, runs[t][s.lease].for, clock)
        again == Policy[t] = "catch-up" /\ to.next <= s.at /\ s.left > 1
    IN  /\ Running(i, t)
        /\ Owns(i, t)
        /\ ~s.abort
        /\ CompleteClaim(t, s.lease, "success", to.enabled, to.next, None)
        /\ IF again
           THEN /\ Enter(i, t, [IdleSlot EXCEPT !.pc = "looping", !.at = s.at,
                                                !.left = s.left - 1])
                /\ UNCHANGED worker
           ELSE EndTask(i, t, TRUE)
        /\ UNCHANGED <<clock, todo, hasExec, faults>>

Finish(i, t) == \/ LateSettlement(i, t)
                \/ FinishCancelled(i, t)
                \/ FinishRetry(i, t)
                \/ FinishExhausted(i, t)
                \/ FinishSuccess(i, t)

\* The interval timer: renewLease asks for the lease id only, not for its
\* expiry; an executor that lost its lease is aborted.  The timer looks at the
\* executor's own signal, which a worker that stops leaves alone: the lease is
\* renewed until the executor settles.
Heartbeat(i, t) ==
    /\ Running(i, t)
    /\ slot[i][t].abort => worker[i] = "stopping"
    /\ slot[i][t].beat <= clock
    /\ IF Owns(i, t)
       THEN /\ task' = [task EXCEPT ![t] = Leased(@, @.lease, clock + Lease)]
            /\ slot' = [slot EXCEPT ![i][t].beat = clock + Beat]
       ELSE /\ slot' = [slot EXCEPT ![i][t].abort = TRUE]
            /\ UNCHANGED task
    /\ UNCHANGED <<clock, runs, worker, todo, hasExec, pool, faults>>

-----------------------------------------------------------------------------
(* Stop, crash and time.                                                   *)

\* stopWorker and close: executors are aborted, queued tasks dropped.
StopWorker(i) ==
    LET halted == [t \in Tasks |-> IF slot[i][t].pc = "running"
                                   THEN [slot[i][t] EXCEPT !.abort = TRUE]
                                   ELSE IdleSlot]
        idle == \A t \in Tasks : halted[t].pc = "idle"
    IN  /\ worker[i] = "on"
        /\ ~Busy(i)
        /\ Fault
        /\ slot' = [slot EXCEPT ![i] = halted]
        /\ pool' = [pool EXCEPT ![i] = 0]
        /\ worker' = [worker EXCEPT ![i] = IF idle THEN "off" ELSE "stopping"]
        /\ UNCHANGED <<clock, task, runs, todo, hasExec>>

Crash(i) ==
    /\ worker[i] # "off"
    /\ Fault
    /\ slot' = [slot EXCEPT ![i] = [t \in Tasks |-> IdleSlot]]
    /\ pool' = [pool EXCEPT ![i] = 0]
    /\ worker' = [worker EXCEPT ![i] = "off"]
    /\ todo' = [todo EXCEPT ![i] = {}]
    /\ UNCHANGED <<clock, task, runs, hasExec>>

\* Every heartbeat due was given and no synchronous code is pending.
Prompt == \A i \in Instances, t \in Tasks :
    /\ slot[i][t].pc = "running" /\ ~slot[i][t].abort => clock < slot[i][t].beat
    /\ ~Ready(i, t)
    /\ ~Busy(i)

AdvanceClock ==
    /\ clock < MaxClock
    /\ Timely => Prompt
    /\ clock' = clock + 1
    /\ UNCHANGED <<task, runs, worker, todo, hasExec, slot, pool, faults>>

-----------------------------------------------------------------------------
Turn(i, t) == \/ Pass(i, t) \/ Claim(i, t) \/ FindMissingExecutor(i, t)
              \/ Defer(i, t) \/ Finish(i, t) \/ Heartbeat(i, t)

Start(i) == \/ StartWorker(i)
            \/ \E m \in todo[i] : SkipMissed(i, m) \/ StartFails(i, m)

Next ==
    \/ \E i \in Instances, t \in Tasks :
          Schedule(i, t) \/ Cancel(i, t) \/ Remove(i, t) \/ Turn(i, t)
    \/ \E i \in Instances :
          \/ UnregisterExecutor(i) \/ RegisterExecutor(i)
          \/ Start(i) \/ Tick(i) \/ StopWorker(i) \/ Crash(i)
    \/ AdvanceClock

Spec == Init /\ [][Next]_vars

-----------------------------------------------------------------------------
(* Type correctness.                                                       *)

Time == Nat

TaskRow == [present : BOOLEAN, enabled : BOOLEAN, next : Time,
            retry : Time \cup {None}, lease : Nat, expires : Time]

RunRow == [for : Time, attempt : Nat \ {0}, status : RunStatus]

Slot == [pc : {"idle", "queued", "looping", "deferring", "running"},
         at : Time, left : Nat, lease : Nat, next : Time,
         retry : Time \cup {None}, abort : BOOLEAN, beat : Time]

MissedUpdate == [task : Tasks, at : Time, enabled : BOOLEAN, next : Time]

\* Every table and every activation has the columns and the ranges the store
\* and the service declare for it.
TypeOK ==
    /\ clock \in Time
    /\ task \in [Tasks -> TaskRow]
    /\ runs \in [Tasks -> Seq(RunRow)]
    /\ worker \in [Instances -> {"off", "starting", "on", "stopping"}]
    /\ todo \in [Instances -> SUBSET MissedUpdate]
    /\ hasExec \in [Instances -> BOOLEAN]
    /\ slot \in [Instances -> [Tasks -> Slot]]
    /\ pool \in [Instances -> Nat]
    /\ faults \in Nat

-----------------------------------------------------------------------------
(* Safety.                                                                 *)

Live(t) == {n \in DOMAIN runs[t] : runs[t][n].status # "removed"}

SettledForGood(run) ==
    \/ run.status = "success"
    \/ run.status = "error" /\ run.attempt >= MaxAttempts

\* A task has a running row in its history exactly when it has a lease, and
\* that row is the one the lease was taken for: what every "exactly one row"
\* assertion of the store relies on, across claims, late completions, crashes
\* and sweeps by other instances.
RunningIsLeased ==
    \A t \in Tasks :
        /\ task[t].lease \in 0 .. Len(runs[t])
        /\ \A n \in DOMAIN runs[t] :
              runs[t][n].status = "running" <=> task[t].lease = n

\* Claims never return to an earlier occurrence.  One that succeeded or used up
\* its retries is never claimed again; any other may be, with "the same
\* idempotency key and a higher attempt number".
OccurrencesAdvance ==
    \A t \in Tasks : \A m, n \in Live(t) :
        m < n => \/ runs[t][m].for < runs[t][n].for
                 \/ /\ runs[t][m].for = runs[t][n].for
                    /\ runs[t][m].attempt < runs[t][n].attempt
                    /\ ~SettledForGood(runs[t][m])

\* Unless the task skips what it missed, the next claim is for the same
\* occurrence until that one is settled for good, however its attempts ended;
\* a catch-up task then goes to the very next occurrence of the cadence.
NothingDropped ==
    \A t \in Tasks : \A n \in Live(t) :
        n + 1 \in Live(t) /\ Policy[t] # "skip" =>
            LET old == runs[t][n]
                new == runs[t][n + 1]
            IN  /\ ~SettledForGood(old) => new.for = old.for
                /\ SettledForGood(old) /\ Policy[t] = "catch-up" =>
                       new.for = old.for + Every[t]

\* Deferrals, retries and missed-run policies move next_run_at off the cadence
\* but never the occurrence that will be claimed ("without changing the task's
\* wall-clock phase").
PhaseKept ==
    \A t \in Tasks : task[t].present /\ Every[t] # 0 =>
        \E a \in Anchors : (Anchor(task[t]) - a) % Every[t] = 0

\* What the next claim is for follows from what was claimed before and from the
\* cadence, whatever retries, deferrals and restarts did to next_run_at.
OccurrencesKept == OccurrencesAdvance /\ NothingDropped /\ PhaseKept

\* When no process stalls past a heartbeat, two instances never execute the
\* same task at the same time: an executor beside a competing claimant has
\* been aborted.
OneLiveExecutor ==
    \A t \in Tasks : \A i, j \in {k \in Instances :
                            slot[k][t].pc = "running" /\ ~slot[k][t].abort} : i = j

\* No occurrence is executed twice: not by two instances at once, nor again
\* once it is settled, whichever of them claims it next.
NeverTwice == OneLiveExecutor /\ OccurrencesAdvance

-----------------------------------------------------------------------------
(* Action properties.                                                      *)

\* A cancelled task is never enabled again, whatever completion, deferral or
\* missed-run update was under way.
CancelSticks ==
    [][\A t \in Tasks : task[t].present /\ ~task[t].enabled /\ task'[t].present
            => ~task'[t].enabled]_vars

\* The outcome of a run is written once: a late executor cannot overwrite the
\* abandonment of its run, nor a sweep the outcome of a finished run.
OutcomeIsFinal ==
    [][\A t \in Tasks : \A n \in DOMAIN runs[t] :
            runs[t][n].status # "running" =>
                runs'[t][n].status \in {runs[t][n].status, "removed"}]_vars

\* Once a worker has started, the next claim of a task that skips what it
\* missed is not for an occurrence from before the start.
SkipDiscardsMissed ==
    [][\A i \in Instances : worker[i] # "on" /\ worker'[i] = "on" =>
         \A t \in Tasks :
            Policy[t] = "skip" /\ Due(task'[t], MaxClock) /\ task'[t].lease = 0
                => Anchor(task'[t]) >= clock]_vars

-----------------------------------------------------------------------------
(* Liveness.                                                               *)

\* Workers poll and supervisors restart them; executors settle; timers fire.
Fairness ==
    /\ WF_vars(AdvanceClock)
    /\ \A i \in Instances :
          /\ WF_vars(Start(i))
          /\ WF_vars(Tick(i))
          /\ \A t \in Tasks :
                /\ WF_vars(Pass(i, t) \/ Claim(i, t) \/ FindMissingExecutor(i, t)
                              \/ Defer(i, t))
                /\ WF_vars(Finish(i, t))
                /\ WF_vars(Heartbeat(i, t))

FairSpec == Spec /\ Fairness

\* A due task is dealt with: it does not stay due for ever, whatever crashed
\* while holding its lease, unless the lease runs past the horizon.
DueIsServed ==
    \A t \in Tasks : Due(task[t], clock) ~>
        (~Due(task[t], clock) \/ task[t].expires > MaxClock)

=============================================================================
