--------------------------- MODULE SchedulerProofs ---------------------------
(* Type correctness and lease safety of the scheduler; what a task's next  *)
(* claim owes to its history; and that nothing is executed twice: for      *)
(* every number of instances and tasks, every schedule and every bound.    *)
EXTENDS Scheduler, WellFoundedInduction, TLAPS, SequenceTheorems, FiniteSetTheorems

-----------------------------------------------------------------------------
(* Extrema.                                                                *)

\* A non-empty set of naturals has a minimum.
LEMMA MinOfNaturals ==
    ASSUME NEW S \in SUBSET Nat, S # {}
    PROVE  Min(S) \in S /\ \A y \in S : Min(S) <= y
<1> DEFINE R == OpToRel(<, Nat)
<1>1. IsWellFoundedOn(R, Nat)
  BY NatLessThanWellFounded
<1>2. \A x, y \in Nat : x < y => <<x, y>> \in R
  BY DEF OpToRel
<1> HIDE DEF R
<1>3. PICK x \in S : \A y \in S : <<y, x>> \notin R
  BY <1>1, WFMin
<1>4. \A y \in S : ~(y < x)
  BY <1>2, <1>3
<1>5. \A y \in S : x <= y
  BY <1>4
<1> QED
  BY <1>5 DEF Min

\* A non-empty set of naturals that is bounded above has a maximum: its least
\* upper bound.
LEMMA MaxOfBounded ==
    ASSUME NEW bound \in Nat, NEW S \in SUBSET (0 .. bound), S # {}
    PROVE  Max(S) \in S /\ \A y \in S : y <= Max(S)
<1> DEFINE Above == {u \in Nat : \A y \in S : y <= u}
           least == Min(Above)
<1>1. least \in Nat /\ (\A y \in S : y <= least) /\ \A u \in Above : least <= u
  <2>1. bound \in Above /\ Above \in SUBSET Nat
    OBVIOUS
  <2> QED
    BY <2>1, MinOfNaturals
<1> HIDE DEF least
<1>2. least \in S
  <2>1. SUFFICES ASSUME least \notin S
                 PROVE  FALSE
    OBVIOUS
  <2>2. \A y \in S : y \in Nat /\ y < least
    BY <1>1, <2>1
  <2>3. PICK z \in S : z \in Nat /\ z < least
    BY <2>2
  <2>4. least - 1 \in Nat /\ \A y \in S : y <= least - 1
    <3> HIDE DEF Above
    <3>1. least \in Nat
      BY <1>1
    <3> QED
      BY <2>2, <2>3, <3>1
  <2> QED
    BY <1>1, <2>4
<1> QED
  BY <1>1, <1>2 DEF Max

-----------------------------------------------------------------------------
(* The inductive invariant.                                                *)

\* The attempt number of a run is at most its position in the history: what
\* makes MAX(attempt) exist.
AttemptBounded ==
    \A t \in Tasks : \A n \in DOMAIN runs[t] : runs[t][n].attempt <= n

\* A running activation refers to a run of its task's history.
SlotsHaveRuns ==
    \A i \in Instances, t \in Tasks :
        slot[i][t].pc = "running" => slot[i][t].lease \in 1 .. Len(runs[t])

\* No row, no lease.
AbsentUnleased == \A t \in Tasks : ~task[t].present => task[t].lease = 0

IInv == TypeOK /\ RunningIsLeased /\ AttemptBounded /\ SlotsHaveRuns /\ AbsentUnleased

-----------------------------------------------------------------------------
(* Histories.                                                              *)

\* Settling a run changes the status of that row and nothing else.
LEMMA SettledRow ==
    ASSUME NEW h \in Seq(RunRow), NEW k \in 1 .. Len(h), NEW st \in RunStatus
    PROVE  /\ Settled(h, k, st) \in Seq(RunRow)
           /\ Len(Settled(h, k, st)) = Len(h)
           /\ DOMAIN Settled(h, k, st) = 1 .. Len(h)
           /\ Settled(h, k, st)[k].status = st
           /\ \A n \in 1 .. Len(h) : n # k => Settled(h, k, st)[n] = h[n]
           /\ \A n \in 1 .. Len(h) : Settled(h, k, st)[n].attempt = h[n].attempt
           /\ \A n \in 1 .. Len(h) : Settled(h, k, st)[n].for = h[n].for
<1> DEFINE row == [h[k] EXCEPT !.status = st]
<1>1. h[k] \in RunRow /\ h \in [1 .. Len(h) -> RunRow]
  BY ElementOfSeq, LenProperties
<1>2. row \in RunRow /\ row.status = st /\ row.attempt = h[k].attempt /\ row.for = h[k].for
  BY <1>1 DEF RunRow
<1>3. Settled(h, k, st) = [h EXCEPT ![k] = row]
  BY DEF Settled
<1> HIDE DEF row
<1>4. [h EXCEPT ![k] = row] \in Seq(RunRow) /\ Len([h EXCEPT ![k] = row]) = Len(h)
  BY <1>1, <1>2, ExceptSeq
<1> QED
  BY <1>1, <1>2, <1>3, <1>4

\* The next attempt number exceeds every attempt of the occurrence, and is at
\* most the position of the new run.
LEMMA NextAttemptRange ==
    ASSUME NEW h \in Seq(RunRow), NEW for,
           \A n \in DOMAIN h : h[n].attempt <= n
    PROVE  /\ NextAttempt(h, for) \in 1 .. Len(h) + 1
           /\ \A a \in AttemptsOf(h, for) : a < NextAttempt(h, for)
<1> DEFINE S == AttemptsOf(h, for) \cup {0}
<1>1. Len(h) \in Nat /\ DOMAIN h = 1 .. Len(h)
  BY LenProperties
<1>2. \A n \in DOMAIN h : h[n].attempt \in 0 .. Len(h)
  <2>1. TAKE n \in DOMAIN h
  <2>2. h[n] \in RunRow
    BY <1>1, ElementOfSeq
  <2> QED
    BY <1>1, <2>2 DEF RunRow
<1>3. S \in SUBSET (0 .. Len(h)) /\ S # {}
  BY <1>1, <1>2 DEF AttemptsOf
<1> HIDE DEF S
<1>4. Max(S) \in S /\ \A y \in S : y <= Max(S)
  BY <1>1, <1>3, MaxOfBounded
<1>5. Max(S) \in 0 .. Len(h)
  BY <1>3, <1>4
<1>6. NextAttempt(h, for) = Max(S) + 1
  BY DEF NextAttempt, S
<1>7. \A a \in AttemptsOf(h, for) : a \in S
  BY DEF S
<1>8. NextAttempt(h, for) \in 1 .. Len(h) + 1
  BY <1>1, <1>5, <1>6
<1>9. ASSUME NEW a \in AttemptsOf(h, for) PROVE a < NextAttempt(h, for)
  <2>1. a \in 0 .. Len(h) /\ a <= Max(S)
    BY <1>3, <1>4, <1>7
  <2> QED
    BY <1>1, <1>5, <1>6, <2>1
<1> QED
  BY <1>8, <1>9

-----------------------------------------------------------------------------
(* Cadence.                                                                *)

\* The next future occurrence of a recurring task is an instant after the
\* current one and after the given time.
LEMMA NextFutureIsLater ==
    ASSUME NEW t \in Tasks, Every[t] # 0, NEW current \in Nat, NEW after \in Nat
    PROVE  /\ NextFutureOccurrence(t, current, after) \in Nat
           /\ NextFutureOccurrence(t, current, after) > current
           /\ NextFutureOccurrence(t, current, after) > after
<1> DEFINE e == Every[t]
           n == current + e
           k == (after - n) \div e
<1>1. e \in Nat \ {0}
  BY ScheduleAssumption
<1>2. CASE n > after
  BY <1>1, <1>2 DEF NextFutureOccurrence
<1>3. CASE ~(n > after)
  <2> HIDE DEF e
  <2>1. after - n \in Nat /\ n \in Nat
    BY <1>1, <1>3
  <2>2. k \in Nat /\ after - n < (k + 1) * e
    BY <1>1, <2>1
  <2>3. (k + 1) * e \in Nat
    BY <1>1, <2>2
  <2>4. NextFutureOccurrence(t, current, after) = n + (k + 1) * e
    BY <1>3 DEF NextFutureOccurrence, e
  <2> HIDE DEF k
  <2> QED
    BY <1>1, <2>1, <2>2, <2>3, <2>4
<1> QED
  BY <1>2, <1>3

\* Settling an occurrence for good yields a next run.
LEMMA SuccessNextRunType ==
    ASSUME NEW t \in Tasks, NEW next \in Nat, NEW for \in Nat, NEW completed \in Nat
    PROVE  /\ SuccessNextRun(t, next, for, completed).enabled \in BOOLEAN
           /\ SuccessNextRun(t, next, for, completed).next \in Nat
<1>1. Every[t] \in Nat
  BY ScheduleAssumption
<1>2. CASE Every[t] = 0
  BY <1>2 DEF SuccessNextRun
<1>3. CASE Every[t] # 0
  <2>1. NextFutureOccurrence(t, for, completed) \in Nat
    BY <1>3, NextFutureIsLater
  <2>2. NextScheduleOccurrence(t, for) \in Nat
    BY <1>1 DEF NextScheduleOccurrence
  <2> QED
    BY <1>3, <2>1, <2>2 DEF SuccessNextRun
<1> QED
  BY <1>2, <1>3

-----------------------------------------------------------------------------
(* Pieces of actions.                                                      *)

\* The outcome of a run is written once.
OutcomesKept ==
    \A t \in Tasks : \A n \in DOMAIN runs[t] :
        runs[t][n].status # "running" =>
            runs'[t][n].status \in {runs[t][n].status, "removed"}

\* What a step owes to the two tables.
TablesOK ==
    /\ task' \in [Tasks -> TaskRow]
    /\ runs' \in [Tasks -> Seq(RunRow)]
    /\ \A t \in Tasks : Len(runs'[t]) >= Len(runs[t])
    /\ RunningIsLeased'
    /\ AttemptBounded'
    /\ AbsentUnleased'
    /\ OutcomesKept

\* Rows after a change of lease or of the next run.
LEMMA LeasedRow ==
    ASSUME NEW row \in TaskRow, NEW id \in Nat, NEW until \in Nat
    PROVE  /\ Leased(row, id, until) \in TaskRow
           /\ Leased(row, id, until).lease = id
           /\ Leased(row, id, until).present = row.present
<1> DEFINE r1 == [row EXCEPT !.lease = id]
<1>1. r1 \in TaskRow /\ r1.lease = id /\ r1.present = row.present
  BY DEF TaskRow
<1>2. Leased(row, id, until) = [r1 EXCEPT !.expires = until]
  BY DEF Leased
<1> HIDE DEF r1
<1> QED
  BY <1>1, <1>2 DEF TaskRow, Time

LEMMA MovedRow ==
    ASSUME NEW row \in TaskRow, NEW enabled \in BOOLEAN, NEW next \in Nat,
           NEW retry \in Nat \cup {None}
    PROVE  /\ Moved(row, enabled, next, retry) \in TaskRow
           /\ Moved(row, enabled, next, retry).lease = row.lease
           /\ Moved(row, enabled, next, retry).present = row.present
<1> DEFINE r1 == [row EXCEPT !.enabled = enabled]
           r2 == [r1 EXCEPT !.next = next]
<1>1. r1 \in TaskRow /\ r1.lease = row.lease /\ r1.present = row.present
  BY DEF TaskRow
<1>2. Moved(row, enabled, next, retry) = [r2 EXCEPT !.retry = retry]
  BY DEF Moved
<1> HIDE DEF r1
<1>3. r2 \in TaskRow /\ r2.lease = row.lease /\ r2.present = row.present
  BY <1>1 DEF TaskRow, Time
<1> HIDE DEF r2
<1> QED
  BY <1>2, <1>3 DEF TaskRow, Time

LEMMA ReleasedRow ==
    ASSUME NEW row \in TaskRow
    PROVE  /\ Release(row) \in TaskRow
           /\ Release(row).lease = 0
BY LeasedRow DEF Release

\* Giving up expired leases keeps the tables consistent.
LEMMA SweepKeepsTables ==
    ASSUME IInv, NEW now \in Nat, AbandonExpiredLeases(now)
    PROVE  TablesOK
<1> USE DEF IInv
<1>1. ASSUME NEW t \in Tasks
      PROVE  /\ task'[t] \in TaskRow
             /\ runs'[t] \in Seq(RunRow)
             /\ Len(runs'[t]) = Len(runs[t])
             /\ task'[t].lease \in 0 .. Len(runs[t])
             /\ task'[t].lease = 0 \/ task'[t] = task[t]
             /\ \A n \in 1 .. Len(runs[t]) :
                   /\ runs'[t][n].status = "running" <=> task'[t].lease = n
                   /\ runs'[t][n].attempt = runs[t][n].attempt
                   /\ runs[t][n].status # "running" => runs'[t][n] = runs[t][n]
  <2>1. /\ task[t] \in TaskRow
        /\ runs[t] \in Seq(RunRow)
        /\ DOMAIN runs[t] = 1 .. Len(runs[t])
        /\ task[t].lease \in 0 .. Len(runs[t])
    BY LenProperties DEF TypeOK, RunningIsLeased
  <2>2. CASE Expired(task[t], now)
    <3>1. /\ task'[t] = Release(task[t])
          /\ runs'[t] = Settled(runs[t], task[t].lease, "abandoned")
      BY <2>2 DEF AbandonExpiredLeases, SweptTask, SweptRuns
    <3>2. task[t].lease \in 1 .. Len(runs[t])
      BY <2>1, <2>2 DEF Expired
    <3>3. task'[t] \in TaskRow /\ task'[t].lease = 0
      BY <2>1, <3>1, ReleasedRow
    <3>4. "abandoned" \in RunStatus
      BY DEF RunStatus
    <3>5. /\ runs'[t] \in Seq(RunRow)
          /\ Len(runs'[t]) = Len(runs[t])
          /\ runs'[t][task[t].lease].status = "abandoned"
          /\ \A n \in 1 .. Len(runs[t]) : n # task[t].lease => runs'[t][n] = runs[t][n]
          /\ \A n \in 1 .. Len(runs[t]) : runs'[t][n].attempt = runs[t][n].attempt
      <4> DEFINE h == runs[t]
                 k == task[t].lease
      <4>1. h \in Seq(RunRow) /\ k \in 1 .. Len(h)
        BY <2>1, <3>2
      <4> HIDE DEF h, k
      <4>2. /\ Settled(h, k, "abandoned") \in Seq(RunRow)
            /\ Len(Settled(h, k, "abandoned")) = Len(h)
            /\ Settled(h, k, "abandoned")[k].status = "abandoned"
            /\ \A n \in 1 .. Len(h) : n # k => Settled(h, k, "abandoned")[n] = h[n]
            /\ \A n \in 1 .. Len(h) : Settled(h, k, "abandoned")[n].attempt = h[n].attempt
        BY ONLY <4>1, <3>4, SettledRow
      <4> QED
        BY <3>1, <4>2 DEF h, k
    <3>6. \A n \in 1 .. Len(runs[t]) : runs[t][n].status = "running" <=> task[t].lease = n
      BY <2>1 DEF RunningIsLeased
    <3>7. Len(runs[t]) \in Nat
      BY <2>1, LenProperties
    <3> HIDE DEF IInv
    <3> QED
      BY <3>2, <3>3, <3>5, <3>6, <3>7
  <2>3. CASE ~Expired(task[t], now)
    <3>1. task'[t] = task[t] /\ runs'[t] = runs[t]
      BY <2>3 DEF AbandonExpiredLeases, SweptTask, SweptRuns
    <3> QED
      BY <2>1, <3>1 DEF RunningIsLeased
  <2> QED
    BY <2>2, <2>3
<1>2. task' = [t \in Tasks |-> task'[t]] /\ runs' = [t \in Tasks |-> runs'[t]]
  BY DEF AbandonExpiredLeases, SweptTask, SweptRuns
<1>3. task' \in [Tasks -> TaskRow] /\ runs' \in [Tasks -> Seq(RunRow)]
  BY <1>1, <1>2
<1>4. \A t \in Tasks : /\ Len(runs[t]) \in Nat
                       /\ DOMAIN runs'[t] = 1 .. Len(runs[t])
                       /\ DOMAIN runs[t] = 1 .. Len(runs[t])
  <2> TAKE t \in Tasks
  <2>1. runs[t] \in Seq(RunRow) /\ runs'[t] \in Seq(RunRow) /\ Len(runs'[t]) = Len(runs[t])
    BY <1>1 DEF TypeOK
  <2> QED
    BY <2>1, LenProperties
<1> HIDE DEF IInv
<1>5. RunningIsLeased'
  BY <1>1, <1>4 DEF RunningIsLeased
<1>6. AttemptBounded'
  BY <1>1, <1>4 DEF AttemptBounded, IInv
<1>7. \A t \in Tasks : Len(runs'[t]) >= Len(runs[t])
  BY <1>1, <1>4
<1>8. OutcomesKept
  BY <1>1, <1>4 DEF OutcomesKept
<1>9. AbsentUnleased'
  BY <1>1 DEF AbsentUnleased, IInv
<1> QED
  BY <1>3, <1>5, <1>6, <1>7, <1>8, <1>9 DEF TablesOK

\* Completing the claim of a leased run keeps the tables consistent.
LEMMA CompletionKeepsTables ==
    ASSUME IInv, NEW t \in Tasks, NEW run \in 1 .. Len(runs[t]),
           task[t].lease = run,
           NEW status \in RunStatus, status # "running",
           NEW enabled \in BOOLEAN, NEW next \in Nat, NEW retry \in Nat \cup {None},
           CompleteClaim(t, run, status, enabled, next, retry)
    PROVE  TablesOK
<1> DEFINE h == runs[t]
           row == task[t]
           newrow == Moved(Release(row), row.enabled /\ enabled, next, retry)
<1>1. /\ task \in [Tasks -> TaskRow] /\ runs \in [Tasks -> Seq(RunRow)]
      /\ RunningIsLeased /\ AttemptBounded
  BY DEF IInv, TypeOK
<1>2. row \in TaskRow /\ h \in Seq(RunRow)
  BY <1>1
<1>3. newrow \in TaskRow /\ newrow.lease = 0
  <2> DEFINE both == row.enabled /\ enabled
  <2>1. both \in BOOLEAN
    OBVIOUS
  <2> HIDE DEF both, row
  <2>2. Release(row) \in TaskRow /\ Release(row).lease = 0
    BY <1>2, ReleasedRow
  <2>3. /\ Moved(Release(row), both, next, retry) \in TaskRow
        /\ Moved(Release(row), both, next, retry).lease = 0
    BY <2>1, <2>2, MovedRow
  <2> QED
    BY <2>3 DEF both
<1>4. /\ task' = [task EXCEPT ![t] = newrow]
      /\ runs' = [runs EXCEPT ![t] = Settled(h, run, status)]
  BY DEF CompleteClaim
<1> HIDE DEF h, newrow
<1>5. /\ Settled(h, run, status) \in Seq(RunRow)
      /\ Len(Settled(h, run, status)) = Len(h)
      /\ Settled(h, run, status)[run].status = status
      /\ \A n \in 1 .. Len(h) : n # run => Settled(h, run, status)[n] = h[n]
      /\ \A n \in 1 .. Len(h) : Settled(h, run, status)[n].attempt = h[n].attempt
  <2>1. run \in 1 .. Len(h)
    BY DEF h
  <2> QED
    BY ONLY <1>2, <2>1, status \in RunStatus, SettledRow
<1>6. DOMAIN Settled(h, run, status) = 1 .. Len(h) /\ DOMAIN h = 1 .. Len(h) /\ Len(h) \in Nat
  BY <1>2, <1>5, LenProperties
<1>7. task' \in [Tasks -> TaskRow] /\ runs' \in [Tasks -> Seq(RunRow)]
  BY <1>1, <1>3, <1>4, <1>5
<1>8. \A u \in Tasks : u # t => task'[u] = task[u] /\ runs'[u] = runs[u]
  BY <1>1, <1>4
<1>9. task'[t] = newrow /\ runs'[t] = Settled(h, run, status)
  BY <1>1, <1>4
<1>10. \A u \in Tasks : Len(runs'[u]) >= Len(runs[u])
  <2>1. \A u \in Tasks : Len(runs[u]) \in Nat
    BY <1>1, LenProperties
  <2> QED
    BY <1>5, <1>6, <1>8, <1>9, <2>1 DEF h
<1>11. RunningIsLeased'
  <2>1. \A n \in 1 .. Len(h) : h[n].status = "running" <=> run = n
    BY <1>1, <1>6 DEF RunningIsLeased, h
  <2>2. /\ newrow.lease \in 0 .. Len(Settled(h, run, status))
        /\ \A n \in DOMAIN Settled(h, run, status) :
              Settled(h, run, status)[n].status = "running" <=> newrow.lease = n
    BY <1>3, <1>5, <1>6, <2>1
  <2> QED
    BY <1>1, <1>8, <1>9, <2>2, SMTT(40) DEF RunningIsLeased
<1>12. AttemptBounded'
  <2>1. \A n \in DOMAIN Settled(h, run, status) : Settled(h, run, status)[n].attempt <= n
    BY <1>1, <1>5, <1>6 DEF AttemptBounded, h
  <2> QED
    BY <1>1, <1>8, <1>9, <2>1 DEF AttemptBounded
<1>13. OutcomesKept
  <2>1. \A n \in 1 .. Len(h) : h[n].status # "running" => n # run
    BY <1>1, <1>6 DEF RunningIsLeased, h
  <2>2. \A n \in DOMAIN h : h[n].status # "running" => Settled(h, run, status)[n] = h[n]
    BY <1>5, <1>6, <2>1
  <2> QED
    BY <1>8, <1>9, <2>2 DEF OutcomesKept, h
<1>14. AbsentUnleased'
  BY <1>3, <1>8, <1>9 DEF AbsentUnleased, IInv
<1> QED
  BY <1>7, <1>10, <1>11, <1>12, <1>13, <1>14 DEF TablesOK

-----------------------------------------------------------------------------
(* Activations, pool and worker.                                           *)

\* What a step owes to the activations: no activation starts running, and a
\* running one keeps its lease.
ControlOK ==
    /\ slot' \in [Instances -> [Tasks -> Slot]]
    /\ pool' \in [Instances -> Nat]
    /\ worker' \in [Instances -> {"off", "starting", "on", "stopping"}]
    /\ \A j \in Instances, u \in Tasks : slot'[j][u].pc = "running" =>
          slot[j][u].pc = "running" /\ slot'[j][u].lease = slot[j][u].lease

LEMMA IdleSlotType == IdleSlot \in Slot /\ IdleSlot.pc # "running"
BY DEF IdleSlot, Slot, Time

\* Ending an activation.
LEMMA EndTaskControl ==
    ASSUME IInv, NEW i \in Instances, NEW t \in Tasks, NEW returns \in BOOLEAN,
           slot[i][t].pc # "queued" \/ returns,
           EndTask(i, t, returns)
    PROVE  ControlOK
<1> DEFINE held == IF slot[i][t].pc = "queued" THEN 0 ELSE 1
           free == IF returns THEN pool[i] + held ELSE pool[i] + held - 1
           left == [slot[i] EXCEPT ![t] = IdleSlot]
           idle == [u \in Tasks |-> IdleSlot]
<1>1. /\ slot \in [Instances -> [Tasks -> Slot]]
      /\ pool \in [Instances -> Nat]
      /\ worker \in [Instances -> {"off", "starting", "on", "stopping"}]
  BY DEF IInv, TypeOK
<1>2. free \in Nat
  BY <1>1
<1>3. left \in [Tasks -> Slot] /\ idle \in [Tasks -> Slot]
  BY <1>1, IdleSlotType
<1>4. \A u \in Tasks : /\ left[u].pc = "running" => left[u] = slot[i][u]
                       /\ idle[u].pc # "running"
  BY <1>1, IdleSlotType
<1>5. \/ slot' = [slot EXCEPT ![i] = left]
      \/ slot' = [slot EXCEPT ![i] = idle]
  BY DEF EndTask
<1>6. pool' = [pool EXCEPT ![i] = free] \/ pool' = [pool EXCEPT ![i] = 0]
  BY DEF EndTask
<1>7. worker' = worker \/ worker' = [worker EXCEPT ![i] = "off"]
  BY DEF EndTask
<1> HIDE DEF left, idle, free
<1>8. slot' \in [Instances -> [Tasks -> Slot]]
  BY <1>1, <1>3, <1>5
<1>9. \A j \in Instances, u \in Tasks : slot'[j][u].pc = "running" =>
          slot[j][u].pc = "running" /\ slot'[j][u].lease = slot[j][u].lease
  BY <1>1, <1>4, <1>5
<1>10. pool' \in [Instances -> Nat]
  BY <1>1, <1>2, <1>6
<1>11. worker' \in [Instances -> {"off", "starting", "on", "stopping"}]
  BY <1>1, <1>7
<1> QED
  BY <1>8, <1>9, <1>10, <1>11 DEF ControlOK

\* Entering a state that does not run.
LEMMA EnterControl ==
    ASSUME IInv, NEW i \in Instances, NEW t \in Tasks, NEW s \in Slot,
           slot[i][t].pc = "queued" => pool[i] > 0,
           s.pc = "running" => slot[i][t].pc = "running" /\ s.lease = slot[i][t].lease,
           Enter(i, t, s), UNCHANGED worker
    PROVE  ControlOK
<1>1. /\ slot \in [Instances -> [Tasks -> Slot]]
      /\ pool \in [Instances -> Nat]
      /\ worker \in [Instances -> {"off", "starting", "on", "stopping"}]
  BY DEF IInv, TypeOK
<1>2. slot' = [slot EXCEPT ![i] = [slot[i] EXCEPT ![t] = s]]
  BY DEF Enter
<1>3. slot' \in [Instances -> [Tasks -> Slot]]
  BY <1>1, <1>2
<1>4. \A j \in Instances, u \in Tasks :
         \/ slot'[j][u] = slot[j][u]
         \/ j = i /\ u = t /\ slot'[j][u] = s
  BY <1>1, <1>2
<1>5. \A j \in Instances, u \in Tasks : slot'[j][u].pc = "running" =>
          slot[j][u].pc = "running" /\ slot'[j][u].lease = slot[j][u].lease
  BY <1>4
<1>6. pool' \in [Instances -> Nat]
  <2> DEFINE left == IF slot[i][t].pc = "queued" THEN pool[i] - 1 ELSE pool[i]
  <2>1. left \in Nat
    BY <1>1
  <2>2. pool' = [pool EXCEPT ![i] = left]
    BY DEF Enter
  <2> QED
    BY <1>1, <2>1, <2>2
<1> QED
  BY <1>1, <1>3, <1>5, <1>6 DEF ControlOK

-----------------------------------------------------------------------------
(* Every step of one instance on one task.                                 *)

\* Consistent tables and activations give the invariant in the next state.
LEMMA Assembled ==
    ASSUME IInv, TablesOK, ControlOK,
           clock' \in Nat, faults' \in Nat,
           todo' \in [Instances -> SUBSET MissedUpdate],
           hasExec' \in [Instances -> BOOLEAN]
    PROVE  IInv' /\ OutcomesKept
<1>1. TypeOK'
  BY DEF TablesOK, ControlOK, TypeOK, Time
<1>2. SlotsHaveRuns'
  <2> SUFFICES ASSUME NEW i \in Instances, NEW t \in Tasks, slot'[i][t].pc = "running"
               PROVE  slot'[i][t].lease \in 1 .. Len(runs'[t])
    BY DEF SlotsHaveRuns
  <2>1. slot'[i][t].lease \in 1 .. Len(runs[t])
    BY DEF ControlOK, IInv, SlotsHaveRuns
  <2>2. Len(runs'[t]) >= Len(runs[t])
    BY DEF TablesOK
  <2>3. Len(runs'[t]) \in Nat /\ Len(runs[t]) \in Nat
    BY LenProperties DEF IInv, TypeOK, TablesOK
  <2> QED
    BY <2>1, <2>2, <2>3
<1> QED
  BY <1>1, <1>2 DEF IInv, TablesOK

\* Tables left alone are consistent.
LEMMA TablesUnchanged ==
    ASSUME IInv, UNCHANGED <<task, runs>>
    PROVE  TablesOK
<1>1. \A t \in Tasks : Len(runs[t]) \in Nat
  BY LenProperties DEF IInv, TypeOK
<1> QED
  BY <1>1 DEF IInv, TypeOK, TablesOK, RunningIsLeased, AttemptBounded, AbsentUnleased,
              OutcomesKept

\* One row gets other columns but keeps its lease; the history stays.
LEMMA RowRewritten ==
    ASSUME IInv, NEW t \in Tasks, NEW row \in TaskRow, row.lease = task[t].lease,
           row.present \/ row.present = task[t].present \/ row.lease = 0,
           task' = [task EXCEPT ![t] = row], UNCHANGED runs
    PROVE  TablesOK
<1>1. \A u \in Tasks : Len(runs[u]) \in Nat
  BY LenProperties DEF IInv, TypeOK
<1>2. task' \in [Tasks -> TaskRow] /\ \A u \in Tasks : task'[u].lease = task[u].lease
  BY DEF IInv, TypeOK
<1>3. AbsentUnleased'
  BY <1>2 DEF AbsentUnleased, IInv, TypeOK
<1> QED
  BY <1>1, <1>2, <1>3 DEF IInv, TypeOK, TablesOK, RunningIsLeased, AttemptBounded, AbsentUnleased,
              OutcomesKept

LEMMA PassStep ==
    ASSUME IInv, NEW i \in Instances, NEW t \in Tasks, Pass(i, t)
    PROVE  IInv' /\ OutcomesKept
<1>1. ControlOK
  BY EndTaskControl DEF Pass
<1>2. TablesOK
  BY TablesUnchanged DEF Pass
<1> QED
  BY <1>1, <1>2, Assembled DEF Pass, IInv, TypeOK, Time

LEMMA FindMissingExecutorStep ==
    ASSUME IInv, NEW i \in Instances, NEW t \in Tasks, FindMissingExecutor(i, t)
    PROVE  IInv' /\ OutcomesKept
<1> DEFINE r1 == [slot[i][t] EXCEPT !.pc = "deferring"]
           s == [slot[i][t] EXCEPT !.pc = "deferring", !.retry = Anchor(task[t])]
<1>1. slot[i][t] \in Slot /\ task[t] \in TaskRow
  BY DEF IInv, TypeOK
<1>2. Anchor(task[t]) \in Nat
  BY <1>1 DEF Anchor, TaskRow, Time
<1>3. s \in Slot /\ s.pc = "deferring"
  <2>1. r1 \in Slot /\ r1.pc = "deferring"
    BY <1>1 DEF Slot
  <2>2. s = [r1 EXCEPT !.retry = Anchor(task[t])]
    OBVIOUS
  <2> HIDE DEF r1, s
  <2> QED
    BY <1>2, <2>1, <2>2 DEF Slot, Time
<1>4. ControlOK
  <2>1. Enter(i, t, s)
    BY DEF FindMissingExecutor
  <2> HIDE DEF s
  <2> QED
    BY <1>3, <2>1, EnterControl DEF FindMissingExecutor, Ready
<1>5. TablesOK
  BY TablesUnchanged DEF FindMissingExecutor
<1> QED
  BY <1>4, <1>5, Assembled DEF FindMissingExecutor, IInv, TypeOK, Time

LEMMA DeferStep ==
    ASSUME IInv, NEW i \in Instances, NEW t \in Tasks, Defer(i, t)
    PROVE  IInv' /\ OutcomesKept
<1> DEFINE s == slot[i][t]
           retry == IF task[t].retry # None THEN task[t].retry ELSE s.retry
<1>1. s \in Slot /\ task[t] \in TaskRow
  BY DEF IInv, TypeOK
<1>2. s.at + DeferBy \in Nat /\ retry \in Nat \cup {None}
  <2>1. s.at \in Nat /\ s.retry \in Nat \cup {None}
    <3> HIDE DEF s
    <3> QED
      BY <1>1 DEF Slot, Time
  <2>2. task[t].retry \in Nat \cup {None}
    BY <1>1 DEF TaskRow, Time
  <2> HIDE DEF s
  <2>3. s.at + DeferBy \in Nat
    BY <2>1, TimingAssumption
  <2> QED
    BY <2>1, <2>2, <2>3
<1>3. CASE Writable(task[t], s.at)
  <2>1. EndTask(i, t, TRUE)
    BY <1>3 DEF Defer
  <2>2. ControlOK
    BY <2>1, EndTaskControl
  <2>3. /\ task' = [task EXCEPT ![t] = Moved(task[t], TRUE, s.at + DeferBy, retry)]
        /\ UNCHANGED runs
    BY <1>3 DEF Defer, Deferred
  <2> HIDE DEF s, retry
  <2>4. /\ Moved(task[t], TRUE, s.at + DeferBy, retry) \in TaskRow
        /\ Moved(task[t], TRUE, s.at + DeferBy, retry).lease = task[t].lease
        /\ Moved(task[t], TRUE, s.at + DeferBy, retry).present = task[t].present
    BY <1>1, <1>2, MovedRow
  <2>5. TablesOK
    BY <2>3, <2>4, RowRewritten
  <2> QED
    BY <2>2, <2>5, Assembled DEF Defer, IInv, TypeOK, Time
<1>4. CASE ~Writable(task[t], s.at)
  <2>1. EndTask(i, t, FALSE) /\ slot[i][t].pc = "deferring"
    BY <1>4 DEF Defer
  <2>2. ControlOK
    BY <2>1, EndTaskControl
  <2>3. TablesOK
    BY <1>4, TablesUnchanged DEF Defer
  <2> QED
    BY <2>2, <2>3, Assembled DEF Defer, IInv, TypeOK, Time
<1> QED
  BY <1>3, <1>4

\* A claim gives up the expired lease it finds, and runs under a lease of its
\* own.
LEMMA ClaimStep ==
    ASSUME IInv, NEW i \in Instances, NEW t \in Tasks, Claim(i, t)
    PROVE  IInv' /\ OutcomesKept
<1> DEFINE at == slot[i][t].at
           row == task[t]
           h == runs[t]
           id == Len(h) + 1
           kept == IF Expired(row, at) THEN Settled(h, row.lease, "abandoned") ELSE h
           new == [for |-> Anchor(row), attempt |-> NextAttempt(kept, Anchor(row)),
                   status |-> "running"]
           newrow == Leased(row, id, at + Lease)
           s1 == [slot[i][t] EXCEPT !.pc = "running"]
           s2 == [s1 EXCEPT !.lease = id]
           s3 == [s2 EXCEPT !.next = row.next]
           s4 == [s3 EXCEPT !.retry = row.retry]
           s5 == [s4 EXCEPT !.beat = clock + Beat]
<1>1. /\ slot \in [Instances -> [Tasks -> Slot]] /\ pool \in [Instances -> Nat]
      /\ task \in [Tasks -> TaskRow] /\ runs \in [Tasks -> Seq(RunRow)]
      /\ clock \in Nat
      /\ RunningIsLeased /\ AttemptBounded /\ SlotsHaveRuns
  BY DEF IInv, TypeOK, Time
<1>2. slot[i][t] \in Slot /\ row \in TaskRow /\ h \in Seq(RunRow) /\ at \in Nat
  BY <1>1 DEF Slot, Time
<1>3. Len(h) \in Nat /\ DOMAIN h = 1 .. Len(h) /\ row.lease \in 0 .. Len(h)
  BY <1>1, <1>2, LenProperties DEF RunningIsLeased
<1>4. ~Held(row, at)
  BY DEF Claim
<1>5. /\ task' = [task EXCEPT ![t] = newrow]
      /\ runs' = [runs EXCEPT ![t] = Append(kept, new)]
  BY DEF Claim
<1>6. \A n \in 1 .. Len(h) : h[n].attempt <= n /\ (h[n].status = "running" <=> row.lease = n)
  BY <1>1, <1>3 DEF AttemptBounded, RunningIsLeased
<1>7. /\ kept \in Seq(RunRow) /\ Len(kept) = Len(h) /\ DOMAIN kept = 1 .. Len(h)
      /\ \A n \in 1 .. Len(h) : kept[n].status # "running" /\ kept[n].attempt <= n
      /\ \A n \in 1 .. Len(h) : h[n].status # "running" => kept[n] = h[n]
  <2>1. CASE Expired(row, at)
    <3>1. row.lease \in 1 .. Len(h)
      BY <1>3, <2>1 DEF Expired
    <3>2. "abandoned" \in RunStatus /\ "abandoned" # "running"
      BY DEF RunStatus
    <3>3. kept = Settled(h, row.lease, "abandoned")
      BY <2>1
    <3> DEFINE k == row.lease
    <3> HIDE DEF h, kept, k
    <3>4. /\ Settled(h, k, "abandoned") \in Seq(RunRow)
          /\ Len(Settled(h, k, "abandoned")) = Len(h)
          /\ DOMAIN Settled(h, k, "abandoned") = 1 .. Len(h)
          /\ Settled(h, k, "abandoned")[k].status = "abandoned"
          /\ \A n \in 1 .. Len(h) : n # k => Settled(h, k, "abandoned")[n] = h[n]
          /\ \A n \in 1 .. Len(h) : Settled(h, k, "abandoned")[n].attempt = h[n].attempt
      <4>1. k \in 1 .. Len(h)
        BY <3>1 DEF k
      <4> QED
        BY ONLY <1>2, <3>2, <4>1, SettledRow
    <3> QED
      BY <1>3, <1>6, <3>1, <3>2, <3>3, <3>4 DEF k
  <2>2. CASE ~Expired(row, at)
    <3>1. kept = h
      BY <2>2
    <3>2. row.lease = 0
      BY <1>2, <1>3, <1>4, <2>2 DEF Held, Expired, TaskRow, Time
    <3> HIDE DEF kept, h
    <3> QED
      BY <1>2, <1>3, <1>6, <3>1, <3>2
  <2> QED
    BY <2>1, <2>2
<1>8. Anchor(row) \in Nat
  BY <1>2 DEF Anchor, TaskRow, Time
<1>9. new \in RunRow /\ new.attempt <= id /\ new.status = "running"
  <2> DEFINE for == Anchor(row)
  <2> HIDE DEF kept, for
  <2>1. \A n \in DOMAIN kept : kept[n].attempt <= n
    BY <1>7
  <2>2. NextAttempt(kept, for) \in 1 .. Len(kept) + 1
    BY <1>7, <2>1, NextAttemptRange
  <2>3. NextAttempt(kept, for) \in Nat \ {0} /\ NextAttempt(kept, for) <= id
    BY <1>3, <1>7, <2>2
  <2> QED
    BY <1>8, <2>3 DEF RunRow, RunStatus, Time, for
<1> HIDE DEF kept, new
<1>10. /\ Append(kept, new) \in Seq(RunRow)
       /\ Len(Append(kept, new)) = id
       /\ DOMAIN Append(kept, new) = 1 .. id
       /\ \A n \in 1 .. Len(h) : Append(kept, new)[n] = kept[n]
       /\ Append(kept, new)[id] = new
  <2>1. /\ Append(kept, new) \in Seq(RunRow)
        /\ Len(Append(kept, new)) = Len(kept) + 1
        /\ \A n \in 1 .. Len(kept) : Append(kept, new)[n] = kept[n]
        /\ Append(kept, new)[Len(kept) + 1] = new
    BY <1>7, <1>9, AppendProperties
  <2> QED
    BY <1>7, <2>1, LenProperties
<1>11. newrow \in TaskRow /\ newrow.lease = id /\ newrow.present = row.present
  <2>1. id \in Nat /\ at + Lease \in Nat
    BY <1>2, <1>3, TimingAssumption
  <2> HIDE DEF id, row, at
  <2> QED
    BY <1>2, <2>1, LeasedRow
<1> HIDE DEF newrow
<1>12. TablesOK
  <2>1. task' \in [Tasks -> TaskRow] /\ runs' \in [Tasks -> Seq(RunRow)]
    BY <1>1, <1>5, <1>10, <1>11
  <2>2. \A u \in Tasks : u # t => task'[u] = task[u] /\ runs'[u] = runs[u]
    BY <1>1, <1>5
  <2>3. task'[t] = newrow /\ runs'[t] = Append(kept, new)
    BY <1>1, <1>5
  <2>4. \A u \in Tasks : Len(runs'[u]) >= Len(runs[u])
    <3>1. \A u \in Tasks : Len(runs[u]) \in Nat
      BY <1>1, LenProperties
    <3> QED
      BY <1>3, <1>10, <2>2, <2>3, <3>1
  <2>5. RunningIsLeased'
    <3>1. \A n \in 1 .. id : Append(kept, new)[n].status = "running" <=> n = id
      BY <1>3, <1>7, <1>9, <1>10
    <3>2. /\ newrow.lease \in 0 .. Len(Append(kept, new))
          /\ \A n \in DOMAIN Append(kept, new) :
                Append(kept, new)[n].status = "running" <=> newrow.lease = n
      BY <1>3, <1>10, <1>11, <3>1
    <3> SUFFICES ASSUME NEW u \in Tasks
                 PROVE  /\ task'[u].lease \in 0 .. Len(runs'[u])
                        /\ \A n \in DOMAIN runs'[u] :
                              runs'[u][n].status = "running" <=> task'[u].lease = n
      BY DEF RunningIsLeased
    <3>3. CASE u = t
      BY <2>3, <3>2, <3>3
    <3>4. CASE u # t
      BY <1>1, <2>2, <3>4 DEF RunningIsLeased
    <3> QED
      BY <3>3, <3>4
  <2>6. AttemptBounded'
    <3>1. \A n \in 1 .. id : Append(kept, new)[n].attempt <= n
      BY <1>3, <1>7, <1>9, <1>10
    <3> QED
      BY <1>1, <1>10, <2>2, <2>3, <3>1 DEF AttemptBounded
  <2>7. OutcomesKept
    <3>1. \A n \in 1 .. Len(h) : h[n].status # "running" => Append(kept, new)[n] = h[n]
      BY <1>7, <1>10
    <3> QED
      BY <1>3, <2>2, <2>3, <3>1 DEF OutcomesKept
  <2>8. AbsentUnleased'
    <3>1. row.present
      BY DEF Claim, Due
    <3> QED
      BY <1>11, <2>2, <2>3, <3>1 DEF AbsentUnleased, IInv
  <2> QED
    BY <2>1, <2>4, <2>5, <2>6, <2>7, <2>8 DEF TablesOK
<1>13. s5 \in Slot /\ s5.lease = id
  <2>1. s1 \in Slot
    BY <1>2 DEF Slot
  <2> HIDE DEF s1
  <2>2. s2 \in Slot /\ s2.lease = id
    BY <1>3, <2>1 DEF Slot
  <2> HIDE DEF s2
  <2>3. s3 \in Slot /\ s3.lease = id
    BY <1>2, <2>2 DEF Slot, TaskRow
  <2> HIDE DEF s3
  <2>4. s4 \in Slot /\ s4.lease = id
    BY <1>2, <2>3 DEF Slot, TaskRow
  <2> HIDE DEF s4
  <2>5. clock + Beat \in Nat
    BY <1>1, TimingAssumption
  <2> QED
    BY <2>4, <2>5 DEF Slot, Time
<1>14. Enter(i, t, s5)
  BY DEF Claim
<1> HIDE DEF s5
<1>15. slot' = [slot EXCEPT ![i] = [slot[i] EXCEPT ![t] = s5]]
  BY <1>14 DEF Enter
<1>16. slot' \in [Instances -> [Tasks -> Slot]]
  BY <1>1, <1>13, <1>15
<1>17. SlotsHaveRuns'
  <2> SUFFICES ASSUME NEW j \in Instances, NEW u \in Tasks, slot'[j][u].pc = "running"
               PROVE  slot'[j][u].lease \in 1 .. Len(runs'[u])
    BY DEF SlotsHaveRuns
  <2>1. CASE j = i /\ u = t
    <3>1. slot'[j][u].lease = id
      BY <1>1, <1>13, <1>15, <2>1
    <3>2. runs'[u] = Append(kept, new)
      BY <1>1, <1>5, <2>1
    <3> QED
      BY <1>3, <1>10, <3>1, <3>2
  <2>2. CASE ~(j = i /\ u = t)
    <3>1. slot'[j][u] = slot[j][u]
      BY <1>1, <1>15, <2>2
    <3>2. slot[j][u].lease \in 1 .. Len(runs[u])
      BY <1>1, <3>1 DEF SlotsHaveRuns
    <3>3. Len(runs'[u]) >= Len(runs[u])
      BY <1>12 DEF TablesOK
    <3>4. Len(runs'[u]) \in Nat /\ Len(runs[u]) \in Nat
      BY <1>1, <1>12, LenProperties DEF TablesOK
    <3> QED
      BY <3>1, <3>2, <3>3, <3>4
  <2> QED
    BY <2>1, <2>2
<1>18. pool' \in [Instances -> Nat]
  <2> DEFINE left == IF slot[i][t].pc = "queued" THEN pool[i] - 1 ELSE pool[i]
  <2>1. slot[i][t].pc = "queued" => pool[i] > 0
    BY DEF Claim, Ready
  <2>2. left \in Nat
    BY <1>1, <2>1
  <2>3. pool' = [pool EXCEPT ![i] = left]
    BY <1>14 DEF Enter
  <2> QED
    BY <1>1, <2>2, <2>3
<1>19. TypeOK'
  BY <1>12, <1>16, <1>18 DEF Claim, IInv, TypeOK, TablesOK
<1> QED
  BY <1>12, <1>17, <1>19 DEF IInv, TablesOK

\* The executor's run is the leased one, and it is running.
LEMMA OwnedRun ==
    ASSUME IInv, NEW i \in Instances, NEW t \in Tasks, Running(i, t), Owns(i, t)
    PROVE  /\ slot[i][t] \in Slot
           /\ slot[i][t].lease \in 1 .. Len(runs[t])
           /\ task[t].lease = slot[i][t].lease
           /\ runs[t][slot[i][t].lease] \in RunRow
<1>1. slot[i][t] \in Slot /\ slot[i][t].lease \in 1 .. Len(runs[t])
  BY DEF IInv, TypeOK, SlotsHaveRuns, Running
<1>2. runs[t][slot[i][t].lease] \in RunRow
  BY <1>1, ElementOfSeq DEF IInv, TypeOK
<1> QED
  BY <1>1, <1>2 DEF Owns

LEMMA LateSettlementStep ==
    ASSUME IInv, NEW i \in Instances, NEW t \in Tasks, LateSettlement(i, t)
    PROVE  IInv' /\ OutcomesKept
<1>1. ControlOK
  BY EndTaskControl DEF LateSettlement, Running
<1>2. TablesOK
  BY TablesUnchanged DEF LateSettlement
<1> QED
  BY <1>1, <1>2, Assembled DEF LateSettlement, IInv, TypeOK, Time

LEMMA FinishCancelledStep ==
    ASSUME IInv, NEW i \in Instances, NEW t \in Tasks, FinishCancelled(i, t)
    PROVE  IInv' /\ OutcomesKept
<1> DEFINE s == slot[i][t]
<1>1. /\ s \in Slot /\ s.lease \in 1 .. Len(runs[t]) /\ task[t].lease = s.lease
  BY OwnedRun DEF FinishCancelled
<1>2. ControlOK
  BY EndTaskControl DEF FinishCancelled
<1>3. TablesOK
  <2>1. s.next \in Nat /\ s.retry \in Nat \cup {None}
    BY <1>1 DEF Slot, Time
  <2>2. CompleteClaim(t, s.lease, "cancelled", TRUE, s.next, s.retry)
    BY DEF FinishCancelled
  <2>3. "cancelled" \in RunStatus /\ "cancelled" # "running" /\ TRUE \in BOOLEAN
    BY DEF RunStatus
  <2> HIDE DEF s
  <2> QED
    BY <1>1, <2>1, <2>2, <2>3, CompletionKeepsTables
<1>4. faults' \in Nat
  BY DEF FinishCancelled, Fault, IInv, TypeOK
<1> QED
  BY <1>2, <1>3, <1>4, Assembled DEF FinishCancelled, IInv, TypeOK, Time

LEMMA FinishRetryStep ==
    ASSUME IInv, NEW i \in Instances, NEW t \in Tasks, FinishRetry(i, t)
    PROVE  IInv' /\ OutcomesKept
<1> DEFINE s == slot[i][t]
           run == runs[t][s.lease]
           next == clock + Backoff[run.attempt]
<1>1. /\ s \in Slot /\ s.lease \in 1 .. Len(runs[t]) /\ task[t].lease = s.lease
      /\ run \in RunRow
  BY OwnedRun DEF FinishRetry
<1>2. ControlOK
  BY EndTaskControl DEF FinishRetry
<1>3. TablesOK
  <2>1. run.for \in Nat /\ run.attempt \in 1 .. MaxAttempts
    <3>1. run.attempt < MaxAttempts
      BY DEF FinishRetry
    <3> HIDE DEF run
    <3> QED
      BY <1>1, <3>1, TimingAssumption DEF RunRow, Time
  <2>2. next \in Nat
    BY <2>1, TimingAssumption, SMTT(40) DEF IInv, TypeOK, Time
  <2>3. CompleteClaim(t, s.lease, "error", TRUE, next, run.for)
    BY DEF FinishRetry
  <2>4. "error" \in RunStatus /\ "error" # "running" /\ TRUE \in BOOLEAN
    BY DEF RunStatus
  <2> HIDE DEF next, run, s
  <2> QED
    BY <1>1, <2>1, <2>2, <2>3, <2>4, CompletionKeepsTables
<1> QED
  BY <1>2, <1>3, Assembled DEF FinishRetry, IInv, TypeOK, Time

LEMMA FinishExhaustedStep ==
    ASSUME IInv, NEW i \in Instances, NEW t \in Tasks, FinishExhausted(i, t)
    PROVE  IInv' /\ OutcomesKept
<1> DEFINE s == slot[i][t]
           run == runs[t][s.lease]
           to == SuccessNextRun(t, s.next, run.for, clock)
<1>1. /\ s \in Slot /\ s.lease \in 1 .. Len(runs[t]) /\ task[t].lease = s.lease
      /\ run \in RunRow
  BY OwnedRun DEF FinishExhausted
<1>2. ControlOK
  BY EndTaskControl DEF FinishExhausted
<1>3. TablesOK
  <2>1. run.for \in Nat /\ s.next \in Nat /\ clock \in Nat
    BY <1>1 DEF RunRow, Slot, Time, IInv, TypeOK
  <2>2. to.enabled \in BOOLEAN /\ to.next \in Nat
    BY <2>1, SuccessNextRunType
  <2>3. CompleteClaim(t, s.lease, "error", to.enabled, to.next, None)
    BY DEF FinishExhausted
  <2>4. "error" \in RunStatus /\ "error" # "running" /\ None \in Nat \cup {None}
    BY DEF RunStatus
  <2> HIDE DEF to, run, s
  <2> QED
    BY <1>1, <2>2, <2>3, <2>4, CompletionKeepsTables
<1> QED
  BY <1>2, <1>3, Assembled DEF FinishExhausted, IInv, TypeOK, Time

LEMMA FinishSuccessStep ==
    ASSUME IInv, NEW i \in Instances, NEW t \in Tasks, FinishSuccess(i, t)
    PROVE  IInv' /\ OutcomesKept
<1> DEFINE s == slot[i][t]
           run == runs[t][s.lease]
           to == SuccessNextRun(t, s.next, run.for, clock)
           again == Policy[t] = "catch-up" /\ to.next <= s.at /\ s.left > 1
           l1 == [IdleSlot EXCEPT !.pc = "looping"]
           l2 == [l1 EXCEPT !.at = s.at]
           l3 == [l2 EXCEPT !.left = s.left - 1]
<1>1. /\ s \in Slot /\ s.lease \in 1 .. Len(runs[t]) /\ task[t].lease = s.lease
      /\ run \in RunRow
  BY OwnedRun DEF FinishSuccess
<1>2. TablesOK
  <2>1. run.for \in Nat /\ s.next \in Nat /\ clock \in Nat
    BY <1>1 DEF RunRow, Slot, Time, IInv, TypeOK
  <2>2. to.enabled \in BOOLEAN /\ to.next \in Nat
    BY <2>1, SuccessNextRunType
  <2>3. CompleteClaim(t, s.lease, "success", to.enabled, to.next, None)
    BY DEF FinishSuccess
  <2>4. "success" \in RunStatus /\ "success" # "running" /\ None \in Nat \cup {None}
    BY DEF RunStatus
  <2> HIDE DEF to, run, s
  <2> QED
    BY <1>1, <2>2, <2>3, <2>4, CompletionKeepsTables
<1>3. CASE ~again
  <2>1. EndTask(i, t, TRUE)
    BY <1>3 DEF FinishSuccess
  <2>2. ControlOK
    BY <2>1, EndTaskControl
  <2> QED
    BY <1>2, <2>2, Assembled DEF FinishSuccess, IInv, TypeOK, Time
<1>4. CASE again
  <2>1. Enter(i, t, l3) /\ UNCHANGED worker
    BY <1>4 DEF FinishSuccess
  <2>2. s.at \in Nat /\ s.left - 1 \in Nat
    BY <1>1, <1>4 DEF Slot, Time
  <2>3. l3 \in Slot /\ l3.pc = "looping"
    <3>1. l1 \in Slot /\ l1.pc = "looping"
      BY IdleSlotType DEF Slot
    <3> HIDE DEF l1
    <3>2. l2 \in Slot /\ l2.pc = "looping"
      BY <2>2, <3>1 DEF Slot, Time
    <3> HIDE DEF l2
    <3> QED
      BY <2>2, <3>2 DEF Slot
  <2>4. s.pc = "running"
    BY DEF FinishSuccess, Running
  <2> HIDE DEF l3
  <2>5. ControlOK
    BY <2>1, <2>3, <2>4, EnterControl
  <2> QED
    BY <1>2, <2>5, Assembled DEF FinishSuccess, IInv, TypeOK, Time
<1> QED
  BY <1>3, <1>4

LEMMA HeartbeatStep ==
    ASSUME IInv, NEW i \in Instances, NEW t \in Tasks, Heartbeat(i, t)
    PROVE  IInv' /\ OutcomesKept
<1>1. /\ slot \in [Instances -> [Tasks -> Slot]] /\ task[t] \in TaskRow
      /\ clock + Lease \in Nat /\ clock + Beat \in Nat
  BY TimingAssumption DEF IInv, TypeOK, Time
<1> DEFINE new == IF Owns(i, t) THEN [slot[i][t] EXCEPT !.beat = clock + Beat]
                  ELSE [slot[i][t] EXCEPT !.abort = TRUE]
<1>2. slot' = [slot EXCEPT ![i] = [slot[i] EXCEPT ![t] = new]]
  BY DEF Heartbeat
<1>3. new \in Slot /\ new.lease = slot[i][t].lease /\ slot[i][t].pc = "running"
  <2>1. slot[i][t] \in Slot
    BY <1>1
  <2> QED
    BY <1>1, <2>1 DEF Slot, Time, Heartbeat, Running
<1> HIDE DEF new
<1>4. slot' \in [Instances -> [Tasks -> Slot]]
  BY <1>1, <1>2, <1>3
<1>5. \A j \in Instances, u \in Tasks : slot'[j][u].pc = "running" =>
          slot[j][u].pc = "running" /\ slot'[j][u].lease = slot[j][u].lease
  BY <1>1, <1>2, <1>3
<1>6. ControlOK
  BY <1>4, <1>5 DEF ControlOK, Heartbeat, IInv, TypeOK
<1>7. TablesOK
  <2>1. CASE Owns(i, t)
    <3>1. task' = [task EXCEPT ![t] = Leased(task[t], task[t].lease, clock + Lease)]
      BY <2>1 DEF Heartbeat
    <3>2. task[t].lease \in Nat
      BY <1>1 DEF TaskRow
    <3>3. /\ Leased(task[t], task[t].lease, clock + Lease) \in TaskRow
          /\ Leased(task[t], task[t].lease, clock + Lease).lease = task[t].lease
          /\ Leased(task[t], task[t].lease, clock + Lease).present = task[t].present
      BY <1>1, <3>2, LeasedRow
    <3> QED
      BY <3>1, <3>3, RowRewritten DEF Heartbeat
  <2>2. CASE ~Owns(i, t)
    BY <2>2, TablesUnchanged DEF Heartbeat
  <2> QED
    BY <2>1, <2>2
<1> QED
  BY <1>6, <1>7, Assembled DEF Heartbeat, IInv, TypeOK, Time

LEMMA TurnStep ==
    ASSUME IInv, NEW i \in Instances, NEW t \in Tasks, Turn(i, t)
    PROVE  IInv' /\ OutcomesKept
BY PassStep, ClaimStep, FindMissingExecutorStep, DeferStep, LateSettlementStep,
   FinishCancelledStep, FinishRetryStep, FinishExhaustedStep, FinishSuccessStep,
   HeartbeatStep
   DEF Turn, Finish

-----------------------------------------------------------------------------
(* Steps of the service, the worker loop and the environment.              *)

LEMMA ScheduleStep ==
    ASSUME IInv, NEW i \in Instances, NEW t \in Tasks, Schedule(i, t)
    PROVE  IInv' /\ OutcomesKept
<1> USE DEF Schedule
<1>1. PICK start \in Anchors :
         task' = [task EXCEPT ![t] = [Absent EXCEPT !.present = TRUE,
                                                    !.enabled = TRUE,
                                                    !.next = start]]
  OBVIOUS
<1> DEFINE r1 == [Absent EXCEPT !.present = TRUE]
           r2 == [r1 EXCEPT !.enabled = TRUE]
           r3 == [r2 EXCEPT !.next = start]
<1>2. r1 \in TaskRow /\ r1.lease = 0
  BY DEF Absent, TaskRow, Time, None
<1> HIDE DEF r1
<1>3. r2 \in TaskRow /\ r2.lease = 0
  BY <1>2 DEF TaskRow
<1> HIDE DEF r2
<1>4. r3 \in TaskRow /\ r3.lease = 0
  BY <1>3, ScheduleAssumption DEF TaskRow, Time
<1> HIDE DEF r3
<1>5. task' = [task EXCEPT ![t] = r3]
  BY <1>1 DEF r1, r2, r3
<1>6. task[t].lease = 0
  BY DEF IInv, AbsentUnleased
<1>7. TablesOK
  BY <1>4, <1>5, <1>6, RowRewritten
<1>8. ControlOK
  BY DEF ControlOK, IInv, TypeOK
<1> QED
  BY <1>7, <1>8, Assembled DEF IInv, TypeOK, Time

LEMMA CancelStep ==
    ASSUME IInv, NEW i \in Instances, NEW t \in Tasks, Cancel(i, t)
    PROVE  IInv' /\ OutcomesKept
<1> DEFINE row == [task[t] EXCEPT !.enabled = FALSE]
           s == [slot[i][t] EXCEPT !.abort = @ \/ slot[i][t].pc = "running"]
<1>1. task[t] \in TaskRow /\ slot[i][t] \in Slot
  BY DEF IInv, TypeOK
<1>2. row \in TaskRow /\ row.lease = task[t].lease /\ row.present = task[t].present
  BY <1>1 DEF TaskRow
<1>3. s \in Slot /\ s.pc = slot[i][t].pc /\ s.lease = slot[i][t].lease
  BY <1>1 DEF Slot
<1>4. task' = [task EXCEPT ![t] = row] /\ slot' = [slot EXCEPT ![i] = [slot[i] EXCEPT ![t] = s]]
  BY DEF Cancel
<1> HIDE DEF row, s
<1>5. TablesOK
  BY <1>2, <1>4, RowRewritten DEF Cancel
<1>6. slot' \in [Instances -> [Tasks -> Slot]]
  BY <1>3, <1>4 DEF IInv, TypeOK
<1>7. \A j \in Instances, u \in Tasks :
         slot'[j][u].pc = slot[j][u].pc /\ slot'[j][u].lease = slot[j][u].lease
  BY <1>3, <1>4 DEF IInv, TypeOK
<1>8. ControlOK
  BY <1>6, <1>7 DEF ControlOK, Cancel, IInv, TypeOK
<1>9. faults' \in Nat
  BY DEF Cancel, Fault, IInv, TypeOK
<1> QED
  BY <1>5, <1>8, <1>9, Assembled DEF Cancel, IInv, TypeOK, Time

LEMMA RemoveStep ==
    ASSUME IInv, NEW i \in Instances, NEW t \in Tasks, Remove(i, t)
    PROVE  IInv' /\ OutcomesKept
<1> DEFINE h == runs[t]
           gone == [n \in DOMAIN h |-> [h[n] EXCEPT !.status = "removed"]]
<1>1. /\ task \in [Tasks -> TaskRow] /\ runs \in [Tasks -> Seq(RunRow)]
      /\ AttemptBounded /\ RunningIsLeased /\ AbsentUnleased
  BY DEF IInv, TypeOK
<1>2. h \in Seq(RunRow) /\ Len(h) \in Nat /\ DOMAIN h = 1 .. Len(h)
  BY <1>1, LenProperties
<1>3. \A n \in DOMAIN h : /\ gone[n] \in RunRow
                          /\ gone[n].status = "removed"
                          /\ gone[n].attempt = h[n].attempt
  <2> TAKE n \in DOMAIN h
  <2>1. h[n] \in RunRow
    BY <1>2, ElementOfSeq
  <2>2. gone[n] = [h[n] EXCEPT !.status = "removed"]
    OBVIOUS
  <2> HIDE DEF gone, h
  <2> QED
    BY <2>1, <2>2 DEF RunRow, RunStatus
<1>4. gone \in Seq(RunRow) /\ Len(gone) = Len(h) /\ DOMAIN gone = 1 .. Len(h)
  <2>1. DOMAIN gone = 1 .. Len(h)
    BY <1>2
  <2>2. gone = [n \in 1 .. Len(h) |-> [h[n] EXCEPT !.status = "removed"]]
    BY <1>2
  <2>3. \A n \in 1 .. Len(h) : gone[n] \in RunRow
    BY <1>2, <1>3
  <2>4. gone \in [1 .. Len(h) -> RunRow]
    BY <2>2, <2>3
  <2> HIDE DEF gone
  <2>5. gone \in Seq(RunRow)
    BY <1>2, <2>4, SeqDef
  <2> QED
    BY <1>2, <2>1, <2>5, LenProperties
<1>5. Absent \in TaskRow /\ Absent.lease = 0
  BY DEF Absent, TaskRow, Time, None
<1>6. task' = [task EXCEPT ![t] = Absent] /\ runs' = [runs EXCEPT ![t] = gone]
  BY DEF Remove
<1> HIDE DEF h, gone
<1>7. \A u \in Tasks : u # t => task'[u] = task[u] /\ runs'[u] = runs[u]
  BY <1>1, <1>6
<1>8. task'[t] = Absent /\ runs'[t] = gone
  BY <1>1, <1>6
<1>9. task' \in [Tasks -> TaskRow] /\ runs' \in [Tasks -> Seq(RunRow)]
  BY <1>1, <1>4, <1>5, <1>6
<1>10. \A u \in Tasks : Len(runs'[u]) >= Len(runs[u])
  <2>1. \A u \in Tasks : Len(runs[u]) \in Nat
    BY <1>1, LenProperties
  <2> QED
    BY <1>4, <1>7, <1>8, <2>1 DEF h
<1>11. RunningIsLeased'
  <2> SUFFICES ASSUME NEW u \in Tasks
               PROVE  /\ task'[u].lease \in 0 .. Len(runs'[u])
                      /\ \A n \in DOMAIN runs'[u] :
                            runs'[u][n].status = "running" <=> task'[u].lease = n
    BY DEF RunningIsLeased
  <2>1. CASE u = t
    BY <1>2, <1>3, <1>4, <1>5, <1>8, <2>1
  <2>2. CASE u # t
    BY <1>1, <1>7, <2>2 DEF RunningIsLeased
  <2> QED
    BY <2>1, <2>2
<1>12. AttemptBounded'
  <2>1. \A n \in DOMAIN gone : gone[n].attempt <= n
    BY <1>1, <1>2, <1>3, <1>4 DEF AttemptBounded, h
  <2> QED
    BY <1>1, <1>7, <1>8, <2>1 DEF AttemptBounded
<1>13. AbsentUnleased'
  BY <1>1, <1>5, <1>7, <1>8 DEF AbsentUnleased
<1>14. OutcomesKept
  BY <1>2, <1>3, <1>7, <1>8 DEF OutcomesKept, h
<1>15. TablesOK
  BY <1>9, <1>10, <1>11, <1>12, <1>13, <1>14 DEF TablesOK
<1>16. ControlOK
  BY DEF ControlOK, Remove, IInv, TypeOK
<1>17. faults' \in Nat
  BY DEF Remove, Fault, IInv, TypeOK
<1> QED
  BY <1>15, <1>16, <1>17, Assembled DEF Remove, IInv, TypeOK, Time

LEMMA RegistrationStep ==
    ASSUME IInv, NEW i \in Instances, UnregisterExecutor(i) \/ RegisterExecutor(i)
    PROVE  IInv' /\ OutcomesKept
<1>1. TablesOK
  BY TablesUnchanged DEF UnregisterExecutor, RegisterExecutor
<1>2. ControlOK
  BY DEF ControlOK, UnregisterExecutor, RegisterExecutor, IInv, TypeOK
<1>3. faults' \in Nat
  BY DEF UnregisterExecutor, RegisterExecutor, Fault, IInv, TypeOK
<1>4. hasExec' \in [Instances -> BOOLEAN]
  <2>1. \E b \in BOOLEAN : hasExec' = [hasExec EXCEPT ![i] = b]
    BY DEF UnregisterExecutor, RegisterExecutor
  <2> QED
    BY <2>1 DEF IInv, TypeOK
<1> QED
  BY <1>1, <1>2, <1>3, <1>4, Assembled DEF UnregisterExecutor, RegisterExecutor, IInv, TypeOK, Time

LEMMA StartWorkerStep ==
    ASSUME IInv, NEW i \in Instances, StartWorker(i)
    PROVE  IInv' /\ OutcomesKept
<1> DEFINE late == {u \in Tasks : /\ task[u].present /\ task[u].enabled
                                  /\ Policy[u] = "skip"
                                  /\ ~Held(task[u], clock)
                                  /\ task[u].next < clock}
           missed == {Missed(t) : t \in late}
<1>1. clock \in Nat /\ task \in [Tasks -> TaskRow]
  BY DEF IInv, TypeOK, Time
<1>2. \A t \in Tasks : Missed(t) \in MissedUpdate
  <2> TAKE t \in Tasks
  <2>1. task[t].next \in Nat
    BY <1>1 DEF TaskRow, Time
  <2>2. CASE Every[t] = 0
    BY <1>1, <2>1, <2>2 DEF Missed, MissedUpdate, Time
  <2>3. CASE Every[t] # 0
    <3>1. NextFutureOccurrence(t, task[t].next, clock) \in Nat
      BY <1>1, <2>1, <2>3, NextFutureIsLater
    <3> QED
      BY <1>1, <2>3, <3>1 DEF Missed, MissedUpdate, Time
  <2> QED
    BY <2>2, <2>3
<1>3. missed \in SUBSET MissedUpdate
  BY <1>2
<1>4. /\ todo' = [todo EXCEPT ![i] = missed]
      /\ worker' = worker \/ \E w \in {"on", "starting"} : worker' = [worker EXCEPT ![i] = w]
  BY DEF StartWorker
<1> HIDE DEF missed
<1>5. todo' \in [Instances -> SUBSET MissedUpdate]
  BY <1>3, <1>4 DEF IInv, TypeOK
<1>6. TablesOK
  BY <1>1, SweepKeepsTables DEF StartWorker
<1>7. ControlOK
  BY <1>4 DEF ControlOK, StartWorker, IInv, TypeOK
<1> QED
  BY <1>5, <1>6, <1>7, Assembled DEF StartWorker, IInv, TypeOK, Time

LEMMA SkipMissedStep ==
    ASSUME IInv, NEW i \in Instances, NEW m \in todo[i], SkipMissed(i, m)
    PROVE  IInv' /\ OutcomesKept
<1> DEFINE t == m.task
           row == Moved(task[t], m.enabled, m.next, task[t].retry)
<1>1. m \in MissedUpdate /\ todo[i] \in SUBSET MissedUpdate
  BY DEF IInv, TypeOK
<1>2. t \in Tasks /\ m.enabled \in BOOLEAN /\ m.next \in Nat
  BY <1>1 DEF MissedUpdate, Time
<1>3. task[t] \in TaskRow /\ task[t].retry \in Nat \cup {None}
  BY <1>2 DEF IInv, TypeOK, TaskRow, Time
<1>4. task' = [task EXCEPT ![t] = row]
  BY DEF SkipMissed
<1> HIDE DEF t
<1>5. row \in TaskRow /\ row.lease = task[t].lease /\ row.present = task[t].present
  BY <1>2, <1>3, MovedRow
<1> HIDE DEF row
<1>6. TablesOK
  BY <1>2, <1>4, <1>5, RowRewritten DEF SkipMissed
<1>7. worker' \in [Instances -> {"off", "starting", "on", "stopping"}]
  <2>1. \E w \in {"on", "starting"} : worker' = [worker EXCEPT ![i] = w]
    BY DEF SkipMissed
  <2> QED
    BY <2>1 DEF IInv, TypeOK
<1>8. ControlOK
  BY <1>7 DEF ControlOK, SkipMissed, IInv, TypeOK
<1>9. todo' \in [Instances -> SUBSET MissedUpdate]
  BY <1>1 DEF SkipMissed, IInv, TypeOK
<1> QED
  BY <1>6, <1>8, <1>9, Assembled DEF SkipMissed, IInv, TypeOK, Time

LEMMA StartFailsStep ==
    ASSUME IInv, NEW i \in Instances, NEW m \in todo[i], StartFails(i, m)
    PROVE  IInv' /\ OutcomesKept
<1>1. TablesOK
  BY TablesUnchanged DEF StartFails
<1>2. ControlOK
  BY DEF ControlOK, StartFails, IInv, TypeOK
<1>3. todo' \in [Instances -> SUBSET MissedUpdate]
  BY DEF StartFails, IInv, TypeOK
<1> QED
  BY <1>1, <1>2, <1>3, Assembled DEF StartFails, IInv, TypeOK, Time

LEMMA TickStep ==
    ASSUME IInv, NEW i \in Instances, Tick(i)
    PROVE  IInv' /\ OutcomesKept
<1> DEFINE due == {t \in Tasks : Listed(task[t], clock)}
           some == Cardinality(due)
           loops(t) == IF Policy[t] = "catch-up" THEN MaxCatchUpRuns ELSE 1
           q1 == [IdleSlot EXCEPT !.pc = "queued"]
           q2 == [q1 EXCEPT !.at = clock]
           queue == [t \in Tasks |->
              IF t \in due
              THEN [IdleSlot EXCEPT !.pc = "queued", !.at = clock, !.left = loops(t)]
              ELSE IdleSlot]
<1>1. clock \in Nat
  BY DEF IInv, TypeOK, Time
<1>2. \A t \in Tasks : queue[t] \in Slot /\ queue[t].pc # "running"
  <2>1. q1 \in Slot /\ q1.pc = "queued"
    BY IdleSlotType DEF Slot
  <2> TAKE t \in Tasks
  <2>2. loops(t) \in Nat
    BY BoundAssumption
  <2>3. [IdleSlot EXCEPT !.pc = "queued", !.at = clock, !.left = loops(t)]
           = [q2 EXCEPT !.left = loops(t)]
    OBVIOUS
  <2> HIDE DEF q1
  <2>4. q2 \in Slot /\ q2.pc = "queued"
    BY <1>1, <2>1 DEF Slot, Time
  <2> HIDE DEF q2, loops
  <2>5. /\ [q2 EXCEPT !.left = loops(t)] \in Slot
        /\ [q2 EXCEPT !.left = loops(t)].pc = "queued"
    BY <2>2, <2>4 DEF Slot
  <2> QED
    BY <2>3, <2>5, IdleSlotType
<1>3. slot' = [slot EXCEPT ![i] = queue]
  BY DEF Tick
<1>4. pool' = [pool EXCEPT ![i] = Min({MaxConcurrent, some})]
  BY DEF Tick
<1>5. queue \in [Tasks -> Slot]
  BY <1>2
<1> HIDE DEF queue
<1>6. Min({MaxConcurrent, some}) \in Nat
  <2>1. some \in Nat
    <3>1. due \subseteq Tasks
      OBVIOUS
    <3> HIDE DEF due
    <3> QED
      BY <3>1, BoundAssumption, FS_Subset, FS_CardinalityType
  <2> HIDE DEF some
  <2>2. \E x \in {MaxConcurrent, some} : \A y \in {MaxConcurrent, some} : x =< y
    BY <2>1, BoundAssumption
  <2> QED
    BY <2>1, <2>2, BoundAssumption DEF Min
<1>7. slot' \in [Instances -> [Tasks -> Slot]]
  BY <1>3, <1>5 DEF IInv, TypeOK
<1>8. \A j \in Instances, u \in Tasks : slot'[j][u].pc = "running" => slot'[j][u] = slot[j][u]
  BY <1>2, <1>3 DEF IInv, TypeOK
<1>9. pool' \in [Instances -> Nat]
  BY <1>4, <1>6 DEF IInv, TypeOK
<1>10. ControlOK
  BY <1>7, <1>8, <1>9 DEF ControlOK, Tick, IInv, TypeOK
<1>11. TablesOK
  BY <1>1, SweepKeepsTables DEF Tick
<1> QED
  BY <1>10, <1>11, Assembled DEF Tick, IInv, TypeOK, Time

LEMMA StopWorkerStep ==
    ASSUME IInv, NEW i \in Instances, StopWorker(i)
    PROVE  IInv' /\ OutcomesKept
<1> DEFINE halted == [t \in Tasks |-> IF slot[i][t].pc = "running"
                                      THEN [slot[i][t] EXCEPT !.abort = TRUE]
                                      ELSE IdleSlot]
<1>1. \A t \in Tasks :
         /\ halted[t] \in Slot
         /\ halted[t].pc = "running" =>
               slot[i][t].pc = "running" /\ halted[t].lease = slot[i][t].lease
  <2> TAKE t \in Tasks
  <2>1. slot[i][t] \in Slot
    BY DEF IInv, TypeOK
  <2>2. [slot[i][t] EXCEPT !.abort = TRUE] \in Slot
    BY <2>1 DEF Slot
  <2>3. [slot[i][t] EXCEPT !.abort = TRUE].lease = slot[i][t].lease
    BY <2>1 DEF Slot
  <2> QED
    BY <2>2, <2>3, IdleSlotType
<1>2. halted \in [Tasks -> Slot]
  BY <1>1
<1>3. /\ slot' = [slot EXCEPT ![i] = halted]
      /\ pool' = [pool EXCEPT ![i] = 0]
      /\ \E w \in {"off", "stopping"} : worker' = [worker EXCEPT ![i] = w]
  BY DEF StopWorker
<1> HIDE DEF halted
<1>4. ControlOK
  <2>1. slot' \in [Instances -> [Tasks -> Slot]]
    BY <1>2, <1>3 DEF IInv, TypeOK
  <2>2. \A j \in Instances, u \in Tasks : slot'[j][u].pc = "running" =>
          slot[j][u].pc = "running" /\ slot'[j][u].lease = slot[j][u].lease
    BY <1>1, <1>3 DEF IInv, TypeOK
  <2> QED
    BY <1>3, <2>1, <2>2 DEF ControlOK, IInv, TypeOK
<1>5. TablesOK
  BY TablesUnchanged DEF StopWorker
<1>6. faults' \in Nat
  BY DEF StopWorker, Fault, IInv, TypeOK
<1> QED
  BY <1>4, <1>5, <1>6, Assembled DEF StopWorker, IInv, TypeOK, Time

LEMMA CrashStep ==
    ASSUME IInv, NEW i \in Instances, Crash(i)
    PROVE  IInv' /\ OutcomesKept
<1> DEFINE idle == [t \in Tasks |-> IdleSlot]
<1>1. idle \in [Tasks -> Slot] /\ \A t \in Tasks : idle[t].pc # "running"
  BY IdleSlotType
<1>2. slot' = [slot EXCEPT ![i] = idle]
  BY DEF Crash
<1> HIDE DEF idle
<1>3. slot' \in [Instances -> [Tasks -> Slot]]
  BY <1>1, <1>2 DEF IInv, TypeOK
<1>4. \A j \in Instances, u \in Tasks : slot'[j][u].pc = "running" => slot'[j][u] = slot[j][u]
  BY <1>1, <1>2 DEF IInv, TypeOK
<1>5. ControlOK
  BY <1>3, <1>4 DEF ControlOK, Crash, IInv, TypeOK
<1>6. TablesOK
  BY TablesUnchanged DEF Crash
<1>7. faults' \in Nat
  BY DEF Crash, Fault, IInv, TypeOK
<1>8. todo' \in [Instances -> SUBSET MissedUpdate]
  BY DEF Crash, IInv, TypeOK
<1> QED
  BY <1>5, <1>6, <1>7, <1>8, Assembled DEF Crash, IInv, TypeOK, Time

LEMMA AdvanceClockStep ==
    ASSUME IInv, AdvanceClock
    PROVE  IInv' /\ OutcomesKept
<1>1. TablesOK
  BY TablesUnchanged DEF AdvanceClock
<1>2. ControlOK
  BY DEF ControlOK, AdvanceClock, IInv, TypeOK
<1>3. clock' \in Nat
  BY DEF AdvanceClock, IInv, TypeOK, Time
<1> QED
  BY <1>1, <1>2, <1>3, Assembled DEF AdvanceClock, IInv, TypeOK, Time

-----------------------------------------------------------------------------
(* The theorems.                                                           *)

LEMMA InitIInv == Init => IInv
<1> SUFFICES ASSUME Init PROVE IInv
  OBVIOUS
<1> USE DEF Init
<1>1. Absent \in TaskRow /\ Absent.lease = 0
  BY DEF Absent, TaskRow, Time, None
<1>2. <<>> \in Seq(RunRow) /\ Len(<<>>) = 0 /\ DOMAIN <<>> = {}
  OBVIOUS
<1>3. TypeOK
  BY <1>1, <1>2, IdleSlotType DEF TypeOK, Time
<1>4. RunningIsLeased /\ AttemptBounded /\ AbsentUnleased
  BY <1>1, <1>2 DEF RunningIsLeased, AttemptBounded, AbsentUnleased
<1>5. SlotsHaveRuns
  BY IdleSlotType DEF SlotsHaveRuns
<1> QED
  BY <1>3, <1>4, <1>5 DEF IInv

LEMMA NextIInv == IInv /\ [Next]_vars => IInv' /\ OutcomesKept
<1> SUFFICES ASSUME IInv, [Next]_vars PROVE IInv' /\ OutcomesKept
  OBVIOUS
<1>1. ASSUME NEW i \in Instances, NEW t \in Tasks,
             Schedule(i, t) \/ Cancel(i, t) \/ Remove(i, t) \/ Turn(i, t)
      PROVE  IInv' /\ OutcomesKept
  BY <1>1, ScheduleStep, CancelStep, RemoveStep, TurnStep
<1>2. ASSUME NEW i \in Instances, Start(i)
      PROVE  IInv' /\ OutcomesKept
  BY <1>2, StartWorkerStep, SkipMissedStep, StartFailsStep DEF Start
<1>3. ASSUME NEW i \in Instances,
             UnregisterExecutor(i) \/ RegisterExecutor(i) \/ Tick(i)
                \/ StopWorker(i) \/ Crash(i)
      PROVE  IInv' /\ OutcomesKept
  BY <1>3, RegistrationStep, TickStep, StopWorkerStep, CrashStep
<1>4. CASE AdvanceClock
  BY <1>4, AdvanceClockStep
<1>5. CASE UNCHANGED vars
  <2>1. TablesOK
    BY <1>5, TablesUnchanged DEF vars
  <2>2. ControlOK
    BY <1>5 DEF ControlOK, vars, IInv, TypeOK
  <2> QED
    BY <1>5, <2>1, <2>2, Assembled DEF vars, IInv, TypeOK, Time
<1> QED
  BY <1>1, <1>2, <1>3, <1>4, <1>5 DEF Next

LEMMA Invariance == Spec => []IInv
<1>1. Init => IInv
  BY InitIInv
<1>2. IInv /\ [Next]_vars => IInv'
  BY NextIInv
<1> QED
  BY <1>1, <1>2, PTL DEF Spec

\* The tables and the activations keep their types: claims, completions,
\* deferrals, sweeps and crashes write only rows the store can read back.
THEOREM TypeCorrect == Spec => []TypeOK
<1>1. IInv => TypeOK
  BY DEF IInv
<1> QED
  BY <1>1, Invariance, PTL

\* However many instances share the database, a task has a running row exactly
\* when it is leased, and it is the row of that lease: completeClaim, claimTask
\* and abandonExpiredLeases always find the one row they assert.
THEOREM LeaseSafety == Spec => []RunningIsLeased
<1>1. IInv => RunningIsLeased
  BY DEF IInv
<1> QED
  BY <1>1, Invariance, PTL

\* No step rewrites the outcome of a finished run: an executor that comes back
\* after its lease was taken over cannot settle anything.
THEOREM OutcomesFinal == Spec => OutcomeIsFinal
<1>1. IInv /\ [Next]_vars => OutcomesKept
  BY NextIInv
<1>2. OutcomesKept <=> \A t \in Tasks : \A n \in DOMAIN runs[t] :
            runs[t][n].status # "running" =>
                runs'[t][n].status \in {runs[t][n].status, "removed"}
  BY DEF OutcomesKept
<1> QED
  BY <1>1, <1>2, Invariance, PTL DEF Spec, OutcomeIsFinal

-----------------------------------------------------------------------------
(* What a task's row owes to its history.                                  *)

\* One process shares the database with nobody.
Alone == \A i, j \in Instances : i = j

\* No row is read in one database call and written in a later one while
\* another process acts in between: the deferral of a task without executor
\* and the missed-run policy are the two places that do.
Undisturbed == Alone \/ (Flaky = {} /\ \A t \in Tasks : Policy[t] # "skip")

\* The runs of a history whose task has not been removed.
Known(h) == {n \in DOMAIN h : h[n].status # "removed"}

Advancing(h) ==
    \A m, n \in Known(h) : m < n =>
        \/ h[m].for < h[n].for
        \/ /\ h[m].for = h[n].for
           /\ h[m].attempt < h[n].attempt
           /\ ~SettledForGood(h[m])

\* The row points past everything that is settled for good.
Ahead(t, row, h) ==
    row.present /\ (row.enabled \/ Every[t] # 0) =>
        \A n \in Known(h) : \/ h[n].for < Anchor(row)
                            \/ h[n].for = Anchor(row) /\ ~SettledForGood(h[n])

Current(t, row, h) ==
    /\ Advancing(h)
    /\ Ahead(t, row, h)
    /\ row.lease \in {0, Len(h)}
    /\ ~row.present => Known(h) = {}

\* A run was for the occurrence its predecessor left.
InOrder(t, h) ==
    Policy[t] # "skip" => \A n \in Known(h) : n + 1 \in Known(h) =>
        /\ ~SettledForGood(h[n]) => h[n + 1].for = h[n].for
        /\ SettledForGood(h[n]) /\ Policy[t] = "catch-up" =>
               h[n + 1].for = h[n].for + Every[t]

\* And so will the next one be.
NextInLine(t, row, h) ==
    Policy[t] # "skip" /\ row.enabled /\ Len(h) \in Known(h) =>
        /\ ~SettledForGood(h[Len(h)]) => Anchor(row) = h[Len(h)].for
        /\ SettledForGood(h[Len(h)]) /\ Policy[t] = "catch-up" =>
               Anchor(row) = h[Len(h)].for + Every[t]

\* Whole periods of the task between two instants.
Periods(t, from, to) == \E k \in Nat : to = from + k * Every[t]
OnCadence(t, x) == \E a \in Anchors : Periods(t, a, x)

InPhase(t, row, h) ==
    Every[t] # 0 => /\ row.present => OnCadence(t, Anchor(row))
                    /\ \A n \in DOMAIN h : OnCadence(t, h[n].for)

Kept(t, row, h) == InOrder(t, h) /\ NextInLine(t, row, h) /\ InPhase(t, row, h)

\* What a step owes to the row and the history of one task.
Carried(t, row, h, row2, h2) ==
    /\ Current(t, row2, h2)
    /\ Kept(t, row, h) => Kept(t, row2, h2)
    /\ row.present /\ ~row.enabled /\ row2.present => ~row2.enabled
    /\ Len(h2) >= Len(h)
    /\ \A n \in 1 .. Len(h) : h2[n].for = h[n].for

-----------------------------------------------------------------------------
(* Cadence.                                                                *)

LEMMA PeriodsAdd ==
    ASSUME NEW t \in Tasks, NEW a \in Nat, NEW x \in Nat, NEW y \in Nat,
           Periods(t, a, x), Periods(t, x, y)
    PROVE  Periods(t, a, y)
<1> DEFINE e == Every[t]
<1>1. e \in Nat
  BY ScheduleAssumption
<1>2. PICK j \in Nat : x = a + j * e
  BY DEF Periods
<1>3. PICK k \in Nat : y = x + k * e
  BY DEF Periods
<1> HIDE DEF e
<1>4. (j + k) * e = j * e + k * e /\ j * e \in Nat /\ k * e \in Nat
  BY <1>1, <1>2, <1>3
<1>5. y = a + (j + k) * e /\ j + k \in Nat
  BY <1>1, <1>2, <1>3, <1>4
<1> QED
  BY <1>5 DEF Periods, e

\* The successors of an occurrence are whole periods after it.
LEMMA SuccessorsArePeriods ==
    ASSUME NEW t \in Tasks, Every[t] # 0, NEW current \in Nat, NEW after \in Nat
    PROVE  /\ Periods(t, current, current)
           /\ Periods(t, current, NextScheduleOccurrence(t, current))
           /\ Periods(t, current, NextFutureOccurrence(t, current, after))
           /\ NextScheduleOccurrence(t, current) > current
<1> DEFINE e == Every[t]
           n == current + e
           k == (after - n) \div e
<1>1. e \in Nat \ {0}
  BY ScheduleAssumption
<1>2. Periods(t, current, current)
  <2>1. current = current + 0 * e
    BY <1>1
  <2> QED
    BY <2>1 DEF Periods
<1>3. Periods(t, current, n)
  <2>1. n = current + 1 * e
    BY <1>1
  <2> QED
    BY <2>1 DEF Periods
<1>4. CASE n > after
  BY <1>1, <1>2, <1>3, <1>4 DEF NextFutureOccurrence, NextScheduleOccurrence
<1>5. CASE ~(n > after)
  <2> HIDE DEF e
  <2>1. after - n \in Nat /\ n \in Nat
    BY <1>1, <1>5
  <2>2. k \in Nat
    BY <1>1, <2>1
  <2>3. NextFutureOccurrence(t, current, after) = n + (k + 1) * e
    BY <1>5 DEF NextFutureOccurrence, e
  <2> HIDE DEF k
  <2>4. (k + 1) * e = k * e + e /\ (k + 2) * e = k * e + 2 * e /\ k * e \in Nat
    BY <1>1, <2>2
  <2>5. n + (k + 1) * e = current + (k + 2) * e
    BY <1>1, <2>4
  <2>6. Periods(t, current, n + (k + 1) * e)
    BY <2>2, <2>5 DEF Periods, e
  <2> QED
    BY <1>1, <1>2, <1>3, <2>3, <2>6 DEF NextScheduleOccurrence, e
<1> QED
  BY <1>4, <1>5

\* A whole number of periods has no remainder.
LEMMA PeriodsDivide ==
    ASSUME NEW k \in Nat, NEW e \in Nat \ {0}
    PROVE  (k * e) % e = 0
<1> DEFINE p == k * e
           q == p \div e
           r == p % e
<1>1. p \in Nat
  OBVIOUS
<1>2. q \in Int /\ r \in 0 .. e - 1 /\ p = e * q + r
  <2> HIDE DEF p
  <2> QED
    BY <1>1
<1>3. (k - q) * e = r
  <2> HIDE DEF q, r
  <2>1. (k - q) * e = k * e - e * q
    BY <1>2
  <2> QED
    BY <1>2, <2>1
<1> HIDE DEF p, q, r
<1> DEFINE d == k - q
<1>4. d \in Int
  BY <1>2
<1> HIDE DEF d
<1>5. d * e = r
  BY <1>3 DEF d
<1>6. d >= 1 => d * e >= e
  BY <1>4
<1>7. d <= -1 => d * e <= -e
  BY <1>4
<1>8. d = 0
  BY <1>2, <1>4, <1>5, <1>6, <1>7
<1> QED
  BY <1>5, <1>8 DEF p, r

-----------------------------------------------------------------------------
(* What becomes of a row and its history.                                  *)

\* The history reads the same to everything that follows from it.
Alike(h, h2) ==
    /\ Len(h2) = Len(h)
    /\ \A n \in 1 .. Len(h) :
          /\ h2[n].for = h[n].for
          /\ h2[n].attempt = h[n].attempt
          /\ h2[n].status = "removed" <=> h[n].status = "removed"
          /\ SettledForGood(h2[n]) <=> SettledForGood(h[n])

\* What the row owes to the run that just completed.
Follows(t, row, run) ==
    /\ ~SettledForGood(run) => Anchor(row) = run.for
    /\ SettledForGood(run) => (row.enabled => Every[t] # 0)
    /\ SettledForGood(run) /\ Every[t] # 0 =>
          /\ Anchor(row) > run.for
          /\ Periods(t, run.for, Anchor(row))
          /\ Policy[t] = "catch-up" => Anchor(row) = run.for + Every[t]

\* The claim it stands for is the same, its lease is kept or given up.
LEMMA RowHeld ==
    ASSUME NEW t \in Tasks, NEW row \in TaskRow, NEW row2 \in TaskRow,
           NEW h \in Seq(RunRow), NEW h2 \in Seq(RunRow),
           Current(t, row, h), Alike(h, h2),
           row2.present = row.present,
           row.present => Anchor(row2) = Anchor(row),
           row2.enabled => row.enabled,
           row2.lease \in {0, row.lease}
    PROVE  Carried(t, row, h, row2, h2)
<1>1. /\ Len(h) \in Nat /\ Len(h2) = Len(h)
      /\ DOMAIN h = 1 .. Len(h) /\ DOMAIN h2 = 1 .. Len(h)
  BY LenProperties DEF Alike
<1>2. Known(h2) = Known(h) /\ Known(h) \subseteq 1 .. Len(h)
  BY <1>1 DEF Known, Alike
<1>3. \A n \in 1 .. Len(h) : /\ h2[n].for = h[n].for
                             /\ h2[n].attempt = h[n].attempt
                             /\ SettledForGood(h2[n]) <=> SettledForGood(h[n])
  BY DEF Alike
<1>4. Current(t, row2, h2)
  <2>1. Advancing(h2)
    BY <1>2, <1>3 DEF Advancing, Current
  <2>2. Ahead(t, row2, h2)
    BY <1>2, <1>3 DEF Ahead, Current
  <2>3. row2.lease \in {0, Len(h2)}
    BY <1>1 DEF Current
  <2> QED
    BY <1>2, <2>1, <2>2, <2>3 DEF Current
<1>5. Kept(t, row, h) => Kept(t, row2, h2)
  <2> SUFFICES ASSUME Kept(t, row, h) PROVE Kept(t, row2, h2)
    OBVIOUS
  <2>1. InOrder(t, h2)
    BY <1>2, <1>3 DEF InOrder, Kept
  <2>2. NextInLine(t, row2, h2)
    <3>1. row2.enabled /\ Len(h) \in Known(h) => Anchor(row2) = Anchor(row)
      BY DEF Current
    <3> QED
      BY <1>1, <1>2, <1>3, <3>1 DEF NextInLine, Kept
  <2>3. InPhase(t, row2, h2)
    BY <1>1, <1>3 DEF InPhase, Kept
  <2> QED
    BY <2>1, <2>2, <2>3 DEF Kept
<1> QED
  BY <1>1, <1>3, <1>4, <1>5 DEF Carried

LEMMA AlikeItself == ASSUME NEW h PROVE Alike(h, h)
BY DEF Alike

\* Giving up a lease changes a running row to an abandoned one.
LEMMA AbandonedAlike ==
    ASSUME NEW h \in Seq(RunRow), NEW k \in 1 .. Len(h), h[k].status = "running"
    PROVE  Alike(h, Settled(h, k, "abandoned")) /\ Settled(h, k, "abandoned") \in Seq(RunRow)
<1> DEFINE h2 == Settled(h, k, "abandoned")
<1>1. "abandoned" \in RunStatus
  BY DEF RunStatus
<1>2. /\ h2 \in Seq(RunRow) /\ Len(h2) = Len(h)
      /\ h2[k].status = "abandoned"
      /\ \A n \in 1 .. Len(h) : n # k => h2[n] = h[n]
      /\ \A n \in 1 .. Len(h) : h2[n].attempt = h[n].attempt
      /\ \A n \in 1 .. Len(h) : h2[n].for = h[n].for
  BY <1>1, SettledRow
<1> HIDE DEF h2
<1>3. ~SettledForGood(h2[k]) /\ ~SettledForGood(h[k])
  BY <1>2 DEF SettledForGood
<1> QED
  BY <1>2, <1>3 DEF Alike, h2

\* The leased run, the last one, gets its outcome and the row moves on.
LEMMA RowCompleted ==
    ASSUME NEW t \in Tasks, NEW row \in TaskRow, NEW row2 \in TaskRow,
           NEW h \in Seq(RunRow), NEW k \in 1 .. Len(h),
           NEW st \in RunStatus, st # "removed",
           Current(t, row, h), row.lease = k, h[k].status = "running",
           row2.present = row.present, row2.enabled => row.enabled, row2.lease = 0,
           Follows(t, row2, Settled(h, k, st)[k])
    PROVE  Carried(t, row, h, row2, Settled(h, k, st))
<1> DEFINE h2 == Settled(h, k, st)
<1>1. /\ h2 \in Seq(RunRow) /\ Len(h2) = Len(h) /\ DOMAIN h2 = 1 .. Len(h)
      /\ h2[k].status = st
      /\ \A n \in 1 .. Len(h) : n # k => h2[n] = h[n]
      /\ \A n \in 1 .. Len(h) : h2[n].attempt = h[n].attempt
      /\ \A n \in 1 .. Len(h) : h2[n].for = h[n].for
  BY SettledRow
<1>2. Len(h) \in Nat /\ DOMAIN h = 1 .. Len(h) /\ k = Len(h)
  BY LenProperties DEF Current
<1>3. Follows(t, row2, h2[k])
  OBVIOUS
<1> HIDE DEF h2
<1>4. Known(h2) = Known(h) /\ Known(h) \subseteq 1 .. Len(h) /\ k \in Known(h)
  BY <1>1, <1>2 DEF Known
<1>5. \A n \in 1 .. Len(h) : h[n].for \in Nat
  <2> TAKE n \in 1 .. Len(h)
  <2>1. h[n] \in RunRow
    BY <1>2, ElementOfSeq
  <2> QED
    BY <2>1 DEF RunRow, Time
<1>6. Anchor(row2) \in Nat /\ Every[t] \in Nat
  BY ScheduleAssumption DEF Anchor, TaskRow, Time
<1>7. \A n \in Known(h) : n < k =>
         h[n].for < h[k].for \/ (h[n].for = h[k].for /\ ~SettledForGood(h[n]))
  BY <1>4 DEF Current, Advancing
<1>8. Advancing(h2)
  <2> SUFFICES ASSUME NEW m \in Known(h), NEW n \in Known(h), m < n
               PROVE  \/ h2[m].for < h2[n].for
                      \/ /\ h2[m].for = h2[n].for
                         /\ h2[m].attempt < h2[n].attempt
                         /\ ~SettledForGood(h2[m])
    BY <1>4 DEF Advancing
  <2>1. m # k /\ m \in 1 .. Len(h) /\ n \in 1 .. Len(h)
    BY <1>2, <1>4
  <2>2. h2[m] = h[m] /\ h2[n].for = h[n].for /\ h2[n].attempt = h[n].attempt
    BY <1>1, <2>1
  <2> QED
    BY <2>2 DEF Current, Advancing
<1>9. Ahead(t, row2, h2)
  <2> SUFFICES ASSUME row2.present, row2.enabled \/ Every[t] # 0, NEW n \in Known(h)
               PROVE  \/ h2[n].for < Anchor(row2)
                      \/ h2[n].for = Anchor(row2) /\ ~SettledForGood(h2[n])
    BY <1>4 DEF Ahead
  <2>1. n \in 1 .. Len(h) /\ h2[n].for = h[n].for /\ h2[k].for = h[k].for
    BY <1>1, <1>4
  <2>2. CASE SettledForGood(h2[k])
    <3>1. Anchor(row2) > h[k].for
      BY <1>3, <2>1, <2>2 DEF Follows
    <3>2. h[n].for <= h[k].for
      BY <1>2, <1>5, <1>7, <2>1
    <3> QED
      BY <1>5, <1>6, <2>1, <3>1, <3>2
  <2>3. CASE ~SettledForGood(h2[k])
    <3>1. Anchor(row2) = h[k].for
      BY <1>3, <2>1, <2>3 DEF Follows
    <3>2. CASE n = k
      BY <2>1, <2>3, <3>1, <3>2
    <3>3. CASE n # k
      <4>1. n < k
        <5>1. n \in Nat /\ k \in Nat /\ n <= k
          BY <1>2, <2>1
        <5> QED
          BY ONLY <3>3, <5>1
      <4>2. h2[n] = h[n]
        BY <1>1, <2>1, <3>3
      <4> QED
        BY <1>7, <3>1, <4>1, <4>2
    <3> QED
      BY <3>2, <3>3
  <2> QED
    BY <2>2, <2>3
<1>10. Current(t, row2, h2)
  BY <1>4, <1>8, <1>9 DEF Current
<1>11. Kept(t, row, h) => Kept(t, row2, h2)
  <2> SUFFICES ASSUME Kept(t, row, h) PROVE Kept(t, row2, h2)
    OBVIOUS
  <2>1. InOrder(t, h2)
    <3> SUFFICES ASSUME Policy[t] # "skip", NEW n \in Known(h), n + 1 \in Known(h)
                 PROVE  /\ ~SettledForGood(h2[n]) => h2[n + 1].for = h2[n].for
                        /\ SettledForGood(h2[n]) /\ Policy[t] = "catch-up" =>
                              h2[n + 1].for = h2[n].for + Every[t]
      BY <1>4 DEF InOrder
    <3>1. n \in 1 .. Len(h) /\ n + 1 \in 1 .. Len(h) /\ n # k
      BY <1>2, <1>4
    <3>2. h2[n] = h[n] /\ h2[n + 1].for = h[n + 1].for
      BY <1>1, <3>1
    <3> QED
      BY <3>2 DEF Kept, InOrder
  <2>2. NextInLine(t, row2, h2)
    BY <1>1, <1>2, <1>3 DEF NextInLine, Follows
  <2>3. InPhase(t, row2, h2)
    <3> SUFFICES ASSUME Every[t] # 0
                 PROVE  /\ OnCadence(t, Anchor(row2))
                        /\ \A n \in 1 .. Len(h) : OnCadence(t, h2[n].for)
      BY <1>1 DEF InPhase
    <3>1. \A n \in 1 .. Len(h) : OnCadence(t, h2[n].for)
      BY <1>1, <1>2 DEF Kept, InPhase
    <3>2. PICK a \in Anchors : Periods(t, a, h2[k].for)
      BY <3>1 DEF OnCadence
    <3>3. h2[k].for \in Nat /\ a \in Nat
      BY <1>1, <1>5, ScheduleAssumption
    <3>4. Periods(t, a, Anchor(row2))
      <4>1. CASE SettledForGood(h2[k])
        <5>1. Periods(t, h2[k].for, Anchor(row2))
          BY <1>3, <4>1 DEF Follows
        <5> QED
          BY <1>6, <3>2, <3>3, <5>1, PeriodsAdd
      <4>2. CASE ~SettledForGood(h2[k])
        BY <1>3, <3>2, <4>2 DEF Follows
      <4> QED
        BY <4>1, <4>2
    <3> QED
      BY <3>1, <3>4 DEF OnCadence
  <2> QED
    BY <2>1, <2>2, <2>3 DEF Kept
<1>12. Len(h2) >= Len(h)
  <2>1. Len(h) \in Nat /\ Len(h2) = Len(h)
    BY <1>1, <1>2
  <2> QED
    BY ONLY <2>1
<1>13. row.present /\ ~row.enabled /\ row2.present => ~row2.enabled
  OBVIOUS
<1> QED
  BY <1>1, <1>10, <1>11, <1>12, <1>13 DEF Carried, h2

\* A new run is appended for the occurrence the row points to.
LEMMA RowClaimed ==
    ASSUME NEW t \in Tasks, NEW row \in TaskRow, NEW row2 \in TaskRow,
           NEW h \in Seq(RunRow), NEW new \in RunRow,
           Current(t, row, h), row.present, row.enabled,
           new.for = Anchor(row), new.status = "running",
           \A n \in Known(h) : h[n].for = Anchor(row) => h[n].attempt < new.attempt,
           row2.present, row2.enabled, Anchor(row2) = Anchor(row),
           row2.lease = Len(h) + 1
    PROVE  Carried(t, row, h, row2, Append(h, new))
<1> DEFINE h2 == Append(h, new)
           id == Len(h) + 1
<1>1. Len(h) \in Nat /\ DOMAIN h = 1 .. Len(h)
  BY LenProperties
<1>2. /\ h2 \in Seq(RunRow) /\ Len(h2) = id /\ DOMAIN h2 = 1 .. id
      /\ \A n \in 1 .. Len(h) : h2[n] = h[n]
      /\ h2[id] = new
  <2>1. /\ h2 \in Seq(RunRow) /\ Len(h2) = id
        /\ \A n \in 1 .. Len(h) : h2[n] = h[n]
        /\ h2[id] = new
    BY AppendProperties
  <2> QED
    BY <2>1, LenProperties
<1> HIDE DEF h2
<1>3. ~SettledForGood(new)
  BY DEF SettledForGood
<1>4. Known(h2) = Known(h) \cup {id} /\ Known(h) \subseteq 1 .. Len(h)
  BY <1>1, <1>2 DEF Known
<1>5. \A n \in Known(h) : h2[n] = h[n] /\ n < id /\ n \in Nat
  BY <1>1, <1>2, <1>4
<1>6. \A n \in Known(h) : \/ h[n].for < Anchor(row)
                          \/ h[n].for = Anchor(row) /\ ~SettledForGood(h[n])
  BY DEF Current, Ahead
<1>7. Advancing(h2)
  <2> SUFFICES ASSUME NEW m \in Known(h2), NEW n \in Known(h2), m < n
               PROVE  \/ h2[m].for < h2[n].for
                      \/ /\ h2[m].for = h2[n].for
                         /\ h2[m].attempt < h2[n].attempt
                         /\ ~SettledForGood(h2[m])
    BY DEF Advancing
  <2>1. m \in Known(h)
    BY <1>1, <1>4, <1>5
  <2>2. CASE n \in Known(h)
    BY <1>5, <2>1, <2>2 DEF Current, Advancing
  <2>3. CASE n = id
    BY <1>2, <1>5, <1>6, <2>1, <2>3
  <2> QED
    BY <1>4, <2>2, <2>3
<1>8. Ahead(t, row2, h2)
  <2> SUFFICES ASSUME NEW n \in Known(h2)
               PROVE  \/ h2[n].for < Anchor(row)
                      \/ h2[n].for = Anchor(row) /\ ~SettledForGood(h2[n])
    BY DEF Ahead
  <2>1. CASE n \in Known(h)
    BY <1>5, <1>6, <2>1
  <2>2. CASE n = id
    BY <1>2, <1>3, <2>2
  <2> QED
    BY <1>4, <2>1, <2>2
<1>9. Current(t, row2, h2)
  BY <1>2, <1>7, <1>8 DEF Current
<1>10. Kept(t, row, h) => Kept(t, row2, h2)
  <2> SUFFICES ASSUME Kept(t, row, h) PROVE Kept(t, row2, h2)
    OBVIOUS
  <2>1. InOrder(t, h2)
    <3> SUFFICES ASSUME Policy[t] # "skip", NEW n \in Known(h2), n + 1 \in Known(h2)
                 PROVE  /\ ~SettledForGood(h2[n]) => h2[n + 1].for = h2[n].for
                        /\ SettledForGood(h2[n]) /\ Policy[t] = "catch-up" =>
                              h2[n + 1].for = h2[n].for + Every[t]
      BY DEF InOrder
    <3>1. n \in Known(h) /\ h2[n] = h[n] /\ n \in 1 .. Len(h)
      BY <1>1, <1>4, <1>5
    <3>2. CASE n + 1 \in Known(h)
      BY <1>5, <3>1, <3>2 DEF Kept, InOrder
    <3>3. CASE n + 1 = id
      <4>1. n = Len(h)
        <5>1. n \in Nat /\ Len(h) \in Nat /\ n + 1 = Len(h) + 1
          BY <1>1, <3>1, <3>3
        <5> QED
          BY ONLY <5>1
      <4>2. h2[n + 1].for = Anchor(row)
        BY <1>2, <3>3
      <4> QED
        BY <3>1, <4>1, <4>2 DEF Kept, NextInLine
    <3> QED
      BY <1>4, <3>2, <3>3
  <2>2. NextInLine(t, row2, h2)
    BY <1>2, <1>3 DEF NextInLine
  <2>3. InPhase(t, row2, h2)
    <3> SUFFICES ASSUME Every[t] # 0
                 PROVE  /\ OnCadence(t, Anchor(row))
                        /\ \A n \in 1 .. id : OnCadence(t, h2[n].for)
      BY <1>2 DEF InPhase
    <3>1. OnCadence(t, Anchor(row)) /\ \A n \in 1 .. Len(h) : OnCadence(t, h[n].for)
      BY <1>1 DEF Kept, InPhase
    <3>2. \A n \in 1 .. id : n = id \/ n \in 1 .. Len(h)
      BY <1>1
    <3> QED
      BY <1>2, <3>1, <3>2
  <2> QED
    BY <2>1, <2>2, <2>3 DEF Kept
<1> QED
  BY <1>1, <1>2, <1>9, <1>10 DEF Carried, h2

\* The row goes, and with it the history.
LEMMA RowRemoved ==
    ASSUME NEW t \in Tasks, NEW row \in TaskRow, NEW row2,
           NEW h \in Seq(RunRow), NEW h2 \in Seq(RunRow), Len(h2) = Len(h),
           \A n \in 1 .. Len(h) : h2[n].status = "removed" /\ h2[n].for = h[n].for,
           ~row2.present, ~row2.enabled, row2.lease = 0
    PROVE  Carried(t, row, h, row2, h2)
<1>1. Len(h) \in Nat /\ DOMAIN h = 1 .. Len(h) /\ DOMAIN h2 = 1 .. Len(h)
  BY LenProperties
<1>2. Known(h2) = {}
  BY <1>1 DEF Known
<1>3. Current(t, row2, h2)
  BY <1>2 DEF Current, Advancing, Ahead
<1>4. Kept(t, row, h) => Kept(t, row2, h2)
  BY <1>1, <1>2 DEF Kept, InOrder, NextInLine, InPhase
<1> QED
  BY <1>1, <1>3, <1>4 DEF Carried

\* A task is scheduled: nothing is known of an earlier one of its name.
LEMMA RowScheduled ==
    ASSUME NEW t \in Tasks, NEW row \in TaskRow, NEW row2 \in TaskRow,
           NEW h \in Seq(RunRow), Current(t, row, h), ~row.present,
           row2.lease = 0, Anchor(row2) \in Anchors
    PROVE  Carried(t, row, h, row2, h)
<1>1. Len(h) \in Nat
  BY LenProperties
<1>2. Known(h) = {}
  BY DEF Current
<1>3. Current(t, row2, h)
  BY <1>2 DEF Current, Advancing, Ahead
<1>4. Every[t] # 0 => OnCadence(t, Anchor(row2))
  <2> SUFFICES ASSUME Every[t] # 0 PROVE OnCadence(t, Anchor(row2))
    OBVIOUS
  <2>1. Anchor(row2) \in Nat
    BY ScheduleAssumption
  <2> QED
    BY <2>1, SuccessorsArePeriods DEF OnCadence
<1>5. Kept(t, row, h) => Kept(t, row2, h)
  BY <1>2, <1>4 DEF Kept, InOrder, NextInLine, InPhase
<1> QED
  BY <1>1, <1>3, <1>5 DEF Carried

-----------------------------------------------------------------------------
(* The steps of any number of instances.                                   *)

\* An activation remembers the occurrence it claimed.
Remembers ==
    \A i \in Instances, t \in Tasks :
        slot[i][t].pc = "running" => Anchor(slot[i][t]) = runs[t][slot[i][t].lease].for

\* A worker that is off or starting has no activation; only a starting one has
\* missed-run updates to write; only flaky instances lose their executor.
Workers ==
    \A i \in Instances :
        /\ worker[i] \in {"off", "starting"} => \A t \in Tasks : slot[i][t].pc = "idle"
        /\ todo[i] # {} => worker[i] = "starting"
        /\ ~hasExec[i] => i \in Flaky

AllCurrent == \A t \in Tasks : Current(t, task[t], runs[t])

Core == IInv /\ AllCurrent /\ Remembers /\ Workers

TablesCarried == \A t \in Tasks : Carried(t, task[t], runs[t], task'[t], runs'[t])

\* An activation that defers was just found without its executor.
DeferralsFound ==
    \A j \in Instances, u \in Tasks : slot'[j][u].pc = "deferring" =>
        slot[j][u].pc = "deferring" \/ FindMissingExecutor(j, u)

\* No activation starts running, and a running one forgets nothing.
SlotsCarried ==
    /\ \A j \in Instances, u \in Tasks : slot'[j][u].pc = "running" =>
          /\ slot[j][u].pc = "running"
          /\ slot'[j][u].lease = slot[j][u].lease
          /\ slot'[j][u].next = slot[j][u].next
          /\ slot'[j][u].retry = slot[j][u].retry
    /\ DeferralsFound

\* What a step owes to this part of the invariant.
CoreKept == TablesCarried /\ SlotsCarried /\ Workers'

LEMMA CoreAgain ==
    ASSUME Core, IInv', AllCurrent', SlotsCarried, Workers',
           \A t \in Tasks : \A n \in 1 .. Len(runs[t]) : runs'[t][n].for = runs[t][n].for
    PROVE  Core'
<1>1. Remembers'
  <2> SUFFICES ASSUME NEW i \in Instances, NEW t \in Tasks, slot'[i][t].pc = "running"
               PROVE  Anchor(slot'[i][t]) = runs'[t][slot'[i][t].lease].for
    BY DEF Remembers
  <2>1. /\ slot[i][t].pc = "running"
        /\ slot'[i][t].lease = slot[i][t].lease
        /\ Anchor(slot'[i][t]) = Anchor(slot[i][t])
    BY DEF SlotsCarried, DeferralsFound, Anchor
  <2>2. slot[i][t].lease \in 1 .. Len(runs[t])
    BY <2>1 DEF Core, IInv, SlotsHaveRuns
  <2>3. runs'[t][slot[i][t].lease].for = runs[t][slot[i][t].lease].for
    BY <2>2
  <2> QED
    BY <2>1, <2>3 DEF Core, Remembers
<1> QED
  BY <1>1 DEF Core

LEMMA CoreByParts ==
    ASSUME Core, IInv', CoreKept
    PROVE  Core'
<1>1. AllCurrent'
  BY DEF AllCurrent, CoreKept, TablesCarried, Carried
<1>2. \A t \in Tasks : \A n \in 1 .. Len(runs[t]) : runs'[t][n].for = runs[t][n].for
  BY DEF CoreKept, TablesCarried, Carried
<1> QED
  BY <1>1, <1>2, CoreAgain DEF CoreKept

\* The occurrence a row with these columns stands for.
Points(next, retry) == IF retry # None THEN retry ELSE next

\* Columns of a row after a change of its lease or of its next run.
LEMMA LeasedCadence ==
    ASSUME NEW row \in TaskRow, NEW id \in Nat, NEW until \in Nat
    PROVE  /\ Leased(row, id, until) \in TaskRow /\ Leased(row, id, until).lease = id
           /\ Leased(row, id, until).expires = until
           /\ Leased(row, id, until).present = row.present
           /\ Leased(row, id, until).enabled = row.enabled
           /\ Leased(row, id, until).next = row.next /\ Leased(row, id, until).retry = row.retry
           /\ Anchor(Leased(row, id, until)) = Anchor(row)
<1> DEFINE r1 == [row EXCEPT !.lease = id]
           r2 == [r1 EXCEPT !.expires = until]
<1>1. /\ r1 \in TaskRow /\ r1.lease = id
      /\ r1.present = row.present /\ r1.enabled = row.enabled
      /\ r1.next = row.next /\ r1.retry = row.retry
  BY DEF TaskRow
<1> HIDE DEF r1
<1>2. /\ r2 \in TaskRow /\ r2.lease = id /\ r2.expires = until
      /\ r2.present = row.present /\ r2.enabled = row.enabled
      /\ r2.next = row.next /\ r2.retry = row.retry
  BY <1>1 DEF TaskRow, Time
<1> HIDE DEF r2
<1>3. Leased(row, id, until) = r2
  BY DEF Leased, r1, r2
<1> QED
  BY <1>2, <1>3 DEF Anchor

LEMMA MovedCadence ==
    ASSUME NEW row \in TaskRow, NEW enabled \in BOOLEAN, NEW next \in Nat,
           NEW retry \in Nat \cup {None}
    PROVE  /\ Moved(row, enabled, next, retry) \in TaskRow
           /\ Moved(row, enabled, next, retry).lease = row.lease
           /\ Moved(row, enabled, next, retry).expires = row.expires
           /\ Moved(row, enabled, next, retry).present = row.present
           /\ Moved(row, enabled, next, retry).enabled = enabled
           /\ Moved(row, enabled, next, retry).next = next
           /\ Moved(row, enabled, next, retry).retry = retry
           /\ Anchor(Moved(row, enabled, next, retry)) = Points(next, retry)
<1> DEFINE r1 == [row EXCEPT !.enabled = enabled]
           r2 == [r1 EXCEPT !.next = next]
           r3 == [r2 EXCEPT !.retry = retry]
<1>1. /\ r1 \in TaskRow /\ r1.enabled = enabled /\ r1.present = row.present
      /\ r1.lease = row.lease /\ r1.expires = row.expires
  BY DEF TaskRow
<1> HIDE DEF r1
<1>2. /\ r2 \in TaskRow /\ r2.next = next
      /\ r2.enabled = enabled /\ r2.present = row.present
      /\ r2.lease = row.lease /\ r2.expires = row.expires
  BY <1>1 DEF TaskRow, Time
<1> HIDE DEF r2
<1>3. /\ r3 \in TaskRow /\ r3.retry = retry /\ r3.next = next
      /\ r3.enabled = enabled /\ r3.present = row.present
      /\ r3.lease = row.lease /\ r3.expires = row.expires
  BY <1>2 DEF TaskRow, Time
<1> HIDE DEF r3
<1>4. Moved(row, enabled, next, retry) = r3
  BY DEF Moved, r1, r2, r3
<1> QED
  BY <1>3, <1>4 DEF Anchor, Points

LEMMA ReleasedCadence ==
    ASSUME NEW row \in TaskRow
    PROVE  /\ Release(row) \in TaskRow /\ Release(row).lease = 0
           /\ Release(row).expires = 0
           /\ Release(row).present = row.present /\ Release(row).enabled = row.enabled
           /\ Release(row).next = row.next /\ Release(row).retry = row.retry
           /\ Anchor(Release(row)) = Anchor(row)
BY LeasedCadence DEF Release

\* Tables left alone.
LEMMA HeldTables ==
    ASSUME Core, UNCHANGED <<task, runs>>
    PROVE  TablesCarried
<1> SUFFICES ASSUME NEW t \in Tasks
             PROVE  Carried(t, task[t], runs[t], task'[t], runs'[t])
  BY DEF TablesCarried
<1>1. task[t] \in TaskRow /\ runs[t] \in Seq(RunRow) /\ Current(t, task[t], runs[t])
  BY DEF Core, IInv, TypeOK, AllCurrent
<1>2. Carried(t, task[t], runs[t], task[t], runs[t])
  BY <1>1, RowHeld, AlikeItself
<1> QED
  BY <1>2

\* One row changes, and perhaps its history.
LEMMA OneTask ==
    ASSUME Core, NEW t \in Tasks, NEW row2, NEW h2,
           task' = [task EXCEPT ![t] = row2], runs' = [runs EXCEPT ![t] = h2],
           Carried(t, task[t], runs[t], row2, h2)
    PROVE  TablesCarried
<1> SUFFICES ASSUME NEW u \in Tasks
             PROVE  Carried(u, task[u], runs[u], task'[u], runs'[u])
  BY DEF TablesCarried
<1>1. task \in [Tasks -> TaskRow] /\ runs \in [Tasks -> Seq(RunRow)]
  BY DEF Core, IInv, TypeOK
<1>2. CASE u = t
  <2>1. task'[u] = row2 /\ runs'[u] = h2
    BY <1>1, <1>2
  <2> QED
    BY <1>2, <2>1
<1>3. CASE u # t
  <2>1. task'[u] = task[u] /\ runs'[u] = runs[u]
    BY <1>1, <1>3
  <2>2. task[u] \in TaskRow /\ runs[u] \in Seq(RunRow) /\ Current(u, task[u], runs[u])
    BY <1>1 DEF Core, AllCurrent
  <2>3. Carried(u, task[u], runs[u], task[u], runs[u])
    BY <2>2, RowHeld, AlikeItself
  <2> QED
    BY <2>1, <2>3
<1> QED
  BY <1>2, <1>3

\* Expired leases are given up.
LEMMA SweptTables ==
    ASSUME Core, NEW now \in Nat, AbandonExpiredLeases(now)
    PROVE  TablesCarried
<1> SUFFICES ASSUME NEW t \in Tasks
             PROVE  Carried(t, task[t], runs[t], task'[t], runs'[t])
  BY DEF TablesCarried
<1>1. task[t] \in TaskRow /\ runs[t] \in Seq(RunRow) /\ Current(t, task[t], runs[t])
  BY DEF Core, IInv, TypeOK, AllCurrent
<1>2. CASE Expired(task[t], now)
  <2>1. /\ task'[t] = Release(task[t])
        /\ runs'[t] = Settled(runs[t], task[t].lease, "abandoned")
    BY <1>2 DEF AbandonExpiredLeases, SweptTask, SweptRuns
  <2>2. task[t].lease \in 1 .. Len(runs[t])
    <3>1. Len(runs[t]) \in Nat
      BY <1>1, LenProperties
    <3> QED
      BY <1>2, <3>1 DEF Expired, Core, IInv, RunningIsLeased
  <2>3. runs[t][task[t].lease].status = "running"
    <3>1. task[t].lease \in DOMAIN runs[t]
      BY <1>1, <2>2, LenProperties
    <3> QED
      BY <3>1 DEF Core, IInv, RunningIsLeased
  <2>4. Alike(runs[t], runs'[t]) /\ runs'[t] \in Seq(RunRow)
    BY <1>1, <2>1, <2>2, <2>3, AbandonedAlike
  <2>5. /\ task'[t] \in TaskRow /\ task'[t].lease = 0
        /\ task'[t].present = task[t].present /\ task'[t].enabled = task[t].enabled
        /\ Anchor(task'[t]) = Anchor(task[t])
    BY <1>1, <2>1, ReleasedCadence
  <2> QED
    BY <1>1, <2>4, <2>5, RowHeld
<1>3. CASE ~Expired(task[t], now)
  <2>1. task'[t] = task[t] /\ runs'[t] = runs[t]
    BY <1>3 DEF AbandonExpiredLeases, SweptTask, SweptRuns
  <2>2. Carried(t, task[t], runs[t], task[t], runs[t])
    BY <1>1, RowHeld, AlikeItself
  <2> QED
    BY <2>1, <2>2
<1> QED
  BY <1>2, <1>3

\* The end of an activation.
LEMMA EndTaskShape ==
    ASSUME IInv, NEW i \in Instances, NEW t \in Tasks, NEW returns \in BOOLEAN,
           EndTask(i, t, returns)
    PROVE  /\ slot'[i][t] = IdleSlot
           /\ \A j \in Instances, u \in Tasks :
                 slot'[j][u] = slot[j][u] \/ (j = i /\ slot'[j][u] = IdleSlot)
           /\ \A j \in Instances :
                 \/ worker'[j] = worker[j]
                 \/ /\ worker[j] = "stopping" /\ worker'[j] = "off"
                    /\ \A u \in Tasks : slot'[j][u] = IdleSlot
<1> DEFINE held == IF slot[i][t].pc = "queued" THEN 0 ELSE 1
           free == IF returns THEN pool[i] + held ELSE pool[i] + held - 1
           left == [slot[i] EXCEPT ![t] = IdleSlot]
           idle == [u \in Tasks |-> IdleSlot]
           engaged == \E u \in Tasks : left[u].pc \in {"looping", "deferring", "running"}
           queued  == \E u \in Tasks : left[u].pc = "queued"
           over == ~engaged /\ (free = 0 \/ ~queued)
<1>1. /\ slot \in [Instances -> [Tasks -> Slot]]
      /\ worker \in [Instances -> {"off", "starting", "on", "stopping"}]
  BY DEF IInv, TypeOK
<1>2. /\ slot' = [slot EXCEPT ![i] = IF over THEN idle ELSE left]
      /\ worker' = IF over /\ worker[i] = "stopping"
                   THEN [worker EXCEPT ![i] = "off"] ELSE worker
  BY DEF EndTask
<1> HIDE DEF over
<1>3. \A j \in Instances : j # i => slot'[j] = slot[j] /\ worker'[j] = worker[j]
  BY <1>1, <1>2
<1>4. slot'[i] = IF over THEN idle ELSE left
  BY <1>1, <1>2
<1>5. worker'[i] = IF over /\ worker[i] = "stopping" THEN "off" ELSE worker[i]
  BY <1>1, <1>2
<1>6. slot[i] \in [Tasks -> Slot]
  BY <1>1
<1>7. \A u \in Tasks : slot'[i][u] = slot[i][u] \/ slot'[i][u] = IdleSlot
  BY <1>4, <1>6
<1>8. slot'[i][t] = IdleSlot
  BY <1>4, <1>6
<1>9. over => \A u \in Tasks : slot'[i][u] = IdleSlot
  BY <1>4
<1> QED
  BY <1>3, <1>5, <1>7, <1>8, <1>9

\* Steps that end an activation keep the workers consistent.
LEMMA EndTaskKeeps ==
    ASSUME Core, NEW i \in Instances, NEW t \in Tasks, NEW returns \in BOOLEAN,
           EndTask(i, t, returns), UNCHANGED <<todo, hasExec>>
    PROVE  SlotsCarried /\ Workers'
<1>1. /\ \A j \in Instances, u \in Tasks :
            slot'[j][u] = slot[j][u] \/ slot'[j][u] = IdleSlot
      /\ \A j \in Instances :
            \/ worker'[j] = worker[j]
            \/ /\ worker[j] = "stopping" /\ worker'[j] = "off"
               /\ \A u \in Tasks : slot'[j][u] = IdleSlot
  BY EndTaskShape DEF Core
<1>2. IdleSlot.pc = "idle"
  BY DEF IdleSlot
<1>3. SlotsCarried
  BY <1>1, <1>2 DEF SlotsCarried, DeferralsFound
<1>4. Workers'
  BY <1>1, <1>2 DEF Workers, Core
<1> QED
  BY <1>3, <1>4

\* Steps that move one activation of a working instance.
LEMMA OneSlotKeeps ==
    ASSUME Core, NEW i \in Instances, NEW t \in Tasks,
           slot[i][t].pc # "idle",
           \A j \in Instances, u \in Tasks :
               slot'[j][u] = slot[j][u] \/ (j = i /\ u = t),
           UNCHANGED <<worker, todo, hasExec>>
    PROVE  Workers'
BY DEF Workers, Core

\* Steps that leave the activations and the workers alone.
LEMMA NoSlotKeeps ==
    ASSUME Core, UNCHANGED <<slot, worker, todo, hasExec>>
    PROVE  SlotsCarried /\ Workers'
BY DEF Workers, Core, SlotsCarried, DeferralsFound

LEMMA ScheduleCarries ==
    ASSUME Core, NEW i \in Instances, NEW t \in Tasks, Schedule(i, t)
    PROVE  CoreKept
<1>1. /\ task[t] \in TaskRow /\ runs \in [Tasks -> Seq(RunRow)]
      /\ Current(t, task[t], runs[t]) /\ ~task[t].present
  BY DEF Core, IInv, TypeOK, AllCurrent, Schedule
<1>2. PICK start \in Anchors :
         task' = [task EXCEPT ![t] = [Absent EXCEPT !.present = TRUE,
                                                    !.enabled = TRUE,
                                                    !.next = start]]
  BY DEF Schedule
<1> DEFINE row2 == [Absent EXCEPT !.present = TRUE, !.enabled = TRUE, !.next = start]
<1>3. row2 \in TaskRow /\ row2.lease = 0 /\ Anchor(row2) = start
  <2>1. start \in Nat
    BY ScheduleAssumption
  <2> QED
    BY <2>1 DEF Absent, TaskRow, Time, None, Anchor
<1>4. task' = [task EXCEPT ![t] = row2] /\ runs' = [runs EXCEPT ![t] = runs[t]]
  BY <1>1, <1>2 DEF Schedule
<1> HIDE DEF row2
<1>5. Carried(t, task[t], runs[t], row2, runs[t])
  BY <1>1, <1>3, RowScheduled
<1>6. TablesCarried
  BY <1>4, <1>5, OneTask
<1>7. SlotsCarried /\ Workers'
  BY NoSlotKeeps DEF Schedule
<1> QED
  BY <1>6, <1>7 DEF CoreKept

LEMMA CancelCarries ==
    ASSUME Core, NEW i \in Instances, NEW t \in Tasks, Cancel(i, t)
    PROVE  CoreKept
<1>1. /\ task[t] \in TaskRow /\ runs \in [Tasks -> Seq(RunRow)]
      /\ Current(t, task[t], runs[t])
      /\ slot \in [Instances -> [Tasks -> Slot]]
  BY DEF Core, IInv, TypeOK, AllCurrent
<1> DEFINE row2 == [task[t] EXCEPT !.enabled = FALSE]
<1>2. /\ row2 \in TaskRow /\ row2.lease = task[t].lease /\ ~row2.enabled
      /\ row2.present = task[t].present /\ Anchor(row2) = Anchor(task[t])
  BY <1>1 DEF TaskRow, Anchor
<1>3. task' = [task EXCEPT ![t] = row2] /\ runs' = [runs EXCEPT ![t] = runs[t]]
  BY <1>1 DEF Cancel
<1> HIDE DEF row2
<1>4. Carried(t, task[t], runs[t], row2, runs[t])
  BY <1>1, <1>2, RowHeld, AlikeItself
<1>5. TablesCarried
  BY <1>3, <1>4, OneTask
<1>6. \A j \in Instances, u \in Tasks :
         /\ slot'[j][u].pc = slot[j][u].pc
         /\ slot'[j][u].lease = slot[j][u].lease
         /\ slot'[j][u].next = slot[j][u].next
         /\ slot'[j][u].retry = slot[j][u].retry
  <2> DEFINE ab == slot[i][t].abort \/ slot[i][t].pc = "running"
             s == [slot[i][t] EXCEPT !.abort = ab]
  <2>1. slot' = [slot EXCEPT ![i] = [slot[i] EXCEPT ![t] = s]]
    BY DEF Cancel
  <2>2. s.pc = slot[i][t].pc /\ s.lease = slot[i][t].lease
        /\ s.next = slot[i][t].next /\ s.retry = slot[i][t].retry
    BY <1>1 DEF Slot
  <2> HIDE DEF s
  <2>3. \A j \in Instances, u \in Tasks :
           slot'[j][u] = slot[j][u] \/ (j = i /\ u = t /\ slot'[j][u] = s)
    BY <1>1, <2>1
  <2> QED
    BY <2>2, <2>3
<1>7. SlotsCarried
  BY <1>6 DEF SlotsCarried, DeferralsFound
<1>8. Workers'
  BY <1>6 DEF Workers, Core, Cancel
<1> QED
  BY <1>5, <1>7, <1>8 DEF CoreKept

LEMMA RemoveCarries ==
    ASSUME Core, NEW i \in Instances, NEW t \in Tasks, Remove(i, t)
    PROVE  CoreKept
<1> DEFINE h == runs[t]
           gone == [n \in DOMAIN h |-> [h[n] EXCEPT !.status = "removed"]]
<1>1. /\ task[t] \in TaskRow /\ h \in Seq(RunRow)
      /\ Len(h) \in Nat /\ DOMAIN h = 1 .. Len(h)
  BY LenProperties DEF Core, IInv, TypeOK
<1>2. \A n \in 1 .. Len(h) : /\ gone[n] \in RunRow
                             /\ gone[n].status = "removed"
                             /\ gone[n].for = h[n].for
  <2> TAKE n \in 1 .. Len(h)
  <2>1. h[n] \in RunRow
    BY <1>1, ElementOfSeq
  <2>2. gone[n] = [h[n] EXCEPT !.status = "removed"]
    BY <1>1
  <2> HIDE DEF gone, h
  <2> QED
    BY <2>1, <2>2 DEF RunRow, RunStatus
<1>3. gone \in Seq(RunRow) /\ Len(gone) = Len(h)
  <2>1. gone \in [1 .. Len(h) -> RunRow]
    BY <1>1, <1>2
  <2>2. DOMAIN gone = 1 .. Len(h)
    BY <1>1
  <2> HIDE DEF gone
  <2>3. gone \in Seq(RunRow)
    BY <1>1, <2>1, SeqDef
  <2> QED
    BY <1>1, <2>2, <2>3, LenProperties
<1>4. task' = [task EXCEPT ![t] = Absent] /\ runs' = [runs EXCEPT ![t] = gone]
  BY DEF Remove
<1> HIDE DEF h, gone
<1>5. ~Absent.present /\ ~Absent.enabled /\ Absent.lease = 0
  BY DEF Absent
<1>6. Carried(t, task[t], h, Absent, gone)
  BY <1>1, <1>2, <1>3, <1>5, RowRemoved
<1>7. TablesCarried
  BY <1>4, <1>6, OneTask DEF h
<1>8. SlotsCarried /\ Workers'
  BY NoSlotKeeps DEF Remove
<1> QED
  BY <1>7, <1>8 DEF CoreKept

LEMMA RegistrationCarries ==
    ASSUME Core, NEW i \in Instances, UnregisterExecutor(i) \/ RegisterExecutor(i)
    PROVE  CoreKept
<1>1. TablesCarried
  BY HeldTables DEF UnregisterExecutor, RegisterExecutor
<1>2. SlotsCarried
  BY DEF SlotsCarried, DeferralsFound, UnregisterExecutor, RegisterExecutor
<1>3. \A j \in Instances : ~hasExec'[j] => j \in Flaky
  <2>1. CASE UnregisterExecutor(i)
    BY <2>1 DEF UnregisterExecutor, Workers, Core, IInv, TypeOK
  <2>2. CASE RegisterExecutor(i)
    BY <2>2 DEF RegisterExecutor, Workers, Core, IInv, TypeOK
  <2> QED
    BY <2>1, <2>2
<1>4. Workers'
  BY <1>3 DEF Workers, Core, UnregisterExecutor, RegisterExecutor
<1> QED
  BY <1>1, <1>2, <1>4 DEF CoreKept

LEMMA StartWorkerCarries ==
    ASSUME Core, NEW i \in Instances, StartWorker(i)
    PROVE  CoreKept
<1>1. clock \in Nat /\ worker[i] = "off" /\ AbandonExpiredLeases(clock)
  BY DEF Core, IInv, TypeOK, Time, StartWorker
<1>2. TablesCarried
  BY <1>1, SweptTables
<1>3. SlotsCarried
  BY DEF SlotsCarried, DeferralsFound, StartWorker
<1>4. PICK missed : /\ todo' = [todo EXCEPT ![i] = missed]
                    /\ worker' = [worker EXCEPT ![i] = IF missed = {} THEN "on" ELSE "starting"]
  BY DEF StartWorker
<1>5. \A j \in Instances :
         /\ j # i => todo'[j] = todo[j] /\ worker'[j] = worker[j]
         /\ j = i => (todo'[j] # {} => worker'[j] = "starting")
  BY <1>4 DEF Core, IInv, TypeOK
<1>6. Workers'
  <2> SUFFICES ASSUME NEW j \in Instances
               PROVE  /\ worker'[j] \in {"off", "starting"} =>
                            \A t \in Tasks : slot'[j][t].pc = "idle"
                      /\ todo'[j] # {} => worker'[j] = "starting"
                      /\ ~hasExec'[j] => j \in Flaky
    BY DEF Workers
  <2>1. UNCHANGED <<slot, hasExec>>
    BY DEF StartWorker
  <2>2. CASE j = i
    BY <1>1, <1>5, <2>1, <2>2 DEF Workers, Core
  <2>3. CASE j # i
    BY <1>5, <2>1, <2>3 DEF Workers, Core
  <2> QED
    BY <2>2, <2>3
<1> QED
  BY <1>2, <1>3, <1>6 DEF CoreKept

LEMMA StartFailsCarries ==
    ASSUME Core, NEW i \in Instances, NEW m \in todo[i], StartFails(i, m)
    PROVE  CoreKept
<1>1. TablesCarried
  BY HeldTables DEF StartFails
<1>2. SlotsCarried
  BY DEF SlotsCarried, DeferralsFound, StartFails
<1>3. \A j \in Instances :
         /\ j # i => todo'[j] = todo[j] /\ worker'[j] = worker[j]
         /\ j = i => todo'[j] = {}
  BY DEF Core, IInv, TypeOK, StartFails
<1>4. Workers'
  BY <1>3 DEF Workers, Core, StartFails
<1> QED
  BY <1>1, <1>2, <1>4 DEF CoreKept

LEMMA TickCarries ==
    ASSUME Core, NEW i \in Instances, Tick(i)
    PROVE  CoreKept
<1> DEFINE due == {t \in Tasks : Listed(task[t], clock)}
           loops(t) == IF Policy[t] = "catch-up" THEN MaxCatchUpRuns ELSE 1
           queue == [t \in Tasks |->
              IF t \in due
              THEN [IdleSlot EXCEPT !.pc = "queued", !.at = clock, !.left = loops(t)]
              ELSE IdleSlot]
<1>1. clock \in Nat /\ worker[i] = "on" /\ AbandonExpiredLeases(clock)
  BY DEF Core, IInv, TypeOK, Time, Tick
<1>2. TablesCarried
  BY <1>1, SweptTables
<1>3. slot' = [slot EXCEPT ![i] = queue]
  BY DEF Tick
<1>4. \A t \in Tasks : queue[t].pc \notin {"running", "deferring"}
  BY DEF IdleSlot
<1> HIDE DEF queue
<1>5. \A j \in Instances : /\ j # i => slot'[j] = slot[j]
                           /\ j = i => \A t \in Tasks : slot'[j][t].pc \notin {"running", "deferring"}
  BY <1>3, <1>4 DEF Core, IInv, TypeOK
<1>6. SlotsCarried
  BY <1>5 DEF SlotsCarried, DeferralsFound
<1>7. Workers'
  <2> SUFFICES ASSUME NEW j \in Instances
               PROVE  /\ worker[j] \in {"off", "starting"} =>
                            \A t \in Tasks : slot'[j][t].pc = "idle"
                      /\ todo[j] # {} => worker[j] = "starting"
                      /\ ~hasExec[j] => j \in Flaky
    BY DEF Workers, Tick
  <2>1. CASE j = i
    BY <1>1, <2>1 DEF Workers, Core
  <2>2. CASE j # i
    BY <1>5, <2>2 DEF Workers, Core
  <2> QED
    BY <2>1, <2>2
<1> QED
  BY <1>2, <1>6, <1>7 DEF CoreKept

LEMMA StopWorkerCarries ==
    ASSUME Core, NEW i \in Instances, StopWorker(i)
    PROVE  CoreKept
<1> DEFINE halted == [t \in Tasks |-> IF slot[i][t].pc = "running"
                                      THEN [slot[i][t] EXCEPT !.abort = TRUE]
                                      ELSE IdleSlot]
           idle == \A t \in Tasks : halted[t].pc = "idle"
<1>1. TablesCarried
  BY HeldTables DEF StopWorker
<1>2. \A t \in Tasks :
         \/ halted[t].pc = "idle"
         \/ /\ slot[i][t].pc = "running" /\ halted[t].pc = "running"
            /\ halted[t].lease = slot[i][t].lease
            /\ halted[t].next = slot[i][t].next /\ halted[t].retry = slot[i][t].retry
  <2> TAKE t \in Tasks
  <2>1. slot[i][t] \in Slot
    BY DEF Core, IInv, TypeOK
  <2> DEFINE s == [slot[i][t] EXCEPT !.abort = TRUE]
  <2>2. /\ s.lease = slot[i][t].lease /\ s.pc = slot[i][t].pc
        /\ s.next = slot[i][t].next /\ s.retry = slot[i][t].retry
    BY <2>1 DEF Slot
  <2>3. halted[t] = IF slot[i][t].pc = "running" THEN s ELSE IdleSlot
    OBVIOUS
  <2> HIDE DEF s, halted
  <2> QED
    BY <2>2, <2>3 DEF IdleSlot
<1>3. /\ slot' = [slot EXCEPT ![i] = halted]
      /\ worker' = [worker EXCEPT ![i] = IF idle THEN "off" ELSE "stopping"]
  BY DEF StopWorker
<1> HIDE DEF halted
<1>4. \A j \in Instances :
         /\ j # i => slot'[j] = slot[j] /\ worker'[j] = worker[j]
         /\ j = i => slot'[j] = halted /\ worker'[j] = IF idle THEN "off" ELSE "stopping"
  BY <1>3 DEF Core, IInv, TypeOK
<1>5. SlotsCarried
  <2> SUFFICES ASSUME NEW j \in Instances, NEW u \in Tasks
               PROVE  \/ slot'[j][u] = slot[j][u] \/ slot'[j][u].pc = "idle"
                      \/ /\ slot[j][u].pc = "running" /\ slot'[j][u].pc = "running"
                         /\ slot'[j][u].lease = slot[j][u].lease
                         /\ slot'[j][u].next = slot[j][u].next
                         /\ slot'[j][u].retry = slot[j][u].retry
    BY DEF SlotsCarried, DeferralsFound
  <2>1. CASE j = i
    BY <1>2, <1>4, <2>1
  <2>2. CASE j # i
    BY <1>4, <2>2
  <2> QED
    BY <2>1, <2>2
<1>6. Workers'
  <2> SUFFICES ASSUME NEW j \in Instances
               PROVE  /\ worker'[j] \in {"off", "starting"} =>
                            \A t \in Tasks : slot'[j][t].pc = "idle"
                      /\ todo[j] # {} => worker'[j] = "starting"
                      /\ ~hasExec[j] => j \in Flaky
    BY DEF Workers, StopWorker
  <2>1. CASE j = i
    <3>1. worker[j] = "on" /\ worker'[j] \in {"off", "stopping"}
      BY <1>4, <2>1 DEF StopWorker
    <3>2. todo[j] = {} /\ (~hasExec[j] => j \in Flaky)
      BY <3>1 DEF Workers, Core
    <3>3. worker'[j] = "off" => \A t \in Tasks : slot'[j][t].pc = "idle"
      BY <1>4, <2>1
    <3> QED
      BY <3>1, <3>2, <3>3
  <2>2. CASE j # i
    BY <1>4, <2>2 DEF Workers, Core
  <2> QED
    BY <2>1, <2>2
<1> QED
  BY <1>1, <1>5, <1>6 DEF CoreKept

LEMMA CrashCarries ==
    ASSUME Core, NEW i \in Instances, Crash(i)
    PROVE  CoreKept
<1>1. TablesCarried
  BY HeldTables DEF Crash
<1>2. \A j \in Instances :
         /\ j # i => slot'[j] = slot[j] /\ worker'[j] = worker[j] /\ todo'[j] = todo[j]
         /\ j = i => /\ todo'[j] = {}
                     /\ \A t \in Tasks : slot'[j][t].pc = "idle"
  BY DEF Core, IInv, TypeOK, Crash, IdleSlot
<1>3. SlotsCarried
  <2> SUFFICES ASSUME NEW j \in Instances, NEW u \in Tasks
               PROVE  slot'[j][u] = slot[j][u] \/ slot'[j][u].pc = "idle"
    BY DEF SlotsCarried, DeferralsFound
  <2> QED
    BY <1>2
<1>4. Workers'
  BY <1>2 DEF Workers, Core, Crash
<1> QED
  BY <1>1, <1>3, <1>4 DEF CoreKept

LEMMA ClockCarries ==
    ASSUME Core, AdvanceClock \/ UNCHANGED vars
    PROVE  CoreKept
<1>1. TablesCarried
  BY HeldTables DEF AdvanceClock, vars
<1>2. SlotsCarried /\ Workers'
  BY NoSlotKeeps DEF AdvanceClock, vars
<1> QED
  BY <1>1, <1>2 DEF CoreKept

\* Turns that leave the tables alone.
LEMMA QuietTurnCarries ==
    ASSUME Core, NEW i \in Instances, NEW t \in Tasks, Pass(i, t) \/ LateSettlement(i, t)
    PROVE  CoreKept
<1>1. TablesCarried
  BY HeldTables DEF Pass, LateSettlement
<1>2. SlotsCarried /\ Workers'
  BY EndTaskKeeps DEF Pass, LateSettlement
<1> QED
  BY <1>1, <1>2 DEF CoreKept

LEMMA FindMissingCarries ==
    ASSUME Core, NEW i \in Instances, NEW t \in Tasks, FindMissingExecutor(i, t)
    PROVE  CoreKept
<1>1. TablesCarried
  BY HeldTables DEF FindMissingExecutor
<1> DEFINE s == [slot[i][t] EXCEPT !.pc = "deferring", !.retry = Anchor(task[t])]
<1>2. slot \in [Instances -> [Tasks -> Slot]] /\ slot[i][t] \in Slot
  BY DEF Core, IInv, TypeOK
<1>3. s.pc = "deferring"
  BY <1>2 DEF Slot
<1>4. slot' = [slot EXCEPT ![i] = [slot[i] EXCEPT ![t] = s]]
  BY DEF FindMissingExecutor, Enter
<1> HIDE DEF s
<1>5. \A j \in Instances, u \in Tasks :
         slot'[j][u] = slot[j][u] \/ (j = i /\ u = t /\ slot'[j][u] = s)
  BY <1>2, <1>4
<1>6. SlotsCarried
  BY <1>3, <1>5 DEF SlotsCarried, DeferralsFound
<1>7. slot[i][t].pc # "idle"
  BY DEF FindMissingExecutor, Ready
<1>8. Workers'
  BY <1>5, <1>7, OneSlotKeeps DEF FindMissingExecutor
<1> QED
  BY <1>1, <1>6, <1>8 DEF CoreKept

LEMMA HeartbeatCarries ==
    ASSUME Core, NEW i \in Instances, NEW t \in Tasks, Heartbeat(i, t)
    PROVE  CoreKept
<1>1. /\ slot \in [Instances -> [Tasks -> Slot]] /\ task[t] \in TaskRow
      /\ runs \in [Tasks -> Seq(RunRow)] /\ Current(t, task[t], runs[t])
      /\ clock + Lease \in Nat /\ clock + Beat \in Nat
  BY TimingAssumption DEF Core, IInv, TypeOK, Time, AllCurrent
<1> DEFINE new == IF Owns(i, t) THEN [slot[i][t] EXCEPT !.beat = clock + Beat]
                  ELSE [slot[i][t] EXCEPT !.abort = TRUE]
<1>2. slot' = [slot EXCEPT ![i] = [slot[i] EXCEPT ![t] = new]]
  BY DEF Heartbeat
<1>3. /\ new.lease = slot[i][t].lease /\ slot[i][t].pc = "running"
      /\ new.pc = "running" /\ new.next = slot[i][t].next /\ new.retry = slot[i][t].retry
  <2>1. slot[i][t] \in Slot
    BY <1>1
  <2> QED
    BY <1>1, <2>1 DEF Slot, Time, Heartbeat, Running
<1> HIDE DEF new
<1>4. \A j \in Instances, u \in Tasks :
         slot'[j][u] = slot[j][u] \/ (j = i /\ u = t /\ slot'[j][u] = new)
  BY <1>1, <1>2
<1>5. SlotsCarried
  BY <1>3, <1>4 DEF SlotsCarried, DeferralsFound
<1>6. Workers'
  BY <1>3, <1>4, OneSlotKeeps DEF Heartbeat
<1>7. TablesCarried
  <2>1. CASE Owns(i, t)
    <3> DEFINE until == clock + Lease
               id == task[t].lease
               row2 == Leased(task[t], id, until)
    <3>1. task' = [task EXCEPT ![t] = row2] /\ runs' = [runs EXCEPT ![t] = runs[t]]
      BY <1>1, <2>1 DEF Heartbeat
    <3>2. task[t].lease \in Nat
      BY <1>1 DEF TaskRow
    <3>3. /\ row2 \in TaskRow /\ row2.lease = id
          /\ row2.present = task[t].present /\ row2.enabled = task[t].enabled
          /\ Anchor(row2) = Anchor(task[t])
      <4> DEFINE row == task[t]
      <4>1. until \in Nat /\ id \in Nat /\ row \in TaskRow
        BY <1>1, <3>2
      <4> HIDE DEF until, id, row
      <4>2. /\ Leased(row, id, until) \in TaskRow
            /\ Leased(row, id, until).lease = id
            /\ Leased(row, id, until).present = row.present
            /\ Leased(row, id, until).enabled = row.enabled
            /\ Anchor(Leased(row, id, until)) = Anchor(row)
        BY ONLY <4>1, LeasedCadence
      <4> QED
        BY <4>2 DEF row
    <3> HIDE DEF row2
    <3>4. Carried(t, task[t], runs[t], row2, runs[t])
      BY <1>1, <3>3, RowHeld, AlikeItself
    <3> QED
      BY <3>1, <3>4, OneTask
  <2>2. CASE ~Owns(i, t)
    BY <2>2, HeldTables DEF Heartbeat
  <2> QED
    BY <2>1, <2>2
<1> QED
  BY <1>5, <1>6, <1>7 DEF CoreKept

\* Where a recurring task goes once an occurrence is settled.
LEMMA SettledNext ==
    ASSUME NEW t \in Tasks, NEW next \in Nat, NEW for \in Nat, NEW completed \in Nat
    PROVE  LET to == SuccessNextRun(t, next, for, completed) IN
           /\ to.enabled \in BOOLEAN /\ to.next \in Nat
           /\ to.enabled => Every[t] # 0
           /\ Every[t] # 0 => /\ to.next > for
                              /\ Periods(t, for, to.next)
                              /\ Policy[t] = "catch-up" => to.next = for + Every[t]
<1>1. /\ SuccessNextRun(t, next, for, completed).enabled \in BOOLEAN
      /\ SuccessNextRun(t, next, for, completed).next \in Nat
  BY SuccessNextRunType
<1>2. CASE Every[t] = 0
  BY <1>1, <1>2 DEF SuccessNextRun
<1>3. CASE Every[t] # 0
  <2>1. /\ Periods(t, for, NextScheduleOccurrence(t, for))
        /\ Periods(t, for, NextFutureOccurrence(t, for, completed))
        /\ NextScheduleOccurrence(t, for) > for
    BY <1>3, SuccessorsArePeriods
  <2>2. NextFutureOccurrence(t, for, completed) > for
    BY <1>3, NextFutureIsLater
  <2>3. NextScheduleOccurrence(t, for) = for + Every[t]
    BY DEF NextScheduleOccurrence
  <2> QED
    BY <1>1, <1>3, <2>1, <2>2, <2>3 DEF SuccessNextRun
<1> QED
  BY <1>2, <1>3

\* The outcome of a run leaves the row where it asks.
Settles(t, run, status, enabled, anchor) ==
    LET good == \/ status = "success"
                \/ status = "error" /\ run.attempt >= MaxAttempts
    IN  /\ ~good => anchor = run.for
        /\ good /\ enabled => Every[t] # 0
        /\ good /\ Every[t] # 0 =>
              /\ anchor > run.for
              /\ Periods(t, run.for, anchor)
              /\ Policy[t] = "catch-up" => anchor = run.for + Every[t]

LEMMA CompletionCarries ==
    ASSUME Core, NEW t \in Tasks, NEW run \in 1 .. Len(runs[t]),
           task[t].lease = run,
           NEW status \in RunStatus, status # "running", status # "removed",
           NEW enabled \in BOOLEAN, NEW next \in Nat, NEW retry \in Nat \cup {None},
           CompleteClaim(t, run, status, enabled, next, retry),
           Settles(t, runs[t][run], status, enabled, Points(next, retry))
    PROVE  TablesCarried
<1> DEFINE h == runs[t]
           row == task[t]
           both == row.enabled /\ enabled
           row2 == Moved(Release(row), both, next, retry)
           h2 == Settled(h, run, status)
           anchor == Points(next, retry)
           good == \/ status = "success"
                   \/ status = "error" /\ h[run].attempt >= MaxAttempts
<1>1. row \in TaskRow /\ h \in Seq(RunRow) /\ Current(t, row, h)
  BY DEF Core, IInv, TypeOK, AllCurrent
<1>2. h[run].status = "running"
  <2>1. run \in DOMAIN runs[t]
    BY <1>1, LenProperties
  <2> QED
    BY <2>1 DEF Core, IInv, RunningIsLeased
<1>3. task' = [task EXCEPT ![t] = row2] /\ runs' = [runs EXCEPT ![t] = h2]
  BY DEF CompleteClaim
<1>4. /\ row2 \in TaskRow /\ row2.lease = 0
      /\ row2.present = row.present /\ row2.enabled = both
      /\ Anchor(row2) = anchor
  <2>1. both \in BOOLEAN
    OBVIOUS
  <2> DEFINE rel == Release(row)
  <2>2. rel \in TaskRow /\ rel.lease = 0 /\ rel.present = row.present
    BY <1>1, ReleasedCadence
  <2> HIDE DEF both, row, rel
  <2>3. /\ Moved(rel, both, next, retry) \in TaskRow
        /\ Moved(rel, both, next, retry).lease = rel.lease
        /\ Moved(rel, both, next, retry).present = rel.present
        /\ Moved(rel, both, next, retry).enabled = both
        /\ Anchor(Moved(rel, both, next, retry)) = Points(next, retry)
    <3>1. rel \in TaskRow /\ both \in BOOLEAN /\ next \in Nat /\ retry \in Nat \cup {None}
      BY <2>1, <2>2
    <3> QED
      BY ONLY <3>1, MovedCadence, Z3
  <2> QED
    BY <2>2, <2>3 DEF rel
<1>5. /\ h2[run].status = status
      /\ h2[run].attempt = h[run].attempt
      /\ h2[run].for = h[run].for
  <2>1. run \in 1 .. Len(h)
    OBVIOUS
  <2> HIDE DEF h
  <2> QED
    BY <1>1, <2>1, SettledRow
<1> HIDE DEF row2, h2
<1>6. SettledForGood(h2[run]) <=> good
  BY <1>5 DEF SettledForGood
<1>7. Follows(t, row2, h2[run])
  BY <1>4, <1>5, <1>6 DEF Follows, Settles
<1>8. Carried(t, row, h, row2, h2)
  <2>1. run \in 1 .. Len(h) /\ row.lease = run
    OBVIOUS
  <2>2. row2.enabled => row.enabled
    BY <1>4
  <2>3. Follows(t, row2, Settled(h, run, status)[run])
    BY <1>7 DEF h2
  <2> HIDE DEF h, row, both
  <2>4. Carried(t, row, h, row2, Settled(h, run, status))
    BY <1>1, <1>2, <1>4, <2>1, <2>2, <2>3, RowCompleted
  <2> QED
    BY <2>4 DEF h2
<1> QED
  BY <1>3, <1>8, OneTask

LEMMA FinishCancelledCarries ==
    ASSUME Core, NEW i \in Instances, NEW t \in Tasks, FinishCancelled(i, t)
    PROVE  CoreKept
<1> DEFINE s == slot[i][t]
<1>1. /\ s \in Slot /\ s.lease \in 1 .. Len(runs[t]) /\ task[t].lease = s.lease
  BY OwnedRun DEF FinishCancelled, Core
<1>2. SlotsCarried /\ Workers'
  BY EndTaskKeeps DEF FinishCancelled
<1>3. TablesCarried
  <2>1. s.next \in Nat /\ s.retry \in Nat \cup {None}
    BY <1>1 DEF Slot, Time
  <2>2. CompleteClaim(t, s.lease, "cancelled", TRUE, s.next, s.retry)
    BY DEF FinishCancelled
  <2>3. "cancelled" \in RunStatus /\ TRUE \in BOOLEAN
    BY DEF RunStatus
  <2>4. Points(s.next, s.retry) = runs[t][s.lease].for
    BY DEF FinishCancelled, Running, Core, Remembers, Anchor, Points
  <2> HIDE DEF s
  <2>5. Settles(t, runs[t][s.lease], "cancelled", TRUE, Points(s.next, s.retry))
    BY <2>4 DEF Settles
  <2> QED
    BY <1>1, <2>1, <2>2, <2>3, <2>5, CompletionCarries
<1> QED
  BY <1>2, <1>3 DEF CoreKept

LEMMA FinishRetryCarries ==
    ASSUME Core, NEW i \in Instances, NEW t \in Tasks, FinishRetry(i, t)
    PROVE  CoreKept
<1> DEFINE s == slot[i][t]
           run == runs[t][s.lease]
           next == clock + Backoff[run.attempt]
<1>1. /\ s \in Slot /\ s.lease \in 1 .. Len(runs[t]) /\ task[t].lease = s.lease
      /\ run \in RunRow
  BY OwnedRun DEF FinishRetry, Core
<1>2. SlotsCarried /\ Workers'
  BY EndTaskKeeps DEF FinishRetry
<1>3. TablesCarried
  <2>1. run.for \in Nat /\ run.attempt \in 1 .. MaxAttempts /\ run.attempt < MaxAttempts
    <3>1. run.attempt < MaxAttempts
      BY DEF FinishRetry
    <3> HIDE DEF run
    <3> QED
      BY <1>1, <3>1, TimingAssumption DEF RunRow, Time
  <2>2. next \in Nat
    BY <2>1, TimingAssumption, SMTT(40) DEF Core, IInv, TypeOK, Time
  <2>3. CompleteClaim(t, s.lease, "error", TRUE, next, run.for)
    BY DEF FinishRetry
  <2>4. "error" \in RunStatus /\ TRUE \in BOOLEAN
    BY DEF RunStatus
  <2>5. Points(next, run.for) = run.for
    <3> HIDE DEF run, next
    <3> QED
      BY <2>1 DEF None, Points
  <2>6. ~(run.attempt >= MaxAttempts)
    <3> HIDE DEF run
    <3> QED
      BY <2>1, TimingAssumption
  <2> HIDE DEF next
  <2>7. Settles(t, run, "error", TRUE, Points(next, run.for))
    <3> HIDE DEF run
    <3> QED
      BY <2>5, <2>6 DEF Settles
  <2>8. run = runs[t][s.lease]
    OBVIOUS
  <2> HIDE DEF run, s
  <2> QED
    BY <1>1, <2>1, <2>2, <2>3, <2>4, <2>7, <2>8, CompletionCarries
<1> QED
  BY <1>2, <1>3 DEF CoreKept

\* An outcome that settles the occurrence.
LEMMA GoodCompletionCarries ==
    ASSUME Core, NEW i \in Instances, NEW t \in Tasks, Running(i, t), Owns(i, t),
           NEW status \in {"success", "error"},
           status = "error" => runs[t][slot[i][t].lease].attempt >= MaxAttempts,
           LET s == slot[i][t]
               to == SuccessNextRun(t, s.next, runs[t][s.lease].for, clock)
           IN  CompleteClaim(t, s.lease, status, to.enabled, to.next, None)
    PROVE  TablesCarried
<1> DEFINE s == slot[i][t]
           run == runs[t][s.lease]
           to == SuccessNextRun(t, s.next, run.for, clock)
<1>1. /\ s \in Slot /\ s.lease \in 1 .. Len(runs[t]) /\ task[t].lease = s.lease
      /\ run \in RunRow
  BY OwnedRun DEF Core
<1>2. run.for \in Nat /\ s.next \in Nat /\ clock \in Nat
  BY <1>1 DEF RunRow, Slot, Time, Core, IInv, TypeOK
<1>3. /\ to.enabled \in BOOLEAN /\ to.next \in Nat
      /\ to.enabled => Every[t] # 0
      /\ Every[t] # 0 => /\ to.next > run.for
                         /\ Periods(t, run.for, to.next)
                         /\ Policy[t] = "catch-up" => to.next = run.for + Every[t]
  BY <1>2, SettledNext
<1>4. CompleteClaim(t, s.lease, status, to.enabled, to.next, None)
  OBVIOUS
<1>5. status \in RunStatus /\ status # "running" /\ status # "removed" /\ None \in Nat \cup {None}
  BY DEF RunStatus
<1>6. status = "success" \/ (status = "error" /\ run.attempt >= MaxAttempts)
  OBVIOUS
<1>7. Points(to.next, None) = to.next
  BY DEF Points
<1>8. run = runs[t][s.lease]
  OBVIOUS
<1> HIDE DEF to, run, s
<1>9. Settles(t, run, status, to.enabled, Points(to.next, None))
  BY <1>3, <1>6, <1>7 DEF Settles
<1> QED
  BY <1>1, <1>3, <1>4, <1>5, <1>8, <1>9, CompletionCarries

LEMMA FinishExhaustedCarries ==
    ASSUME Core, NEW i \in Instances, NEW t \in Tasks, FinishExhausted(i, t)
    PROVE  CoreKept
<1>1. SlotsCarried /\ Workers'
  BY EndTaskKeeps DEF FinishExhausted
<1>2. TablesCarried
  BY GoodCompletionCarries DEF FinishExhausted
<1> QED
  BY <1>1, <1>2 DEF CoreKept

LEMMA FinishSuccessCarries ==
    ASSUME Core, NEW i \in Instances, NEW t \in Tasks, FinishSuccess(i, t)
    PROVE  CoreKept
<1> DEFINE s == slot[i][t]
           to == SuccessNextRun(t, s.next, runs[t][s.lease].for, clock)
           again == Policy[t] = "catch-up" /\ to.next <= s.at /\ s.left > 1
           l3 == [IdleSlot EXCEPT !.pc = "looping", !.at = s.at, !.left = s.left - 1]
<1>1. TablesCarried
  BY GoodCompletionCarries DEF FinishSuccess
<1>2. CASE ~again
  <2>1. EndTask(i, t, TRUE)
    BY <1>2 DEF FinishSuccess
  <2>2. SlotsCarried /\ Workers'
    BY <2>1, EndTaskKeeps DEF FinishSuccess
  <2> QED
    BY <1>1, <2>2 DEF CoreKept
<1>3. CASE again
  <2>1. Enter(i, t, l3) /\ UNCHANGED <<worker, todo, hasExec>>
    BY <1>3 DEF FinishSuccess
  <2>2. l3.pc = "looping"
    BY DEF IdleSlot
  <2> HIDE DEF l3
  <2>3. \A j \in Instances, u \in Tasks :
           slot'[j][u] = slot[j][u] \/ (j = i /\ u = t /\ slot'[j][u] = l3)
    BY <2>1 DEF Enter, Core, IInv, TypeOK
  <2>4. SlotsCarried
    BY <2>2, <2>3 DEF SlotsCarried, DeferralsFound
  <2>5. slot[i][t].pc # "idle"
    BY DEF FinishSuccess, Running
  <2>6. Workers'
    BY <2>1, <2>3, <2>5, OneSlotKeeps
  <2> QED
    BY <1>1, <2>4, <2>6 DEF CoreKept
<1> QED
  BY <1>2, <1>3

\* What a claim changes.
LEMMA ClaimShape ==
    ASSUME IInv, NEW i \in Instances, NEW t \in Tasks, Claim(i, t)
    PROVE  /\ slot'[i][t].pc = "running" /\ slot'[i][t].lease = Len(runs[t]) + 1
           /\ slot'[i][t].next = task[t].next /\ slot'[i][t].retry = task[t].retry
           /\ slot'[i][t].abort = slot[i][t].abort
           /\ slot'[i][t].beat = clock + Beat
           /\ \A j \in Instances, u \in Tasks :
                 slot'[j][u] = slot[j][u] \/ (j = i /\ u = t)
           /\ task'[t] \in TaskRow /\ task'[t].lease = Len(runs[t]) + 1
           /\ task'[t].expires = slot[i][t].at + Lease
           /\ task'[t].present = task[t].present /\ task'[t].enabled = task[t].enabled
           /\ task'[t].next = task[t].next /\ task'[t].retry = task[t].retry
           /\ Anchor(task'[t]) = Anchor(task[t])
           /\ \A u \in Tasks : u # t => task'[u] = task[u] /\ runs'[u] = runs[u]
<1> DEFINE row == task[t]
           id == Len(runs[t]) + 1
           until == slot[i][t].at + Lease
           s2 == [slot[i][t] EXCEPT !.pc = "running", !.lease = id]
           s4 == [s2 EXCEPT !.next = row.next, !.retry = row.retry]
           s5 == [s4 EXCEPT !.beat = clock + Beat]
<1>1. /\ slot \in [Instances -> [Tasks -> Slot]] /\ slot[i][t] \in Slot
      /\ task \in [Tasks -> TaskRow] /\ row \in TaskRow
      /\ runs \in [Tasks -> Seq(RunRow)] /\ Len(runs[t]) \in Nat
      /\ clock \in Nat
  BY LenProperties DEF IInv, TypeOK, Time
<1>2. id \in Nat /\ until \in Nat /\ clock + Beat \in Nat
  <2>1. slot[i][t].at \in Nat
    BY <1>1 DEF Slot, Time
  <2> QED
    BY <1>1, <2>1, TimingAssumption
<1>3. /\ slot' = [slot EXCEPT ![i] = [slot[i] EXCEPT ![t] = s5]]
      /\ task' = [task EXCEPT ![t] = Leased(row, id, until)]
      /\ \E h2 : runs' = [runs EXCEPT ![t] = h2]
  BY DEF Claim, Enter
<1> HIDE DEF id, until
<1>4. /\ s5.pc = "running" /\ s5.lease = id
      /\ s5.next = row.next /\ s5.retry = row.retry
      /\ s5.abort = slot[i][t].abort /\ s5.beat = clock + Beat
  <2>1. s2.pc = "running" /\ s2.lease = id /\ s2.abort = slot[i][t].abort
        /\ DOMAIN s2 = DOMAIN slot[i][t]
    BY <1>1 DEF Slot
  <2>2. DOMAIN slot[i][t] = {"pc", "at", "left", "lease", "next", "retry", "abort", "beat"}
    BY <1>1 DEF Slot
  <2> HIDE DEF s2, row
  <2>3. /\ s4.pc = "running" /\ s4.lease = id /\ s4.abort = slot[i][t].abort
        /\ s4.next = row.next /\ s4.retry = row.retry
        /\ DOMAIN s4 = DOMAIN s2
    BY <2>1, <2>2
  <2> HIDE DEF s4
  <2> QED
    BY <2>1, <2>2, <2>3
<1> HIDE DEF s5
<1>5. /\ slot'[i][t] = s5
      /\ \A j \in Instances, u \in Tasks : slot'[j][u] = slot[j][u] \/ (j = i /\ u = t)
  BY <1>1, <1>3
<1>6. /\ task'[t] = Leased(row, id, until)
      /\ \A u \in Tasks : u # t => task'[u] = task[u] /\ runs'[u] = runs[u]
  BY <1>1, <1>3
<1> HIDE DEF row
<1>7. /\ task'[t] \in TaskRow /\ task'[t].lease = id /\ task'[t].expires = until
      /\ task'[t].present = row.present /\ task'[t].enabled = row.enabled
      /\ task'[t].next = row.next /\ task'[t].retry = row.retry
      /\ Anchor(task'[t]) = Anchor(row)
  <2>1. row \in TaskRow /\ id \in Nat /\ until \in Nat
    BY <1>1, <1>2
  <2>2. /\ Leased(row, id, until) \in TaskRow /\ Leased(row, id, until).lease = id
        /\ Leased(row, id, until).expires = until
        /\ Leased(row, id, until).present = row.present
        /\ Leased(row, id, until).enabled = row.enabled
        /\ Leased(row, id, until).next = row.next
        /\ Leased(row, id, until).retry = row.retry
        /\ Anchor(Leased(row, id, until)) = Anchor(row)
    BY ONLY <2>1, LeasedCadence
  <2> QED
    BY <1>6, <2>2
<1> QED
  BY <1>4, <1>5, <1>6, <1>7 DEF row, id, until

\* A claim appends the run of the occurrence the row stands for.
LEMMA ClaimCarries ==
    ASSUME Core, NEW i \in Instances, NEW t \in Tasks, Claim(i, t)
    PROVE  /\ TablesCarried /\ Remembers' /\ Workers'
           /\ runs'[t][Len(runs[t]) + 1].for = Anchor(task[t])
           /\ Len(runs'[t]) = Len(runs[t]) + 1
<1> DEFINE at == slot[i][t].at
           row == task[t]
           h == runs[t]
           id == Len(h) + 1
           kept == IF Expired(row, at) THEN Settled(h, row.lease, "abandoned") ELSE h
           new == [for |-> Anchor(row), attempt |-> NextAttempt(kept, Anchor(row)),
                   status |-> "running"]
           row1 == IF Expired(row, at) THEN Release(row) ELSE row
           row2 == task'[t]
<1>1. /\ task \in [Tasks -> TaskRow] /\ runs \in [Tasks -> Seq(RunRow)]
      /\ AttemptBounded /\ RunningIsLeased
      /\ row \in TaskRow /\ h \in Seq(RunRow) /\ Current(t, row, h)
      /\ Len(h) \in Nat /\ DOMAIN h = 1 .. Len(h)
  BY LenProperties DEF Core, IInv, TypeOK, AllCurrent
<1>2. /\ slot'[i][t].pc = "running" /\ slot'[i][t].lease = id
      /\ slot'[i][t].next = row.next /\ slot'[i][t].retry = row.retry
      /\ \A j \in Instances, u \in Tasks : slot'[j][u] = slot[j][u] \/ (j = i /\ u = t)
      /\ row2 \in TaskRow /\ row2.lease = id
      /\ row2.present = row.present /\ row2.enabled = row.enabled
      /\ Anchor(row2) = Anchor(row)
      /\ \A u \in Tasks : u # t => task'[u] = task[u] /\ runs'[u] = runs[u]
  BY ClaimShape DEF Core
<1>3. runs'[t] = Append(kept, new) /\ row.present /\ row.enabled
  BY <1>1 DEF Claim, Due
<1>4. /\ Alike(h, kept) /\ kept \in Seq(RunRow)
      /\ row1 \in TaskRow /\ row1.lease \in {0, row.lease}
      /\ row1.present = row.present /\ row1.enabled = row.enabled
      /\ Anchor(row1) = Anchor(row)
  <2>1. CASE Expired(row, at)
    <3>1. row.lease \in 1 .. Len(h)
      BY <1>1, <2>1 DEF Expired, RunningIsLeased
    <3>2. h[row.lease].status = "running"
      BY <1>1, <3>1 DEF RunningIsLeased
    <3>3. kept = Settled(h, row.lease, "abandoned") /\ row1 = Release(row)
      BY <2>1
    <3> HIDE DEF h, row, kept, row1
    <3>4. Alike(h, kept) /\ kept \in Seq(RunRow)
      BY <1>1, <3>1, <3>2, <3>3, AbandonedAlike
    <3> QED
      BY <1>1, <3>3, <3>4, ReleasedCadence
  <2>2. CASE ~Expired(row, at)
    BY <1>1, <2>2, AlikeItself
  <2> QED
    BY <2>1, <2>2
<1> HIDE DEF row2, row1, kept
<1>5. Carried(t, row, h, row1, kept)
  <2> HIDE DEF row, h
  <2> QED
    BY <1>1, <1>4, RowHeld
<1>6. /\ Len(kept) = Len(h) /\ DOMAIN kept = 1 .. Len(h)
      /\ \A n \in 1 .. Len(h) : kept[n].attempt = h[n].attempt
  BY <1>4, LenProperties DEF Alike
<1>7. \A n \in DOMAIN kept : kept[n].attempt <= n
  BY <1>1, <1>6 DEF AttemptBounded
<1>8. /\ NextAttempt(kept, Anchor(row)) \in 1 .. Len(kept) + 1
      /\ \A a \in AttemptsOf(kept, Anchor(row)) : a < NextAttempt(kept, Anchor(row))
  <2> DEFINE for == Anchor(row)
  <2> HIDE DEF for
  <2> QED
    BY <1>4, <1>7, NextAttemptRange
<1>9. new \in RunRow /\ new.for = Anchor(row) /\ new.status = "running"
  <2> DEFINE a == NextAttempt(kept, Anchor(row))
  <2>1. Anchor(row) \in Nat
    BY <1>1 DEF Anchor, TaskRow, Time
  <2>2. a \in Nat \ {0}
    <3>1. a \in 1 .. Len(kept) + 1 /\ Len(kept) \in Nat
      BY <1>1, <1>6, <1>8
    <3> HIDE DEF a
    <3> QED
      BY <3>1
  <2> HIDE DEF a, row
  <2> QED
    BY <2>1, <2>2 DEF RunRow, RunStatus, Time, a
<1>10. \A n \in Known(kept) : kept[n].for = Anchor(row1) => kept[n].attempt < new.attempt
  <2> SUFFICES ASSUME NEW n \in Known(kept), kept[n].for = Anchor(row)
               PROVE  kept[n].attempt < NextAttempt(kept, Anchor(row))
    BY <1>4
  <2>1. kept[n].attempt \in AttemptsOf(kept, Anchor(row))
    BY DEF AttemptsOf, Known
  <2> QED
    BY <1>8, <2>1
<1>11. new.for = Anchor(row1) /\ row1.present /\ row1.enabled /\ row2.lease = Len(kept) + 1
  BY <1>2, <1>3, <1>4, <1>6, <1>9
<1> HIDE DEF new
<1>12. Carried(t, row1, kept, row2, Append(kept, new))
  <2>1. Current(t, row1, kept)
    BY <1>5 DEF Carried
  <2>2. row2.present /\ row2.enabled /\ Anchor(row2) = Anchor(row1)
    BY <1>2, <1>3, <1>4
  <2> HIDE DEF row
  <2> QED
    BY <1>2, <1>4, <1>9, <1>10, <1>11, <2>1, <2>2, RowClaimed
<1>13. /\ Len(Append(kept, new)) = id
       /\ \A n \in 1 .. Len(h) : Append(kept, new)[n] = kept[n]
       /\ Append(kept, new)[id] = new
  <2>1. /\ Len(Append(kept, new)) = Len(kept) + 1
        /\ \A n \in 1 .. Len(kept) : Append(kept, new)[n] = kept[n]
        /\ Append(kept, new)[Len(kept) + 1] = new
    BY <1>4, <1>9, AppendProperties
  <2> QED
    BY <1>6, <2>1
<1>14. Carried(t, row, h, row2, Append(kept, new))
  <2>1. Len(Append(kept, new)) >= Len(h)
    <3>1. Len(h) \in Nat /\ Len(Append(kept, new)) = Len(h) + 1
      BY <1>1, <1>13
    <3> QED
      BY ONLY <3>1
  <2>2. \A n \in 1 .. Len(h) : Append(kept, new)[n].for = h[n].for
    BY <1>4, <1>13 DEF Alike
  <2> QED
    BY <1>3, <1>5, <1>12, <2>1, <2>2 DEF Carried
<1>15. TablesCarried
  <2> SUFFICES ASSUME NEW u \in Tasks
               PROVE  Carried(u, task[u], runs[u], task'[u], runs'[u])
    BY DEF TablesCarried
  <2>1. CASE u = t
    BY <1>3, <1>14, <2>1 DEF row2
  <2>2. CASE u # t
    <3>1. task'[u] = task[u] /\ runs'[u] = runs[u]
      BY <1>2, <2>2
    <3>2. task[u] \in TaskRow /\ runs[u] \in Seq(RunRow) /\ Current(u, task[u], runs[u])
      BY <1>1 DEF Core, AllCurrent
    <3>3. Carried(u, task[u], runs[u], task[u], runs[u])
      BY <3>2, RowHeld, AlikeItself
    <3> QED
      BY <3>1, <3>3
  <2> QED
    BY <2>1, <2>2
<1>16. runs'[t][id].for = Anchor(row) /\ Len(runs'[t]) = id
  BY <1>3, <1>9, <1>13
<1>17. Remembers'
  <2> SUFFICES ASSUME NEW j \in Instances, NEW u \in Tasks, slot'[j][u].pc = "running"
               PROVE  Anchor(slot'[j][u]) = runs'[u][slot'[j][u].lease].for
    BY DEF Remembers
  <2>1. CASE j = i /\ u = t
    <3>1. Anchor(slot'[j][u]) = Anchor(row)
      BY <1>2, <2>1 DEF Anchor
    <3> QED
      BY <1>2, <1>16, <2>1, <3>1
  <2>2. CASE ~(j = i /\ u = t)
    <3>1. slot'[j][u] = slot[j][u]
      BY <1>2, <2>2
    <3>2. slot[j][u].lease \in 1 .. Len(runs[u])
      BY <3>1 DEF Core, IInv, SlotsHaveRuns
    <3>3. runs'[u][slot[j][u].lease].for = runs[u][slot[j][u].lease].for
      BY <1>15, <3>2 DEF TablesCarried, Carried
    <3> QED
      BY <3>1, <3>3 DEF Core, Remembers
  <2> QED
    BY <2>1, <2>2
<1>18. Workers'
  <2>1. slot[i][t].pc # "idle"
    BY DEF Claim, Ready
  <2>2. UNCHANGED <<worker, todo, hasExec>>
    BY DEF Claim
  <2> QED
    BY <1>2, <2>1, <2>2, OneSlotKeeps
<1> QED
  BY <1>15, <1>16, <1>17, <1>18

\* Every step but the two delayed writes keeps this part of the invariant.
LEMMA CoreStep ==
    ASSUME Core, [Next]_vars,
           \A i \in Instances : \A m \in todo[i] : ~SkipMissed(i, m),
           \A i \in Instances, t \in Tasks : ~Defer(i, t)
    PROVE  Core' /\ TablesCarried /\ DeferralsFound
<1>1. IInv'
  BY NextIInv DEF Core
<1>2. CASE CoreKept
  BY <1>1, <1>2, CoreByParts DEF CoreKept, SlotsCarried
<1>3. ASSUME NEW i \in Instances, NEW t \in Tasks, Claim(i, t)
      PROVE  Core' /\ TablesCarried /\ DeferralsFound
  <2>1. TablesCarried /\ Remembers' /\ Workers'
    BY <1>3, ClaimCarries
  <2>2. AllCurrent'
    BY <2>1 DEF TablesCarried, Carried, AllCurrent
  <2>3. DeferralsFound
    BY <1>3, ClaimShape DEF DeferralsFound, Core
  <2> QED
    BY <1>1, <2>1, <2>2, <2>3 DEF Core
<1>4. ASSUME NEW i \in Instances, NEW t \in Tasks, Finish(i, t)
      PROVE  CoreKept
  BY <1>4, QuietTurnCarries, FinishCancelledCarries, FinishRetryCarries,
     FinishExhaustedCarries, FinishSuccessCarries DEF Finish
<1>5. ASSUME NEW i \in Instances, NEW t \in Tasks, Turn(i, t)
      PROVE  Core' /\ TablesCarried /\ DeferralsFound
  BY <1>2, <1>3, <1>4, <1>5, QuietTurnCarries, FindMissingCarries, HeartbeatCarries DEF Turn
<1>6. ASSUME NEW i \in Instances, NEW t \in Tasks,
             Schedule(i, t) \/ Cancel(i, t) \/ Remove(i, t)
      PROVE  CoreKept
  BY <1>6, ScheduleCarries, CancelCarries, RemoveCarries
<1>7. ASSUME NEW i \in Instances, Start(i)
      PROVE  CoreKept
  BY <1>7, StartWorkerCarries, StartFailsCarries DEF Start
<1>8. ASSUME NEW i \in Instances,
             UnregisterExecutor(i) \/ RegisterExecutor(i) \/ Tick(i)
                \/ StopWorker(i) \/ Crash(i)
      PROVE  CoreKept
  BY <1>8, RegistrationCarries, TickCarries, StopWorkerCarries, CrashCarries
<1>9. CASE AdvanceClock \/ UNCHANGED vars
  BY <1>2, <1>9, ClockCarries
<1> QED
  BY <1>2, <1>5, <1>6, <1>7, <1>8, <1>9 DEF Next

\* The delayed write of a missed run.
LEMMA SkipMissedCore ==
    ASSUME Core, NEW i \in Instances, NEW m \in todo[i], SkipMissed(i, m),
           Current(m.task, task'[m.task], runs[m.task])
    PROVE  Core'
<1> DEFINE t == m.task
           row2 == Moved(task[t], m.enabled, m.next, task[t].retry)
<1>1. IInv'
  BY SkipMissedStep DEF Core
<1>2. m \in MissedUpdate /\ t \in Tasks /\ task \in [Tasks -> TaskRow]
  BY DEF Core, IInv, TypeOK, MissedUpdate
<1>3. task' = [task EXCEPT ![t] = row2] /\ runs' = runs
  BY DEF SkipMissed
<1> HIDE DEF row2
<1>4. AllCurrent'
  <2> SUFFICES ASSUME NEW u \in Tasks PROVE Current(u, task'[u], runs'[u])
    BY DEF AllCurrent
  <2>1. CASE u = t
    BY <1>3, <2>1
  <2>2. CASE u # t
    <3>1. task'[u] = task[u] /\ runs'[u] = runs[u]
      BY <1>2, <1>3, <2>2
    <3> QED
      BY <3>1 DEF Core, AllCurrent
  <2> QED
    BY <2>1, <2>2
<1>5. SlotsCarried
  BY DEF SlotsCarried, DeferralsFound, SkipMissed
<1>6. Workers'
  <2>1. worker[i] = "starting" /\ UNCHANGED <<hasExec, slot>>
    BY DEF SkipMissed
  <2>2. \A j \in Instances :
           /\ j # i => todo'[j] = todo[j] /\ worker'[j] = worker[j]
           /\ j = i => (todo'[j] # {} => worker'[j] = "starting")
    BY DEF Core, IInv, TypeOK, SkipMissed
  <2> SUFFICES ASSUME NEW j \in Instances
               PROVE  /\ worker'[j] \in {"off", "starting"} =>
                            \A u \in Tasks : slot'[j][u].pc = "idle"
                      /\ todo'[j] # {} => worker'[j] = "starting"
                      /\ ~hasExec'[j] => j \in Flaky
    BY DEF Workers
  <2>3. CASE j = i
    BY <2>1, <2>2, <2>3 DEF Workers, Core
  <2>4. CASE j # i
    BY <2>1, <2>2, <2>4 DEF Workers, Core
  <2> QED
    BY <2>3, <2>4
<1>7. \A u \in Tasks : \A n \in 1 .. Len(runs[u]) : runs'[u][n].for = runs[u][n].for
  BY <1>3
<1> QED
  BY <1>1, <1>4, <1>5, <1>6, <1>7, CoreAgain

-----------------------------------------------------------------------------
(* An undisturbed instance.                                                *)

AllKept == \A t \in Tasks : Kept(t, task[t], runs[t])

\* The row a deferral read is the row it will write.
Deferrals ==
    \A i \in Instances, t \in Tasks : slot[i][t].pc = "deferring" =>
        /\ Alone
        /\ task[t].present /\ task[t].enabled
        /\ slot[i][t].retry = Anchor(task[t])

\* The row a missed-run update was computed from is the row it will move.
MissedRows ==
    \A i \in Instances : \A m \in todo[i] :
        /\ Alone
        /\ task[m.task].present /\ task[m.task].enabled
        /\ Policy[m.task] = "skip"
        /\ m.enabled <=> Every[m.task] # 0
        /\ Every[m.task] # 0 => /\ m.next > task[m.task].next
                                /\ Periods(m.task, task[m.task].next, m.next)
        /\ \A o \in todo[i] : o.task = m.task => o = m

UInv == Core /\ AllKept /\ Deferrals /\ MissedRows

\* No step enables a task that was cancelled.
CancelKept ==
    \A t \in Tasks : task[t].present /\ ~task[t].enabled /\ task'[t].present
        => ~task'[t].enabled

\* Missed-run updates come from the start of a worker.
LEMMA TodoFound ==
    ASSUME Core, [Next]_vars
    PROVE  \A j \in Instances : todo'[j] \subseteq todo[j] \/ StartWorker(j)
<1> SUFFICES ASSUME NEW j \in Instances, ~StartWorker(j)
             PROVE  todo'[j] \subseteq todo[j]
  OBVIOUS
<1>1. todo \in [Instances -> SUBSET MissedUpdate]
  BY DEF Core, IInv, TypeOK
<1>2. ASSUME NEW i \in Instances, NEW t \in Tasks,
             Schedule(i, t) \/ Cancel(i, t) \/ Remove(i, t) \/ Turn(i, t)
      PROVE  todo' = todo
  BY <1>2 DEF Schedule, Cancel, Remove, Turn, Pass, Claim, FindMissingExecutor, Defer, Finish,
              LateSettlement, FinishCancelled, FinishRetry, FinishExhausted, FinishSuccess,
              Heartbeat
<1>3. ASSUME NEW i \in Instances, Start(i)
      PROVE  todo'[j] \subseteq todo[j]
  <2>1. CASE i = j
    BY <1>1, <1>3, <2>1 DEF Start, SkipMissed, StartFails
  <2>2. CASE i # j
    BY <1>1, <1>3, <2>2 DEF Start, SkipMissed, StartFails, StartWorker
  <2> QED
    BY <2>1, <2>2
<1>4. ASSUME NEW i \in Instances,
             UnregisterExecutor(i) \/ RegisterExecutor(i) \/ Tick(i)
                \/ StopWorker(i) \/ Crash(i)
      PROVE  todo'[j] \subseteq todo[j]
  BY <1>1, <1>4 DEF UnregisterExecutor, RegisterExecutor, Tick, StopWorker, Crash
<1>5. CASE AdvanceClock \/ UNCHANGED vars
  BY <1>5 DEF AdvanceClock, vars
<1> QED
  BY <1>2, <1>3, <1>4, <1>5 DEF Next

\* A process between two of its database calls, alone with the database, does
\* nothing but make the second one, give up or die.
LEMMA BusyWaits ==
    ASSUME Core, [Next]_vars, Alone,
           NEW i \in Instances,
           todo[i] # {} \/ \E t \in Tasks : slot[i][t].pc = "deferring",
           \A j \in Instances : \A m \in todo[j] : ~SkipMissed(j, m),
           \A j \in Instances, t \in Tasks : ~Defer(j, t)
    PROVE  \/ UNCHANGED <<task, slot, todo>>
           \/ Crash(i)
           \/ \E m \in todo[i] : StartFails(i, m)
<1>1. \A j \in Instances : j = i
  BY DEF Alone
<1>2. Busy(i)
  BY DEF Busy, Core, Workers
<1>3. worker[i] # "off"
  BY DEF Core, Workers
<1>4. ~Tick(i)
  <2>1. CASE todo[i] # {}
    BY <2>1 DEF Tick, Core, Workers
  <2>2. CASE \E t \in Tasks : slot[i][t].pc = "deferring"
    BY <2>2 DEF Tick
  <2> QED
    BY <2>1, <2>2
<1>5. ASSUME NEW j \in Instances, NEW t \in Tasks,
             Schedule(j, t) \/ Cancel(j, t) \/ Remove(j, t) \/ Turn(j, t)
      PROVE  FALSE
  <2>1. Busy(j) /\ ~Defer(j, t)
    BY <1>1, <1>2
  <2> QED
    BY <1>5, <2>1 DEF Schedule, Cancel, Remove, Turn, Pass, Claim, FindMissingExecutor, Finish,
              LateSettlement, FinishCancelled, FinishRetry, FinishExhausted, FinishSuccess,
              Heartbeat, Running, Ready
<1>6. ASSUME NEW j \in Instances,
             UnregisterExecutor(j) \/ RegisterExecutor(j) \/ StartWorker(j)
                \/ StopWorker(j) \/ Tick(j)
      PROVE  FALSE
  <2>1. j = i
    BY <1>1
  <2> QED
    BY <1>2, <1>4, <1>6, <2>1
       DEF UnregisterExecutor, RegisterExecutor, StartWorker, StopWorker
<1>7. ASSUME NEW j \in Instances, Start(j) \/ Crash(j)
      PROVE  Crash(i) \/ \E m \in todo[i] : StartFails(i, m)
  <2>1. j = i /\ ~StartWorker(j)
    BY <1>1, <1>6
  <2> QED
    BY <1>7, <2>1 DEF Start
<1>8. CASE AdvanceClock \/ UNCHANGED vars
  BY <1>8 DEF AdvanceClock, vars
<1> QED
  BY <1>5, <1>6, <1>7, <1>8 DEF Next

\* The update a starting worker will write for a task it missed.
LEMMA MissedValue ==
    ASSUME Core, NEW t \in Tasks
    PROVE  /\ Missed(t).task = t /\ Missed(t).at = clock
           /\ Missed(t).enabled <=> Every[t] # 0
           /\ Every[t] # 0 => /\ Missed(t).next > task[t].next
                              /\ Missed(t).next > clock
                              /\ Periods(t, task[t].next, Missed(t).next)
<1>1. task[t].next \in Nat /\ clock \in Nat
  BY DEF Core, IInv, TypeOK, TaskRow, Time
<1>2. CASE Every[t] # 0
  <2>1. /\ NextFutureOccurrence(t, task[t].next, clock) > task[t].next
        /\ NextFutureOccurrence(t, task[t].next, clock) > clock
    BY <1>1, <1>2, NextFutureIsLater
  <2>2. Periods(t, task[t].next, NextFutureOccurrence(t, task[t].next, clock))
    BY <1>1, <1>2, SuccessorsArePeriods
  <2> QED
    BY <1>2, <2>1, <2>2 DEF Missed
<1>3. CASE Every[t] = 0
  BY <1>3 DEF Missed
<1> QED
  BY <1>2, <1>3

\* A sweep leaves the columns of the cadence alone.
LEMMA SweptCadence ==
    ASSUME Core, NEW now, AbandonExpiredLeases(now), NEW t \in Tasks
    PROVE  /\ task'[t].present = task[t].present /\ task'[t].enabled = task[t].enabled
           /\ task'[t].next = task[t].next /\ task'[t].retry = task[t].retry
           /\ task'[t].lease = 0 \/ task'[t] = task[t]
<1>1. task[t] \in TaskRow
  BY DEF Core, IInv, TypeOK
<1>2. task'[t] = Release(task[t]) \/ task'[t] = task[t]
  BY DEF AbandonExpiredLeases, SweptTask
<1> QED
  BY <1>1, <1>2, ReleasedCadence

\* The missed-run update of a task that is alone moves it along its cadence.
LEMMA SkipMissedUndisturbed ==
    ASSUME UInv, NEW i \in Instances, NEW m \in todo[i], SkipMissed(i, m)
    PROVE  UInv' /\ CancelKept
<1> DEFINE t == m.task
           row == task[t]
           row2 == Moved(row, m.enabled, m.next, row.retry)
<1>1. /\ m \in MissedUpdate /\ t \in Tasks /\ task \in [Tasks -> TaskRow]
      /\ todo \in [Instances -> SUBSET MissedUpdate]
      /\ row \in TaskRow /\ runs[t] \in Seq(RunRow)
      /\ Current(t, row, runs[t]) /\ Kept(t, row, runs[t])
      /\ m.enabled \in BOOLEAN /\ m.next \in Nat /\ row.retry \in Nat \cup {None}
      /\ row.next \in Nat
  BY DEF UInv, AllKept, Core, AllCurrent, IInv, TypeOK, MissedUpdate, TaskRow, Time
<1>2. /\ Alone /\ row.present /\ row.enabled /\ Policy[t] = "skip"
      /\ m.enabled <=> Every[t] # 0
      /\ Every[t] # 0 => m.next > row.next /\ Periods(t, row.next, m.next)
      /\ \A o \in todo[i] : o.task = t => o = m
  BY DEF UInv, MissedRows
<1>3. /\ task' = [task EXCEPT ![t] = row2] /\ runs' = runs /\ slot' = slot
      /\ worker[i] = "starting"
  BY DEF SkipMissed
<1>4. /\ row2 \in TaskRow /\ row2.lease = row.lease
      /\ row2.present = row.present /\ row2.enabled = m.enabled
      /\ Anchor(row2) = Points(m.next, row.retry)
  <2>1. /\ row \in TaskRow /\ m.enabled \in BOOLEAN /\ m.next \in Nat
        /\ row.retry \in Nat \cup {None}
    BY <1>1
  <2> DEFINE enabled == m.enabled
             next == m.next
             retry == row.retry
  <2> HIDE DEF enabled, next, retry, row
  <2>2. row \in TaskRow /\ enabled \in BOOLEAN /\ next \in Nat /\ retry \in Nat \cup {None}
    BY <2>1 DEF enabled, next, retry
  <2>3. /\ Moved(row, enabled, next, retry) \in TaskRow
        /\ Moved(row, enabled, next, retry).lease = row.lease
        /\ Moved(row, enabled, next, retry).present = row.present
        /\ Moved(row, enabled, next, retry).enabled = enabled
        /\ Anchor(Moved(row, enabled, next, retry)) = Points(next, retry)
    BY ONLY <2>2, MovedCadence, Z3
  <2> QED
    BY <2>3 DEF enabled, next, retry
<1>5. task'[t] = row2 /\ \A u \in Tasks : u # t => task'[u] = task[u]
  BY <1>1, <1>3
<1> HIDE DEF row2
<1>6. Every[t] # 0 => /\ Anchor(row2) >= Anchor(row)
                      /\ Anchor(row2) > Anchor(row) \/ Anchor(row2) = Anchor(row)
                      /\ Periods(t, Anchor(row), Anchor(row2))
  <2> SUFFICES ASSUME Every[t] # 0
               PROVE  /\ Anchor(row2) >= Anchor(row)
                      /\ Anchor(row2) > Anchor(row) \/ Anchor(row2) = Anchor(row)
                      /\ Periods(t, Anchor(row), Anchor(row2))
    OBVIOUS
  <2>1. CASE row.retry # None
    <3>1. Anchor(row2) = Anchor(row) /\ Anchor(row) \in Nat
      BY <1>1, <1>4, <2>1 DEF Anchor, Points
    <3>2. Periods(t, Anchor(row), Anchor(row))
      <4> DEFINE x == Anchor(row)
      <4>1. x \in Nat /\ t \in Tasks /\ Every[t] # 0
        BY <1>1, <3>1
      <4> HIDE DEF x
      <4>2. Periods(t, x, x)
        BY ONLY <4>1, SuccessorsArePeriods, Z3
      <4> QED
        BY <4>2 DEF x
    <3> QED
      BY <3>1, <3>2
  <2>2. CASE row.retry = None
    BY <1>1, <1>2, <1>4, <2>2 DEF Anchor, Points
  <2> QED
    BY <2>1, <2>2
<1>7. Current(t, row2, runs[t])
  <2>1. Ahead(t, row2, runs[t])
    <3> SUFFICES ASSUME row2.enabled \/ Every[t] # 0, NEW n \in Known(runs[t])
                 PROVE  \/ runs[t][n].for < Anchor(row2)
                        \/ runs[t][n].for = Anchor(row2) /\ ~SettledForGood(runs[t][n])
      BY DEF Ahead
    <3>1. Every[t] # 0
      BY <1>2, <1>4
    <3>2. \/ runs[t][n].for < Anchor(row)
          \/ runs[t][n].for = Anchor(row) /\ ~SettledForGood(runs[t][n])
      BY <1>1, <1>2 DEF Current, Ahead
    <3>3. runs[t][n].for \in Nat /\ Anchor(row) \in Nat /\ Anchor(row2) \in Nat
      <4>1. n \in DOMAIN runs[t]
        BY DEF Known
      <4>2. runs[t][n] \in RunRow
        BY <1>1, <4>1, LenProperties, ElementOfSeq
      <4> QED
        BY <1>1, <1>4, <4>2 DEF RunRow, TaskRow, Time, Anchor
    <3> QED
      BY <1>6, <3>1, <3>2, <3>3
  <2> QED
    BY <1>1, <1>4, <2>1 DEF Current
<1>8. Kept(t, row2, runs[t])
  <2>1. InPhase(t, row2, runs[t])
    <3> SUFFICES ASSUME Every[t] # 0 PROVE OnCadence(t, Anchor(row2))
      BY <1>1 DEF Kept, InPhase
    <3>1. PICK a \in Anchors : Periods(t, a, Anchor(row))
      BY <1>1, <1>2 DEF Kept, InPhase, OnCadence
    <3>2. a \in Nat /\ Anchor(row) \in Nat /\ Anchor(row2) \in Nat
      BY <1>1, <1>4, ScheduleAssumption DEF TaskRow, Time, Anchor
    <3>3. Periods(t, a, Anchor(row2))
      <4> DEFINE x == Anchor(row)
                 y == Anchor(row2)
      <4>1. /\ t \in Tasks /\ a \in Nat /\ x \in Nat /\ y \in Nat
            /\ Periods(t, a, x) /\ Periods(t, x, y)
        BY <1>1, <1>6, <3>1, <3>2
      <4> HIDE DEF x, y
      <4>2. Periods(t, a, y)
        BY ONLY <4>1, PeriodsAdd, Z3
      <4> QED
        BY <4>2 DEF y
    <3> QED
      BY <3>3 DEF OnCadence
  <2> QED
    BY <1>1, <1>2, <2>1 DEF Kept, NextInLine, InOrder
<1>9. Core'
  <2>1. Current(m.task, task'[m.task], runs[m.task])
    BY <1>5, <1>7
  <2> QED
    BY <2>1, SkipMissedCore DEF UInv
<1>10. AllKept'
  <2> SUFFICES ASSUME NEW u \in Tasks PROVE Kept(u, task'[u], runs'[u])
    BY DEF AllKept
  <2>1. CASE u = t
    BY <1>3, <1>5, <1>8, <2>1
  <2>2. CASE u # t
    BY <1>3, <1>5, <2>2 DEF UInv, AllKept
  <2> QED
    BY <2>1, <2>2
<1>11. Deferrals'
  <2> SUFFICES ASSUME NEW j \in Instances, NEW u \in Tasks, slot'[j][u].pc = "deferring"
               PROVE  FALSE
    BY DEF Deferrals
  <2>1. j = i
    BY <1>2 DEF Alone
  <2> QED
    BY <1>3, <2>1 DEF UInv, Core, Workers
<1>12. MissedRows'
  <2> SUFFICES ASSUME NEW j \in Instances, NEW o \in todo'[j]
               PROVE  /\ Alone
                      /\ task'[o.task].present /\ task'[o.task].enabled
                      /\ Policy[o.task] = "skip"
                      /\ o.enabled <=> Every[o.task] # 0
                      /\ Every[o.task] # 0 => /\ o.next > task'[o.task].next
                                              /\ Periods(o.task, task'[o.task].next, o.next)
                      /\ \A p \in todo'[j] : p.task = o.task => p = o
    BY DEF MissedRows
  <2>1. j = i
    BY <1>2 DEF Alone
  <2>2. todo'[j] = todo[i] \ {m}
    BY <1>1, <2>1 DEF SkipMissed
  <2>3. o \in todo[i] /\ o # m /\ o.task \in Tasks
    BY <1>1, <2>2 DEF MissedUpdate
  <2>4. o.task # t
    BY <1>2, <2>3
  <2>5. task'[o.task] = task[o.task]
    BY <1>5, <2>3, <2>4
  <2>6. \A p \in todo'[j] : p \in todo[i]
    BY <2>2
  <2> QED
    BY <2>3, <2>5, <2>6 DEF UInv, MissedRows
<1>13. CancelKept
  BY <1>2, <1>5 DEF CancelKept
<1> QED
  BY <1>9, <1>10, <1>11, <1>12, <1>13 DEF UInv

\* The deferral of a task that is alone keeps the occurrence it read.
LEMMA DeferUndisturbed ==
    ASSUME UInv, NEW i \in Instances, NEW t \in Tasks, Defer(i, t)
    PROVE  UInv' /\ CancelKept
<1> DEFINE s == slot[i][t]
           row == task[t]
           next == s.at + DeferBy
           retry == IF row.retry # None THEN row.retry ELSE s.retry
           row2 == Moved(row, TRUE, next, retry)
<1>1. /\ task \in [Tasks -> TaskRow] /\ row \in TaskRow /\ s \in Slot
      /\ runs \in [Tasks -> Seq(RunRow)] /\ runs[t] \in Seq(RunRow)
      /\ Current(t, row, runs[t]) /\ Kept(t, row, runs[t])
  BY DEF UInv, AllKept, Core, AllCurrent, IInv, TypeOK
<1>2. /\ Alone /\ row.present /\ row.enabled /\ s.retry = Anchor(row)
      /\ s.pc = "deferring"
  BY DEF UInv, Deferrals, Defer
<1>3. next \in Nat /\ retry \in Nat \cup {None} /\ Points(next, retry) = Anchor(row)
  <2>1. s.at \in Nat
    <3> HIDE DEF s
    <3> QED
      BY <1>1 DEF Slot, Time
  <2>2. row.retry \in Nat \cup {None} /\ row.next \in Nat /\ Anchor(row) \in Nat
    BY <1>1 DEF TaskRow, Time, Anchor
  <2> HIDE DEF s, row
  <2>3. next \in Nat
    BY <2>1, TimingAssumption
  <2>4. retry = Anchor(row) /\ Anchor(row) # None
    BY <1>2, <2>2 DEF Anchor, None
  <2> QED
    BY <2>2, <2>3, <2>4 DEF Points
<1>4. \/ task' = task
      \/ task' = [task EXCEPT ![t] = row2]
  BY DEF Defer, Deferred
<1>5. runs' = runs /\ UNCHANGED <<todo, hasExec>>
  BY DEF Defer
<1> HIDE DEF next, retry
<1>6. /\ row2 \in TaskRow /\ row2.lease = row.lease
      /\ row2.present = row.present /\ row2.enabled
      /\ Anchor(row2) = Anchor(row)
  <2> DEFINE enabled == TRUE
  <2>1. row \in TaskRow /\ enabled \in BOOLEAN /\ next \in Nat /\ retry \in Nat \cup {None}
    BY <1>1, <1>3
  <2> HIDE DEF row, enabled
  <2>2. /\ Moved(row, enabled, next, retry) \in TaskRow
        /\ Moved(row, enabled, next, retry).lease = row.lease
        /\ Moved(row, enabled, next, retry).present = row.present
        /\ Moved(row, enabled, next, retry).enabled = enabled
        /\ Anchor(Moved(row, enabled, next, retry)) = Points(next, retry)
    BY ONLY <2>1, MovedCadence, Z3
  <2> QED
    BY <1>3, <2>2 DEF enabled
<1> HIDE DEF row2
<1>7. Carried(t, row, runs[t], row2, runs[t])
  BY <1>1, <1>2, <1>6, RowHeld, AlikeItself
<1>8. TablesCarried
  <2>1. CASE task' = task
    BY <1>5, <2>1, HeldTables DEF UInv
  <2>2. CASE task' = [task EXCEPT ![t] = row2]
    <3>1. runs' = [runs EXCEPT ![t] = runs[t]]
      BY <1>1, <1>5
    <3> QED
      BY <1>7, <2>2, <3>1, OneTask DEF UInv
  <2> QED
    BY <1>4, <2>1, <2>2
<1>9. EndTask(i, t, TRUE) \/ EndTask(i, t, FALSE)
  BY DEF Defer
<1>10. SlotsCarried /\ Workers'
  BY <1>5, <1>9, EndTaskKeeps DEF UInv
<1>11. Core'
  <2>1. IInv'
    BY DeferStep DEF UInv, Core
  <2> QED
    BY <1>8, <1>10, <2>1, CoreByParts DEF CoreKept, UInv
<1>12. AllKept'
  BY <1>8 DEF TablesCarried, Carried, UInv, AllKept
<1>13. Deferrals'
  <2> SUFFICES ASSUME NEW j \in Instances, NEW u \in Tasks, slot'[j][u].pc = "deferring"
               PROVE  /\ Alone
                      /\ task'[u].present /\ task'[u].enabled
                      /\ slot'[j][u].retry = Anchor(task'[u])
    BY DEF Deferrals
  <2>1. /\ slot'[i][t] = IdleSlot /\ IdleSlot.pc = "idle"
        /\ slot'[j][u] = slot[j][u] \/ slot'[j][u] = IdleSlot
    <3>1. IInv
      BY DEF UInv, Core
    <3>2. ASSUME NEW returns \in BOOLEAN, EndTask(i, t, returns)
          PROVE  /\ slot'[i][t] = IdleSlot
                 /\ slot'[j][u] = slot[j][u] \/ slot'[j][u] = IdleSlot
      BY <3>1, <3>2, EndTaskShape
    <3> QED
      BY <1>9, <3>2 DEF IdleSlot
  <2>2. j = i /\ u # t /\ slot'[j][u] = slot[j][u]
    BY <1>2, <2>1 DEF Alone
  <2>3. task'[u] = task[u]
    BY <1>1, <1>4, <2>2
  <2> QED
    BY <2>2, <2>3 DEF UInv, Deferrals
<1>14. MissedRows'
  <2> SUFFICES ASSUME NEW j \in Instances, todo[j] # {} PROVE FALSE
    BY <1>5 DEF MissedRows
  <2>1. j = i
    BY <1>2 DEF Alone
  <2> QED
    BY <1>2, <2>1 DEF UInv, Core, Workers
<1>15. CancelKept
  BY <1>8 DEF TablesCarried, Carried, CancelKept
<1> QED
  BY <1>11, <1>12, <1>13, <1>14, <1>15 DEF UInv

\* Every other step.
LEMMA OtherUndisturbed ==
    ASSUME Undisturbed, UInv, [Next]_vars,
           \A j \in Instances : \A m \in todo[j] : ~SkipMissed(j, m),
           \A j \in Instances, t \in Tasks : ~Defer(j, t)
    PROVE  UInv' /\ CancelKept
<1>1. Core' /\ TablesCarried /\ DeferralsFound
  BY CoreStep DEF UInv
<1>2. AllKept' /\ CancelKept
  BY <1>1 DEF TablesCarried, Carried, UInv, AllKept, CancelKept
<1>3. CASE \E i \in Instances : todo[i] # {} \/ \E t \in Tasks : slot[i][t].pc = "deferring"
  <2>1. PICK i \in Instances : todo[i] # {} \/ \E t \in Tasks : slot[i][t].pc = "deferring"
    BY <1>3
  <2>2. Alone /\ \A j \in Instances : j = i
    BY <2>1 DEF UInv, Deferrals, MissedRows, Alone
  <2>3. ASSUME UNCHANGED <<task, slot, todo>>
        PROVE  Deferrals' /\ MissedRows'
    BY <2>3 DEF UInv, Deferrals, MissedRows
  <2>4. ASSUME Crash(i) \/ \E m \in todo[i] : StartFails(i, m)
        PROVE  Deferrals' /\ MissedRows'
    <3>1. todo'[i] = {}
      BY <2>4 DEF Crash, StartFails, UInv, Core, IInv, TypeOK
    <3>2. \A t \in Tasks : slot'[i][t].pc # "deferring"
      <4>1. CASE Crash(i)
        BY <4>1 DEF Crash, UInv, Core, IInv, TypeOK, IdleSlot
      <4>2. CASE \E m \in todo[i] : StartFails(i, m)
        BY <4>2 DEF StartFails, UInv, Core, Workers
      <4> QED
        BY <2>4, <4>1, <4>2
    <3>3. Deferrals'
      BY <2>2, <3>2 DEF Deferrals
    <3>4. MissedRows'
      BY <2>2, <3>1 DEF MissedRows
    <3> QED
      BY <3>3, <3>4
  <2>5. \/ UNCHANGED <<task, slot, todo>>
        \/ Crash(i)
        \/ \E m \in todo[i] : StartFails(i, m)
    BY <2>1, <2>2, BusyWaits DEF UInv
  <2>6. Deferrals' /\ MissedRows'
    BY <2>3, <2>4, <2>5
  <2> QED
    BY <1>1, <1>2, <2>6 DEF UInv
<1>4. CASE \A i \in Instances : todo[i] = {} /\ \A t \in Tasks : slot[i][t].pc # "deferring"
  <2>1. Deferrals'
    <3> SUFFICES ASSUME NEW j \in Instances, NEW u \in Tasks, slot'[j][u].pc = "deferring"
                 PROVE  /\ Alone
                        /\ task'[u].present /\ task'[u].enabled
                        /\ slot'[j][u].retry = Anchor(task'[u])
      BY DEF Deferrals
    <3>1. FindMissingExecutor(j, u)
      BY <1>1, <1>4 DEF DeferralsFound
    <3>2. Alone
      BY <3>1 DEF FindMissingExecutor, UInv, Core, Workers, Undisturbed
    <3>3. task' = task /\ task[u].present /\ task[u].enabled
      BY <3>1 DEF FindMissingExecutor, Due
    <3>4. slot'[j][u].retry = Anchor(task[u])
      <4> DEFINE s == [slot[j][u] EXCEPT !.pc = "deferring", !.retry = Anchor(task[u])]
      <4>1. slot'[j][u] = s
        BY <3>1 DEF FindMissingExecutor, Enter, UInv, Core, IInv, TypeOK
      <4>2. slot[j][u] \in Slot
        BY DEF UInv, Core, IInv, TypeOK
      <4>3. s.retry = Anchor(task[u])
        BY <4>2 DEF Slot
      <4> QED
        BY <4>1, <4>3
    <3> QED
      BY <3>2, <3>3, <3>4
  <2>2. MissedRows'
    <3> SUFFICES ASSUME NEW j \in Instances, NEW m \in todo'[j]
                 PROVE  /\ Alone
                        /\ task'[m.task].present /\ task'[m.task].enabled
                        /\ Policy[m.task] = "skip"
                        /\ m.enabled <=> Every[m.task] # 0
                        /\ Every[m.task] # 0 => /\ m.next > task'[m.task].next
                                                /\ Periods(m.task, task'[m.task].next, m.next)
                        /\ \A o \in todo'[j] : o.task = m.task => o = m
      BY DEF MissedRows
    <3>1. StartWorker(j)
      BY <1>4, TodoFound DEF UInv
    <3> DEFINE late == {u \in Tasks : /\ task[u].present /\ task[u].enabled
                                      /\ Policy[u] = "skip"
                                      /\ ~Held(task[u], clock)
                                      /\ task[u].next < clock}
    <3>2. todo'[j] = {Missed(t) : t \in late}
      BY <3>1 DEF StartWorker, UInv, Core, IInv, TypeOK
    <3>3. PICK t \in late : m = Missed(t)
      BY <3>2
    <3>4. /\ t \in Tasks /\ task[t].present /\ task[t].enabled /\ Policy[t] = "skip"
      BY <3>3
    <3>5. Alone
      BY <3>4 DEF Undisturbed
    <3>6. /\ m.task = t
          /\ m.enabled <=> Every[t] # 0
          /\ Every[t] # 0 => m.next > task[t].next /\ Periods(t, task[t].next, m.next)
      BY <3>3, <3>4, MissedValue DEF UInv
    <3>7. /\ task'[t].present = task[t].present /\ task'[t].enabled = task[t].enabled
          /\ task'[t].next = task[t].next
      BY <3>1, <3>4, SweptCadence DEF StartWorker, UInv
    <3>8. \A o \in todo'[j] : o.task = m.task => o = m
      <4> TAKE o \in todo'[j]
      <4>1. PICK u \in late : o = Missed(u)
        BY <3>2
      <4>2. o.task = u
        BY <4>1, MissedValue DEF UInv
      <4> QED
        BY <3>3, <3>6, <4>1, <4>2
    <3> HIDE DEF late
    <3> QED
      BY <3>4, <3>5, <3>6, <3>7, <3>8
  <2> QED
    BY <1>1, <1>2, <2>1, <2>2 DEF UInv
<1>5. (\E i \in Instances : todo[i] # {} \/ \E t \in Tasks : slot[i][t].pc = "deferring")
      \/ \A i \in Instances : todo[i] = {} /\ \A t \in Tasks : slot[i][t].pc # "deferring"
  OBVIOUS
<1> QED
  BY <1>3, <1>4, <1>5

LEMMA NextUInv ==
    ASSUME Undisturbed, UInv, [Next]_vars
    PROVE  UInv' /\ CancelKept
BY SkipMissedUndisturbed, DeferUndisturbed, OtherUndisturbed

LEMMA InitCore ==
    ASSUME Init
    PROVE  Core /\ AllKept
<1>1. IInv
  BY InitIInv
<1>2. \A t \in Tasks : /\ task[t] = Absent /\ runs[t] = <<>>
                       /\ Known(<<>>) = {} /\ Len(<<>>) = 0 /\ DOMAIN <<>> = {}
  BY DEF Init, Known
<1>3. ~Absent.present /\ ~Absent.enabled /\ Absent.lease = 0
  BY DEF Absent
<1>4. AllCurrent
  BY <1>2, <1>3 DEF AllCurrent, Current, Advancing, Ahead
<1>5. AllKept
  BY <1>2, <1>3 DEF AllKept, Kept, InOrder, NextInLine, InPhase
<1>6. Remembers /\ Workers
  BY DEF Init, Remembers, Workers, IdleSlot
<1> QED
  BY <1>1, <1>4, <1>5, <1>6 DEF Core

LEMMA InitUInv == Init => UInv
<1> SUFFICES ASSUME Init PROVE UInv
  OBVIOUS
<1>1. Core /\ AllKept
  BY InitCore
<1>2. Deferrals /\ MissedRows
  BY DEF Init, Deferrals, MissedRows, IdleSlot
<1> QED
  BY <1>1, <1>2 DEF UInv

-----------------------------------------------------------------------------
(* What the invariant of an undisturbed instance says.                     *)

LEMMA LiveAreKnown == \A t \in Tasks : Live(t) = Known(runs[t])
BY DEF Live, Known

\* The history advances because each row is.
LEMMA CurrentAdvances == AllCurrent => OccurrencesAdvance
BY LiveAreKnown DEF AllCurrent, Current, Advancing, OccurrencesAdvance

LEMMA KeptDropsNothing == AllKept => NothingDropped
BY LiveAreKnown DEF AllKept, Kept, InOrder, NothingDropped

LEMMA KeptKeepsPhase == IInv /\ AllKept => PhaseKept
<1> SUFFICES ASSUME IInv, AllKept, NEW t \in Tasks, task[t].present, Every[t] # 0
             PROVE  \E a \in Anchors : (Anchor(task[t]) - a) % Every[t] = 0
  BY DEF PhaseKept
<1>1. PICK a \in Anchors : Periods(t, a, Anchor(task[t]))
  BY DEF AllKept, Kept, InPhase, OnCadence
<1> DEFINE e == Every[t]
           x == Anchor(task[t])
<1>2. PICK k \in Nat : x = a + k * e
  BY <1>1 DEF Periods
<1>3. a \in Nat /\ e \in Nat \ {0}
  BY ScheduleAssumption
<1> HIDE DEF e, x
<1>4. k * e \in Nat
  BY <1>2, <1>3
<1> DEFINE p == k * e
<1>5. p % e = 0
  BY <1>2, <1>3, PeriodsDivide
<1>6. x - a = p
  <2> HIDE DEF p
  <2>1. x = a + p /\ p \in Nat
    BY <1>2, <1>4 DEF p
  <2> QED
    BY <1>3, <2>1
<1> QED
  BY <1>5, <1>6 DEF e, x

LEMMA UInvKeeps == UInv => OccurrencesKept
BY CurrentAdvances, KeptDropsNothing, KeptKeepsPhase DEF UInv, Core, OccurrencesKept

LEMMA UndisturbedInvariance ==
    ASSUME Undisturbed
    PROVE  Spec => []UInv
<1>1. Init => UInv
  BY InitUInv
<1>2. UInv /\ [Next]_vars => UInv'
  BY NextUInv
<1> QED
  BY <1>1, <1>2, PTL DEF Spec

\* As long as no other process comes between the two database calls of a
\* deferral or of a missed-run update, the next claim is for the occurrence that
\* the history and the cadence call for: nothing is claimed again once it is
\* settled for good, nothing is dropped, and no retry, deferral, crash or restart
\* moves the task off its phase.
THEOREM OccurrencesAreKept ==
    ASSUME Undisturbed
    PROVE  Spec => []OccurrencesKept
<1>1. UInv => OccurrencesKept
  BY UInvKeeps
<1>2. Spec => []UInv
  BY UndisturbedInvariance
<1> QED
  BY <1>1, <1>2, PTL

\* Under the same condition nothing enables a cancelled task again: the
\* completion of its run leaves it disabled, and a deferral or a missed-run
\* update is only written to a row that was enabled when it was read.
THEOREM CancellationSticks ==
    ASSUME Undisturbed
    PROVE  Spec => CancelSticks
<1>1. UInv /\ [Next]_vars => CancelKept
  BY NextUInv
<1>2. CancelKept <=> \A t \in Tasks :
          task[t].present /\ ~task[t].enabled /\ task'[t].present => ~task'[t].enabled
  BY DEF CancelKept
<1>3. Spec => []UInv
  BY UndisturbedInvariance
<1> QED
  BY <1>1, <1>2, <1>3, PTL DEF Spec, CancelSticks

-----------------------------------------------------------------------------
(* Punctual processes.                                                     *)

\* Heartbeats are given before a lease runs out, a pass has a pool worker for
\* every task and no task goes round the catch-up loop, so that a claim is as
\* recent as its tick; every process keeps its executors.
Punctual ==
    /\ Timely
    /\ Beat < Lease
    /\ Cardinality(Tasks) <= MaxConcurrent
    /\ \A t \in Tasks : Policy[t] # "catch-up"
    /\ Flaky = {}

QueuedIn(i) == {t \in Tasks : slot[i][t].pc = "queued"}
Executing(i, t) == slot[i][t].pc = "running" /\ ~slot[i][t].abort

\* A queued task is claimed at the instant of its tick.
Fresh ==
    \A i \in Instances :
        /\ pool[i] >= Cardinality(QueuedIn(i))
        /\ \A t \in Tasks : /\ slot[i][t].pc \in {"idle", "queued", "running"}
                            /\ slot[i][t].pc = "queued" => slot[i][t].at = clock

\* An executor holds the lease, and its next heartbeat comes before the end of it.
Holders ==
    \A i \in Instances, t \in Tasks : Executing(i, t) =>
        Owns(i, t) /\ clock <= slot[i][t].beat /\ slot[i][t].beat < task[t].expires

\* A run is in the hands of one instance.
Apart ==
    \A i, j \in Instances, t \in Tasks :
        /\ slot[i][t].pc = "running" /\ slot[j][t].pc = "running"
        /\ slot[i][t].lease = slot[j][t].lease
        => i = j

\* What was claimed, or waits for a retry, is not in the future.
Past ==
    \A t \in Tasks : /\ task[t].retry # None => task[t].retry <= clock
                     /\ \A n \in DOMAIN runs[t] : runs[t][n].for <= clock

\* A missed-run update is written at the instant it was computed.
MissedNow ==
    \A i \in Instances : \A m \in todo[i] :
        /\ m.at = clock
        /\ m.enabled <=> Every[m.task] # 0
        /\ Every[m.task] # 0 => m.next > m.at

Timing == Fresh /\ Holders /\ Apart /\ Past /\ MissedNow

PInv == Core /\ Timing

LEMMA QueueCount ==
    ASSUME NEW i \in Instances
    PROVE  IsFiniteSet(QueuedIn(i)) /\ Cardinality(QueuedIn(i)) \in Nat
BY BoundAssumption, FS_Subset, FS_CardinalityType DEF QueuedIn

\* An executor's row is present, and its lease protects it.
LEMMA ExecutorHolds ==
    ASSUME IInv, Holders, NEW i \in Instances, NEW t \in Tasks, Executing(i, t)
    PROVE  /\ task[t].lease = slot[i][t].lease /\ task[t].lease # 0
           /\ task[t].expires > clock /\ Held(task[t], clock)
           /\ task[t].present
           /\ ~Expired(task[t], clock)
<1>1. /\ slot[i][t].lease \in 1 .. Len(runs[t])
      /\ task[t].lease = slot[i][t].lease
      /\ clock <= slot[i][t].beat /\ slot[i][t].beat < task[t].expires
  BY DEF IInv, SlotsHaveRuns, Executing, Holders, Owns
<1>2. /\ clock \in Nat /\ slot[i][t].beat \in Nat /\ task[t].expires \in Nat
      /\ Len(runs[t]) \in Nat
  BY LenProperties DEF IInv, TypeOK, TaskRow, Slot, Time
<1>3. task[t].lease # 0 /\ task[t].expires > clock
  BY <1>1, <1>2
<1> QED
  BY <1>1, <1>2, <1>3 DEF Held, Expired, IInv, AbsentUnleased

-----------------------------------------------------------------------------
(* What a step owes to the timing.                                         *)

\* No activation is queued.
QueueLess ==
    \A j \in Instances, u \in Tasks :
        /\ slot'[j][u].pc \in {"idle", "queued", "running"}
        /\ slot'[j][u].pc = "queued" =>
              slot[j][u].pc = "queued" /\ slot'[j][u].at = slot[j][u].at

\* A pool worker is only taken by a task of the queue.
PoolKept ==
    \A j \in Instances :
        \/ pool'[j] >= pool[j]
        \/ \A u \in Tasks : slot'[j][u].pc # "queued"
        \/ /\ pool'[j] >= pool[j] - 1
           /\ \E u \in Tasks : slot[j][u].pc = "queued" /\ slot'[j][u].pc # "queued"

\* No activation runs that did not, and none is revived.
RunningLess ==
    \A j \in Instances, u \in Tasks : slot'[j][u].pc = "running" =>
        /\ slot[j][u].pc = "running"
        /\ slot'[j][u].lease = slot[j][u].lease
        /\ slot'[j][u].beat = slot[j][u].beat
        /\ slot[j][u].abort => slot'[j][u].abort

\* Nothing touches the lease of an executor.
LeasesKept ==
    \A u \in Tasks :
        \/ task'[u].lease = task[u].lease /\ task'[u].expires = task[u].expires
        \/ \A j \in Instances : slot'[j][u].pc = "running" => slot'[j][u].abort

\* Nothing is claimed, and no retry is made up.
RunsKept ==
    \A u \in Tasks :
        /\ task'[u].retry # None => task'[u].retry = task[u].retry \/ task'[u].retry <= clock
        /\ \A n \in DOMAIN runs'[u] : n \in DOMAIN runs[u] /\ runs'[u][n].for = runs[u][n].for

LEMMA FreshAgain ==
    ASSUME IInv, IInv', Fresh, QueueLess, PoolKept, clock' = clock
    PROVE  Fresh'
<1> SUFFICES ASSUME NEW j \in Instances
             PROVE  /\ pool'[j] >= Cardinality(QueuedIn(j)')
                    /\ \A t \in Tasks :
                          /\ slot'[j][t].pc \in {"idle", "queued", "running"}
                          /\ slot'[j][t].pc = "queued" => slot'[j][t].at = clock'
  BY DEF Fresh
<1>1. \A t \in Tasks :
         /\ slot'[j][t].pc \in {"idle", "queued", "running"}
         /\ slot'[j][t].pc = "queued" => slot'[j][t].at = clock'
  BY DEF QueueLess, Fresh
<1> DEFINE old == QueuedIn(j)
           new == {t \in Tasks : slot'[j][t].pc = "queued"}
<1>2. IsFiniteSet(old) /\ Cardinality(old) \in Nat
  BY QueueCount
<1>3. new \subseteq old
  BY DEF QueueLess, QueuedIn
<1>4. IsFiniteSet(new) /\ Cardinality(new) \in Nat /\ Cardinality(new) <= Cardinality(old)
  BY <1>2, <1>3, FS_Subset, FS_CardinalityType
<1>5. pool[j] >= Cardinality(old) /\ pool[j] \in Nat /\ pool'[j] \in Nat
  BY DEF Fresh, IInv, TypeOK
<1>6. CASE pool'[j] >= pool[j]
  BY <1>1, <1>2, <1>4, <1>5, <1>6 DEF QueuedIn
<1>7. CASE \A u \in Tasks : slot'[j][u].pc # "queued"
  <2>1. new = {}
    BY <1>7
  <2>2. Cardinality(new) = 0
    BY <2>1, FS_EmptySet
  <2> QED
    BY <1>1, <1>5, <2>2 DEF QueuedIn
<1>8. CASE /\ pool'[j] >= pool[j] - 1
           /\ \E u \in Tasks : slot[j][u].pc = "queued" /\ slot'[j][u].pc # "queued"
  <2>1. PICK u \in Tasks : slot[j][u].pc = "queued" /\ slot'[j][u].pc # "queued"
    BY <1>8
  <2>2. u \in old /\ new \subseteq old \ {u}
    BY <1>3, <2>1 DEF QueuedIn
  <2> HIDE DEF old, new
  <2>3. IsFiniteSet(old \ {u}) /\ Cardinality(old \ {u}) = Cardinality(old) - 1
    BY <1>2, <2>2, FS_RemoveElement
  <2>4. Cardinality(new) <= Cardinality(old) - 1
    BY <2>2, <2>3, FS_Subset
  <2>5. pool'[j] >= Cardinality(new)
    BY <1>2, <1>4, <1>5, <1>8, <2>4
  <2> QED
    BY <1>1, <2>5 DEF QueuedIn, new
<1> QED
  BY <1>6, <1>7, <1>8 DEF PoolKept

LEMMA HoldersAgain ==
    ASSUME Holders, Apart, RunningLess, LeasesKept, clock' = clock
    PROVE  Holders' /\ Apart'
<1>1. Apart'
  BY DEF Apart, RunningLess
<1>2. Holders'
  <2> SUFFICES ASSUME NEW i \in Instances, NEW t \in Tasks,
                      slot'[i][t].pc = "running", ~slot'[i][t].abort
               PROVE  /\ task'[t].lease = slot'[i][t].lease
                      /\ clock' <= slot'[i][t].beat
                      /\ slot'[i][t].beat < task'[t].expires
    BY DEF Holders, Executing, Owns
  <2>1. /\ Executing(i, t)
        /\ slot'[i][t].lease = slot[i][t].lease
        /\ slot'[i][t].beat = slot[i][t].beat
    BY DEF RunningLess, Executing
  <2>2. task'[t].lease = task[t].lease /\ task'[t].expires = task[t].expires
    BY DEF LeasesKept
  <2> QED
    BY <2>1, <2>2 DEF Holders, Owns
<1> QED
  BY <1>1, <1>2

LEMMA PastAgain ==
    ASSUME Past, RunsKept, clock' = clock
    PROVE  Past'
BY DEF Past, RunsKept

\* The missed-run updates stay, go, or are computed now.
LEMMA MissedAgain ==
    ASSUME Core, MissedNow, [Next]_vars, clock' = clock
    PROVE  MissedNow'
<1> SUFFICES ASSUME NEW j \in Instances, NEW m \in todo'[j]
             PROVE  /\ m.at = clock'
                    /\ m.enabled <=> Every[m.task] # 0
                    /\ Every[m.task] # 0 => m.next > m.at
  BY DEF MissedNow
<1>1. CASE m \in todo[j]
  BY <1>1 DEF MissedNow
<1>2. CASE m \notin todo[j]
  <2>1. StartWorker(j)
    BY <1>2, TodoFound
  <2> DEFINE late == {u \in Tasks : /\ task[u].present /\ task[u].enabled
                                    /\ Policy[u] = "skip"
                                    /\ ~Held(task[u], clock)
                                    /\ task[u].next < clock}
  <2>2. todo'[j] = {Missed(t) : t \in late}
    BY <2>1 DEF StartWorker, Core, IInv, TypeOK
  <2>3. PICK t \in late : m = Missed(t)
    BY <2>2
  <2>4. t \in Tasks
    BY <2>3
  <2> HIDE DEF late
  <2>5. m.task = t /\ m.at = clock
        /\ (m.enabled <=> Every[t] # 0) /\ (Every[t] # 0 => m.next > clock)
    BY <2>3, <2>4, MissedValue
  <2> QED
    BY <2>5
<1> QED
  BY <1>1, <1>2

\* A step of one instant that queues and claims nothing.
LEMMA TimingAgain ==
    ASSUME PInv, IInv', [Next]_vars, clock' = clock,
           QueueLess, PoolKept, RunningLess, LeasesKept, RunsKept
    PROVE  Timing'
BY FreshAgain, HoldersAgain, PastAgain, MissedAgain DEF PInv, Core, Timing

-----------------------------------------------------------------------------
(* The timing of each step.                                                *)

LEMMA EndTaskTiming ==
    ASSUME IInv, Fresh, NEW i \in Instances, NEW t \in Tasks, NEW returns \in BOOLEAN,
           slot[i][t].pc = "running" \/ (slot[i][t].pc = "queued" /\ returns),
           EndTask(i, t, returns)
    PROVE  QueueLess /\ PoolKept /\ RunningLess
<1> DEFINE held == IF slot[i][t].pc = "queued" THEN 0 ELSE 1
           free == IF returns THEN pool[i] + held ELSE pool[i] + held - 1
           left == [slot[i] EXCEPT ![t] = IdleSlot]
           engaged == \E u \in Tasks : left[u].pc \in {"looping", "deferring", "running"}
           queued  == \E u \in Tasks : left[u].pc = "queued"
           over == ~engaged /\ (free = 0 \/ ~queued)
<1>1. /\ pool \in [Instances -> Nat] /\ slot \in [Instances -> [Tasks -> Slot]]
      /\ IdleSlot.pc = "idle"
  BY DEF IInv, TypeOK, IdleSlot
<1>2. \A j \in Instances, u \in Tasks :
         slot'[j][u] = slot[j][u] \/ (j = i /\ slot'[j][u] = IdleSlot)
  BY EndTaskShape
<1>3. QueueLess /\ RunningLess
  BY <1>1, <1>2 DEF QueueLess, RunningLess, Fresh
<1>4. free >= pool[i]
  BY <1>1
<1>5. /\ pool' = [pool EXCEPT ![i] = IF over THEN 0 ELSE free]
      /\ over => slot' = [slot EXCEPT ![i] = [u \in Tasks |-> IdleSlot]]
  BY DEF EndTask
<1> HIDE DEF over, free
<1>6. PoolKept
  <2> SUFFICES ASSUME NEW j \in Instances
               PROVE  pool'[j] >= pool[j] \/ \A u \in Tasks : slot'[j][u].pc # "queued"
    BY DEF PoolKept
  <2>1. CASE j # i
    <3>1. pool'[j] = pool[j] /\ pool[j] \in Nat
      BY <1>1, <1>5, <2>1
    <3> QED
      BY <3>1
  <2>2. CASE j = i /\ over
    BY <1>1, <1>5, <2>2
  <2>3. CASE j = i /\ ~over
    <3>1. pool'[j] = free
      BY <1>1, <1>5, <2>3
    <3> QED
      BY <1>4, <2>3, <3>1
  <2> QED
    BY <2>1, <2>2, <2>3
<1> QED
  BY <1>3, <1>6

\* Activations, pool and tables left alone.
LEMMA SameControl ==
    ASSUME IInv, Fresh, UNCHANGED <<slot, pool>>
    PROVE  QueueLess /\ PoolKept /\ RunningLess
<1>1. \A j \in Instances : pool'[j] >= pool[j]
  BY DEF IInv, TypeOK
<1> QED
  BY <1>1 DEF QueueLess, PoolKept, RunningLess, Fresh

LEMMA SameTables ==
    ASSUME UNCHANGED <<task, runs>>
    PROVE  LeasesKept /\ RunsKept
BY DEF LeasesKept, RunsKept

\* The length of the histories decides whether something was claimed.
LEMMA SameRuns ==
    ASSUME IInv, IInv', TablesCarried, \A u \in Tasks : Len(runs'[u]) = Len(runs[u])
    PROVE  \A u \in Tasks : \A n \in DOMAIN runs'[u] :
               n \in DOMAIN runs[u] /\ runs'[u][n].for = runs[u][n].for
<1> SUFFICES ASSUME NEW u \in Tasks, NEW n \in DOMAIN runs'[u]
             PROVE  n \in DOMAIN runs[u] /\ runs'[u][n].for = runs[u][n].for
  OBVIOUS
<1>1. DOMAIN runs'[u] = 1 .. Len(runs'[u]) /\ DOMAIN runs[u] = 1 .. Len(runs[u])
  BY LenProperties DEF IInv, TypeOK
<1> QED
  BY <1>1 DEF TablesCarried, Carried

\* A sweep spares executors.
LEMMA SweepTiming ==
    ASSUME PInv, IInv', AbandonExpiredLeases(clock), RunningLess
    PROVE  LeasesKept /\ RunsKept
<1>1. LeasesKept
  <2> SUFFICES ASSUME NEW u \in Tasks, NEW j \in Instances,
                      slot'[j][u].pc = "running", ~slot'[j][u].abort
               PROVE  task'[u].lease = task[u].lease /\ task'[u].expires = task[u].expires
    BY DEF LeasesKept
  <2>1. Executing(j, u)
    BY DEF RunningLess, Executing
  <2>2. ~Expired(task[u], clock)
    BY <2>1, ExecutorHolds DEF PInv, Core, Timing
  <2> QED
    BY <2>2 DEF AbandonExpiredLeases, SweptTask
<1>2. \A u \in Tasks : task'[u].retry = task[u].retry
  BY SweptCadence DEF PInv
<1>3. \A u \in Tasks : Len(runs'[u]) = Len(runs[u])
  <2> TAKE u \in Tasks
  <2>1. CASE Expired(task[u], clock)
    <3> DEFINE k == task[u].lease
    <3>1. runs'[u] = Settled(runs[u], k, "abandoned")
      BY <2>1 DEF AbandonExpiredLeases, SweptRuns
    <3>2. runs[u] \in Seq(RunRow) /\ k \in 1 .. Len(runs[u]) /\ "abandoned" \in RunStatus
      <4>1. /\ k \in 0 .. Len(runs[u]) /\ k # 0 /\ runs[u] \in Seq(RunRow)
            /\ Len(runs[u]) \in Nat
        BY <2>1, LenProperties DEF Expired, PInv, Core, IInv, TypeOK, RunningIsLeased
      <4> HIDE DEF k
      <4> QED
        BY <4>1 DEF RunStatus
    <3> HIDE DEF k
    <3> QED
      BY <3>1, <3>2, SettledRow
  <2>2. CASE ~Expired(task[u], clock)
    BY <2>2 DEF AbandonExpiredLeases, SweptRuns
  <2> QED
    BY <2>1, <2>2
<1>4. clock \in Nat
  BY DEF PInv, Core, IInv, TypeOK, Time
<1>5. TablesCarried
  BY <1>4, SweptTables DEF PInv
<1>6. RunsKept
  BY <1>2, <1>3, <1>5, SameRuns DEF RunsKept, PInv, Core
<1> QED
  BY <1>1, <1>6

\* The completion of a run releases a lease nobody else holds.
LEMMA CompletionTiming ==
    ASSUME PInv, IInv', TablesCarried, RunningLess,
           NEW i \in Instances, NEW t \in Tasks,
           Running(i, t), Owns(i, t), slot'[i][t].pc # "running",
           NEW status \in RunStatus, NEW enabled \in BOOLEAN, NEW next \in Nat,
           NEW retry \in Nat \cup {None}, retry # None => retry <= clock,
           CompleteClaim(t, slot[i][t].lease, status, enabled, next, retry)
    PROVE  LeasesKept /\ RunsKept
<1> DEFINE row == task[t]
           both == row.enabled /\ enabled
           rel == Release(row)
           row2 == Moved(rel, both, next, retry)
           h2 == Settled(runs[t], slot[i][t].lease, status)
<1>1. /\ task \in [Tasks -> TaskRow] /\ row \in TaskRow /\ runs \in [Tasks -> Seq(RunRow)]
      /\ slot[i][t].lease \in 1 .. Len(runs[t])
  BY OwnedRun DEF PInv, Core, IInv, TypeOK
<1>2. task' = [task EXCEPT ![t] = row2] /\ runs' = [runs EXCEPT ![t] = h2]
  BY DEF CompleteClaim
<1>3. row2.retry = retry
  <2>1. rel \in TaskRow /\ both \in BOOLEAN
    BY <1>1, ReleasedCadence
  <2> HIDE DEF rel, both
  <2> QED
    BY <2>1, MovedCadence
<1>4. Len(h2) = Len(runs[t])
  BY <1>1, SettledRow
<1> HIDE DEF row2, h2
<1>5. \A u \in Tasks : /\ u # t => task'[u] = task[u]
                       /\ Len(runs'[u]) = Len(runs[u])
                       /\ task'[u].retry \in {task[u].retry, retry}
  BY <1>1, <1>2, <1>3, <1>4
<1>6. LeasesKept
  <2> SUFFICES ASSUME NEW j \in Instances, slot'[j][t].pc = "running", ~slot'[j][t].abort
               PROVE  FALSE
    BY <1>5 DEF LeasesKept
  <2>1. Executing(j, t) /\ j # i
    BY DEF RunningLess, Executing
  <2>2. slot[j][t].lease = slot[i][t].lease
    BY <2>1, ExecutorHolds DEF PInv, Core, Timing, Owns
  <2> QED
    BY <2>1, <2>2 DEF PInv, Timing, Apart, Running, Executing
<1>7. RunsKept
  BY <1>5, SameRuns DEF RunsKept, PInv, Core
<1> QED
  BY <1>6, <1>7

\* What the steps of one instant that queue and claim nothing have in common.
TimingKept == QueueLess /\ PoolKept /\ RunningLess /\ LeasesKept /\ RunsKept

LEMMA PassTiming ==
    ASSUME PInv, NEW i \in Instances, NEW t \in Tasks, Pass(i, t)
    PROVE  TimingKept
<1>1. slot[i][t].pc = "queued" /\ EndTask(i, t, TRUE)
  BY DEF Pass, Ready, PInv, Timing, Fresh
<1>2. QueueLess /\ PoolKept /\ RunningLess
  BY <1>1, EndTaskTiming DEF PInv, Core, Timing
<1> QED
  BY <1>2, SameTables DEF Pass, TimingKept

LEMMA FinishTiming ==
    ASSUME PInv, IInv', Punctual, TablesCarried,
           NEW i \in Instances, NEW t \in Tasks, Finish(i, t)
    PROVE  TimingKept
<1> DEFINE s == slot[i][t]
           run == runs[t][s.lease]
<1>1. /\ Running(i, t) /\ s.pc = "running"
      /\ EndTask(i, t, TRUE) \/ EndTask(i, t, FALSE)
  BY DEF Finish, LateSettlement, FinishCancelled, FinishRetry, FinishExhausted,
         FinishSuccess, Running, Punctual
<1>2. QueueLess /\ PoolKept /\ RunningLess
  BY <1>1, EndTaskTiming DEF PInv, Core, Timing
<1>3. slot'[i][t].pc # "running"
  <2>1. slot'[i][t] = IdleSlot
    BY <1>1, EndTaskShape DEF PInv, Core
  <2> QED
    BY <2>1 DEF IdleSlot
<1>4. CASE LateSettlement(i, t)
  BY <1>2, <1>4, SameTables DEF LateSettlement, TimingKept
<1>5. CASE ~LateSettlement(i, t)
  <2>1. Owns(i, t)
    BY <1>5 DEF Finish, FinishCancelled, FinishRetry, FinishExhausted, FinishSuccess
  <2>2. /\ s \in Slot /\ s.lease \in 1 .. Len(runs[t]) /\ run \in RunRow
        /\ clock \in Nat /\ None \in Nat \cup {None}
    BY <1>1, <2>1, OwnedRun DEF PInv, Core, IInv, TypeOK, Time
  <2>3. run.for \in Nat /\ run.for <= clock
    <3>1. s.lease \in DOMAIN runs[t]
      BY <2>2, LenProperties DEF PInv, Core, IInv, TypeOK
    <3>2. run.for <= clock
      BY <3>1 DEF PInv, Timing, Past
    <3> HIDE DEF run
    <3> QED
      BY <2>2, <3>2 DEF RunRow, Time
  <2>4. "cancelled" \in RunStatus /\ "error" \in RunStatus /\ "success" \in RunStatus
        /\ TRUE \in BOOLEAN
    BY DEF RunStatus
  <2>5. CASE FinishCancelled(i, t)
    <3>1. /\ CompleteClaim(t, s.lease, "cancelled", TRUE, s.next, s.retry)
          /\ s.next \in Nat /\ s.retry \in Nat \cup {None}
      BY <2>2, <2>5 DEF FinishCancelled, Slot, Time
    <3>2. s.retry # None => s.retry <= clock
      BY <1>1, <2>3 DEF PInv, Core, Remembers, Anchor
    <3>3. LeasesKept /\ RunsKept
      BY <1>1, <1>2, <1>3, <2>1, <2>4, <3>1, <3>2, CompletionTiming
    <3> QED
      BY <1>2, <3>3 DEF TimingKept
  <2>6. CASE FinishRetry(i, t)
    <3> DEFINE next == clock + Backoff[run.attempt]
    <3>1. next \in Nat
      <4>1. run.attempt \in 1 .. MaxAttempts
        <5>1. run.attempt < MaxAttempts
          BY <2>6 DEF FinishRetry
        <5> HIDE DEF run
        <5> QED
          BY <2>2, <5>1, TimingAssumption DEF RunRow, Time
      <4> DEFINE n == run.attempt
      <4> HIDE DEF n
      <4>2. n \in 1 .. MaxAttempts
        BY <4>1 DEF n
      <4> DEFINE b == Backoff[n]
      <4>3. b \in Nat
        BY ONLY <4>2, TimingAssumption
      <4>4. next = clock + b
        BY DEF n
      <4> HIDE DEF b, next
      <4>5. clock \in Nat
        BY <2>2
      <4> QED
        BY ONLY <4>3, <4>4, <4>5
    <3>2. CompleteClaim(t, s.lease, "error", TRUE, next, run.for)
      BY <2>6 DEF FinishRetry
    <3>3. run.for \in Nat \cup {None}
      BY <2>3
    <3> HIDE DEF next, run
    <3>4. LeasesKept /\ RunsKept
      BY <1>1, <1>2, <1>3, <2>1, <2>3, <2>4, <3>1, <3>2, <3>3, CompletionTiming
    <3> QED
      BY <1>2, <3>4 DEF TimingKept
  <2>7. CASE FinishExhausted(i, t) \/ FinishSuccess(i, t)
    <3> DEFINE to == SuccessNextRun(t, s.next, run.for, clock)
    <3>1. to.enabled \in BOOLEAN /\ to.next \in Nat
      <4>1. s.next \in Nat
        BY <2>2 DEF Slot, Time
      <4> QED
        BY <2>2, <2>3, <4>1, SettledNext
    <3>2. \/ CompleteClaim(t, s.lease, "error", to.enabled, to.next, None)
          \/ CompleteClaim(t, s.lease, "success", to.enabled, to.next, None)
      BY <2>7 DEF FinishExhausted, FinishSuccess
    <3> HIDE DEF to
    <3>3. LeasesKept /\ RunsKept
      BY <1>1, <1>2, <1>3, <2>1, <2>2, <2>4, <3>1, <3>2, CompletionTiming
    <3> QED
      BY <1>2, <3>3 DEF TimingKept
  <2> QED
    BY <1>5, <2>5, <2>6, <2>7 DEF Finish
<1> QED
  BY <1>4, <1>5

LEMMA ScheduleTiming ==
    ASSUME PInv, NEW i \in Instances, NEW t \in Tasks, Schedule(i, t)
    PROVE  TimingKept
<1>1. QueueLess /\ PoolKept /\ RunningLess
  BY SameControl DEF Schedule, PInv, Core, Timing
<1>2. \A j \in Instances : slot'[j][t].pc = "running" => slot'[j][t].abort
  <2>1. \A j \in Instances : ~Executing(j, t)
    BY ExecutorHolds DEF Schedule, PInv, Core, Timing
  <2> QED
    BY <2>1 DEF Schedule, Executing
<1>3. PICK start \in Anchors :
         task' = [task EXCEPT ![t] = [Absent EXCEPT !.present = TRUE,
                                                    !.enabled = TRUE,
                                                    !.next = start]]
  BY DEF Schedule
<1>4. \A u \in Tasks : task'[u].retry = None \/ task'[u] = task[u]
  BY <1>3 DEF PInv, Core, IInv, TypeOK, Absent
<1>5. \A u \in Tasks : u # t => task'[u] = task[u]
  BY <1>3 DEF PInv, Core, IInv, TypeOK
<1> QED
  BY <1>1, <1>2, <1>4, <1>5 DEF TimingKept, LeasesKept, RunsKept, Schedule

LEMMA CancelTiming ==
    ASSUME PInv, NEW i \in Instances, NEW t \in Tasks, Cancel(i, t)
    PROVE  TimingKept
<1> DEFINE ab == slot[i][t].abort \/ slot[i][t].pc = "running"
           s == [slot[i][t] EXCEPT !.abort = ab]
<1>1. /\ slot \in [Instances -> [Tasks -> Slot]] /\ slot[i][t] \in Slot
      /\ task \in [Tasks -> TaskRow] /\ pool \in [Instances -> Nat]
  BY DEF PInv, Core, IInv, TypeOK
<1>2. slot' = [slot EXCEPT ![i] = [slot[i] EXCEPT ![t] = s]]
  BY DEF Cancel
<1>3. /\ s.pc = slot[i][t].pc /\ s.lease = slot[i][t].lease
      /\ s.beat = slot[i][t].beat /\ s.at = slot[i][t].at
      /\ slot[i][t].abort => s.abort
  BY <1>1 DEF Slot
<1> HIDE DEF s
<1>4. \A j \in Instances, u \in Tasks :
         slot'[j][u] = slot[j][u] \/ (j = i /\ u = t /\ slot'[j][u] = s)
  BY <1>1, <1>2
<1>5. QueueLess /\ RunningLess
  BY <1>3, <1>4 DEF QueueLess, RunningLess, PInv, Timing, Fresh
<1>6. PoolKept
  BY <1>1 DEF PoolKept, Cancel
<1>7. \A u \in Tasks : /\ task'[u].lease = task[u].lease
                       /\ task'[u].expires = task[u].expires
                       /\ task'[u].retry = task[u].retry
  <2> DEFINE row2 == [task[t] EXCEPT !.enabled = FALSE]
  <2>1. /\ row2.lease = task[t].lease /\ row2.expires = task[t].expires
        /\ row2.retry = task[t].retry
    BY <1>1 DEF TaskRow
  <2>2. task' = [task EXCEPT ![t] = row2]
    BY DEF Cancel
  <2> HIDE DEF row2
  <2> QED
    BY <1>1, <2>1, <2>2
<1>8. LeasesKept /\ RunsKept
  BY <1>7 DEF LeasesKept, RunsKept, Cancel
<1> QED
  BY <1>5, <1>6, <1>8 DEF TimingKept

LEMMA RemoveTiming ==
    ASSUME PInv, IInv', TablesCarried, NEW i \in Instances, NEW t \in Tasks, Remove(i, t)
    PROVE  TimingKept
<1>1. QueueLess /\ PoolKept /\ RunningLess
  BY SameControl DEF Remove, PInv, Core, Timing
<1>2. \A j \in Instances : slot'[j][t].pc = "running" => slot'[j][t].abort
  <2>1. \A j \in Instances : ~Executing(j, t)
    BY ExecutorHolds DEF Remove, PInv, Core, Timing
  <2> QED
    BY <2>1 DEF Remove, Executing
<1>3. task \in [Tasks -> TaskRow] /\ runs \in [Tasks -> Seq(RunRow)]
  BY DEF PInv, Core, IInv, TypeOK
<1>4. \A u \in Tasks : /\ u # t => task'[u] = task[u]
                       /\ task'[u].retry = None \/ task'[u] = task[u]
  BY <1>3 DEF Remove, Absent
<1> DEFINE h == runs[t]
           gone == [n \in DOMAIN h |-> [h[n] EXCEPT !.status = "removed"]]
<1>5. \A u \in Tasks : Len(runs'[u]) = Len(runs[u])
  <2>1. runs'[t] = gone /\ \A u \in Tasks : u # t => runs'[u] = runs[u]
    BY <1>3 DEF Remove
  <2>2. DOMAIN runs'[t] = DOMAIN h
    BY <2>1
  <2>3. /\ DOMAIN h = 1 .. Len(h) /\ DOMAIN runs'[t] = 1 .. Len(runs'[t])
        /\ Len(h) \in Nat /\ Len(runs'[t]) \in Nat
    BY LenProperties DEF PInv, Core, IInv, TypeOK
  <2> HIDE DEF h, gone
  <2>4. Len(runs'[t]) = Len(h)
    BY <2>2, <2>3
  <2> QED
    BY <2>1, <2>4 DEF h
<1>6. LeasesKept
  BY <1>2, <1>4 DEF LeasesKept
<1>7. RunsKept
  BY <1>4, <1>5, SameRuns DEF RunsKept, PInv, Core
<1> QED
  BY <1>1, <1>6, <1>7 DEF TimingKept

LEMMA StartTiming ==
    ASSUME PInv, IInv', NEW i \in Instances, Start(i)
    PROVE  TimingKept
<1>1. QueueLess /\ PoolKept /\ RunningLess
  BY SameControl DEF Start, StartWorker, SkipMissed, StartFails, PInv, Core, Timing
<1>2. CASE StartWorker(i)
  BY <1>1, <1>2, SweepTiming DEF StartWorker, TimingKept
<1>3. CASE \E m \in todo[i] : StartFails(i, m)
  BY <1>1, <1>3, SameTables DEF StartFails, TimingKept
<1>4. ASSUME NEW m \in todo[i], SkipMissed(i, m)
      PROVE  LeasesKept /\ RunsKept
  <2> DEFINE t == m.task
             row == task[t]
             row2 == Moved(row, m.enabled, m.next, row.retry)
  <2>1. /\ m \in MissedUpdate /\ t \in Tasks /\ task \in [Tasks -> TaskRow]
    BY DEF PInv, Core, IInv, TypeOK, MissedUpdate
  <2>2. /\ row \in TaskRow /\ m.enabled \in BOOLEAN /\ m.next \in Nat
        /\ row.retry \in Nat \cup {None}
    BY <2>1 DEF MissedUpdate, TaskRow, Time
  <2>3. task' = [task EXCEPT ![t] = row2] /\ runs' = runs
    BY <1>4 DEF SkipMissed
  <2>4. row2.lease = row.lease /\ row2.expires = row.expires /\ row2.retry = row.retry
    <3> DEFINE enabled == m.enabled
               next == m.next
               retry == row.retry
    <3>1. row \in TaskRow /\ enabled \in BOOLEAN /\ next \in Nat /\ retry \in Nat \cup {None}
      BY <2>2
    <3> HIDE DEF row, enabled, next, retry
    <3>2. /\ Moved(row, enabled, next, retry).lease = row.lease
          /\ Moved(row, enabled, next, retry).expires = row.expires
          /\ Moved(row, enabled, next, retry).retry = retry
      BY ONLY <3>1, MovedCadence, Z3
    <3> QED
      BY <3>2 DEF enabled, next, retry
  <2> HIDE DEF row2
  <2>5. \A u \in Tasks : /\ task'[u].lease = task[u].lease
                         /\ task'[u].expires = task[u].expires
                         /\ task'[u].retry = task[u].retry
    BY <2>1, <2>3, <2>4
  <2> QED
    BY <2>3, <2>5 DEF LeasesKept, RunsKept
<1> QED
  BY <1>1, <1>2, <1>3, <1>4 DEF Start, TimingKept

LEMMA HaltTiming ==
    ASSUME PInv, NEW i \in Instances, StopWorker(i) \/ Crash(i)
    PROVE  TimingKept
<1> DEFINE halted == [t \in Tasks |-> IF slot[i][t].pc = "running"
                                      THEN [slot[i][t] EXCEPT !.abort = TRUE]
                                      ELSE IdleSlot]
           idle == [t \in Tasks |-> IdleSlot]
<1>1. /\ slot \in [Instances -> [Tasks -> Slot]] /\ pool \in [Instances -> Nat]
      /\ IdleSlot.pc = "idle"
  BY DEF PInv, Core, IInv, TypeOK, IdleSlot
<1>2. /\ slot' = [slot EXCEPT ![i] = halted] \/ slot' = [slot EXCEPT ![i] = idle]
      /\ pool' = [pool EXCEPT ![i] = 0]
      /\ UNCHANGED <<task, runs>>
  BY DEF StopWorker, Crash
<1>3. \A u \in Tasks : /\ idle[u].pc = "idle"
                       /\ slot[i][u].pc # "running" => halted[u].pc = "idle"
                       /\ slot[i][u].pc = "running" =>
                             /\ halted[u].pc = "running" /\ halted[u].abort
                             /\ halted[u].lease = slot[i][u].lease
                             /\ halted[u].beat = slot[i][u].beat
  <2> TAKE u \in Tasks
  <2>1. slot[i][u] \in Slot
    BY <1>1
  <2>2. CASE slot[i][u].pc = "running"
    <3> DEFINE s == [slot[i][u] EXCEPT !.abort = TRUE]
    <3>1. halted[u] = s
      BY <2>2
    <3>2. /\ s.pc = slot[i][u].pc /\ s.abort /\ s.lease = slot[i][u].lease
          /\ s.beat = slot[i][u].beat
      BY <2>1 DEF Slot
    <3> HIDE DEF s, halted
    <3> QED
      BY <1>1, <2>2, <3>1, <3>2
  <2>3. CASE slot[i][u].pc # "running"
    BY <1>1, <2>3
  <2> QED
    BY <2>2, <2>3
<1> HIDE DEF halted, idle
<1>4. /\ \A j \in Instances : j # i => slot'[j] = slot[j] /\ pool'[j] = pool[j]
      /\ slot'[i] = halted \/ slot'[i] = idle
  BY <1>1, <1>2
<1>5. QueueLess /\ RunningLess
  BY <1>3, <1>4 DEF QueueLess, RunningLess, PInv, Timing, Fresh
<1>6. PoolKept
  <2> SUFFICES ASSUME NEW j \in Instances
               PROVE  pool'[j] >= pool[j] \/ \A u \in Tasks : slot'[j][u].pc # "queued"
    BY DEF PoolKept
  <2>1. CASE j = i
    BY <1>3, <1>4, <2>1
  <2>2. CASE j # i
    BY <1>1, <1>4, <2>2
  <2> QED
    BY <2>1, <2>2
<1> QED
  BY <1>2, <1>5, <1>6, SameTables DEF TimingKept

\* A tick queues at most as many tasks as its pass has pool workers.
LEMMA TickTiming ==
    ASSUME PInv, IInv', [Next]_vars, Punctual, NEW i \in Instances, Tick(i)
    PROVE  Timing'
<1> DEFINE due == {t \in Tasks : Listed(task[t], clock)}
           some == Cardinality(due)
           pass == [t \in Tasks |->
              IF t \in due
              THEN [IdleSlot EXCEPT !.pc = "queued", !.at = clock,
                       !.left = IF Policy[t] = "catch-up" THEN MaxCatchUpRuns ELSE 1]
              ELSE IdleSlot]
<1>1. /\ slot \in [Instances -> [Tasks -> Slot]] /\ pool \in [Instances -> Nat]
      /\ clock' = clock /\ clock \in Nat
  BY DEF PInv, Core, IInv, TypeOK, Time, Tick
<1>2. /\ slot' = [slot EXCEPT ![i] = pass]
      /\ pool' = [pool EXCEPT ![i] = Min({MaxConcurrent, some})]
      /\ \A t \in Tasks : slot[i][t].pc = "idle"
      /\ AbandonExpiredLeases(clock)
  BY DEF Tick
<1>3. \A t \in Tasks : /\ t \in due => pass[t].pc = "queued" /\ pass[t].at = clock
                       /\ t \notin due => pass[t].pc = "idle"
  <2> TAKE t \in Tasks
  <2>1. CASE t \in due
    <3> DEFINE left == IF Policy[t] = "catch-up" THEN MaxCatchUpRuns ELSE 1
               s == [IdleSlot EXCEPT !.pc = "queued", !.at = clock, !.left = left]
    <3>1. s.pc = "queued" /\ s.at = clock
      <4> HIDE DEF left
      <4> QED
        BY DEF IdleSlot
    <3>2. pass[t] = s
      BY <2>1
    <3> HIDE DEF pass, s
    <3> QED
      BY <2>1, <3>1, <3>2
  <2>2. CASE t \notin due
    BY <2>2 DEF IdleSlot
  <2> QED
    BY <2>1, <2>2
<1>4. /\ IsFiniteSet(due) /\ some \in Nat /\ some <= MaxConcurrent /\ MaxConcurrent \in Nat
  BY BoundAssumption, FS_Subset, FS_CardinalityType DEF Punctual
<1>5. due \subseteq Tasks
  OBVIOUS
<1> HIDE DEF pass, due
<1>6. /\ \A j \in Instances : j # i => slot'[j] = slot[j] /\ pool'[j] = pool[j]
      /\ slot'[i] = pass /\ pool'[i] = Min({MaxConcurrent, some})
  BY <1>1, <1>2
<1>7. Min({MaxConcurrent, some}) >= some
  <2> HIDE DEF some
  <2>1. {MaxConcurrent, some} \in SUBSET Nat /\ {MaxConcurrent, some} # {}
    BY <1>4
  <2>2. Min({MaxConcurrent, some}) \in {MaxConcurrent, some}
    BY <2>1, MinOfNaturals
  <2> QED
    BY <1>4, <2>2
<1>8. Fresh'
  <2> SUFFICES ASSUME NEW j \in Instances
               PROVE  /\ pool'[j] >= Cardinality(QueuedIn(j)')
                      /\ \A t \in Tasks :
                            /\ slot'[j][t].pc \in {"idle", "queued", "running"}
                            /\ slot'[j][t].pc = "queued" => slot'[j][t].at = clock'
    BY DEF Fresh
  <2>1. CASE j = i
    <3>1. {t \in Tasks : slot'[j][t].pc = "queued"} = due
      BY <1>3, <1>5, <1>6, <2>1
    <3>2. pool'[j] >= Cardinality(QueuedIn(j)')
      BY <1>6, <1>7, <2>1, <3>1 DEF QueuedIn
    <3> QED
      BY <1>1, <1>3, <1>6, <2>1, <3>2
  <2>2. CASE j # i
    <3>1. {t \in Tasks : slot'[j][t].pc = "queued"} = {t \in Tasks : slot[j][t].pc = "queued"}
      BY <1>6, <2>2
    <3> QED
      BY <1>1, <1>6, <2>2, <3>1 DEF QueuedIn, PInv, Timing, Fresh
  <2> QED
    BY <2>1, <2>2
<1>9. RunningLess
  BY <1>3, <1>6 DEF RunningLess
<1>10. LeasesKept /\ RunsKept
  BY <1>2, <1>9, SweepTiming
<1> QED
  BY <1>1, <1>8, <1>9, <1>10, HoldersAgain, PastAgain, MissedAgain DEF PInv, Timing

\* A claim finds no executor, and makes one whose lease outlasts its first
\* heartbeat.
LEMMA ClaimTiming ==
    ASSUME PInv, IInv', [Next]_vars, Punctual, TablesCarried,
           NEW i \in Instances, NEW t \in Tasks, Claim(i, t)
    PROVE  Timing'
<1> DEFINE id == Len(runs[t]) + 1
<1>1. /\ slot[i][t].pc = "queued" /\ pool[i] > 0 /\ slot[i][t].at = clock
      /\ clock' = clock
  BY DEF Claim, Ready, PInv, Timing, Fresh
<1>2. /\ slot \in [Instances -> [Tasks -> Slot]] /\ pool \in [Instances -> Nat]
      /\ clock \in Nat /\ runs[t] \in Seq(RunRow) /\ Len(runs[t]) \in Nat
      /\ task[t] \in TaskRow /\ IInv
  BY LenProperties DEF PInv, Core, IInv, TypeOK, Time
<1>3. /\ slot'[i][t].pc = "running" /\ slot'[i][t].lease = id
      /\ slot'[i][t].beat = clock + Beat
      /\ \A j \in Instances, u \in Tasks :
            slot'[j][u] = slot[j][u] \/ (j = i /\ u = t)
      /\ task'[t].lease = id /\ task'[t].expires = clock + Lease
      /\ task'[t].retry = task[t].retry
      /\ \A u \in Tasks : u # t => task'[u] = task[u] /\ runs'[u] = runs[u]
  BY <1>1, <1>2, ClaimShape
<1>4. \A j \in Instances : ~Executing(j, t)
  BY <1>1, ExecutorHolds DEF Claim, PInv, Core, Timing
<1>5. Fresh'
  <2>1. QueueLess
    BY <1>3 DEF QueueLess, PInv, Timing, Fresh
  <2>2. PoolKept
    <3>1. pool' = [pool EXCEPT ![i] = pool[i] - 1]
      BY <1>1 DEF Claim, Enter
    <3>2. \A j \in Instances : j # i => pool'[j] = pool[j] /\ pool[j] \in Nat
      BY <1>2, <3>1
    <3>3. pool'[i] = pool[i] - 1 /\ pool[i] \in Nat
      BY <1>2, <3>1
    <3>4. slot[i][t].pc = "queued" /\ slot'[i][t].pc # "queued"
      BY <1>1, <1>3
    <3> QED
      BY <3>2, <3>3, <3>4 DEF PoolKept
  <2> QED
    BY <1>1, <1>2, <2>1, <2>2, FreshAgain DEF PInv, Timing
<1>6. Apart'
  <2>1. \A j \in Instances : slot[j][t].pc = "running" => slot[j][t].lease # id
    <3> TAKE j \in Instances
    <3> HAVE slot[j][t].pc = "running"
    <3>1. slot[j][t].lease \in 1 .. Len(runs[t])
      BY <1>2 DEF IInv, SlotsHaveRuns
    <3> QED
      BY <1>2, <3>1
  <2> SUFFICES ASSUME NEW j \in Instances, NEW k \in Instances, NEW u \in Tasks,
                      slot'[j][u].pc = "running", slot'[k][u].pc = "running",
                      slot'[j][u].lease = slot'[k][u].lease
               PROVE  j = k
    BY DEF Apart
  <2> HIDE DEF id
  <2>2. CASE u = t
    BY <1>3, <2>1, <2>2 DEF PInv, Timing, Apart
  <2>3. CASE u # t
    BY <1>3, <2>3 DEF PInv, Timing, Apart
  <2> QED
    BY <2>2, <2>3
<1>7. Holders'
  <2> SUFFICES ASSUME NEW j \in Instances, NEW u \in Tasks,
                      slot'[j][u].pc = "running", ~slot'[j][u].abort
               PROVE  /\ task'[u].lease = slot'[j][u].lease
                      /\ clock' <= slot'[j][u].beat
                      /\ slot'[j][u].beat < task'[u].expires
    BY DEF Holders, Executing, Owns
  <2>1. CASE j = i /\ u = t
    <3>1. clock <= clock + Beat /\ clock + Beat < clock + Lease
      BY <1>2, TimingAssumption DEF Punctual
    <3> QED
      BY <1>1, <1>3, <2>1, <3>1
  <2>2. CASE ~(j = i /\ u = t)
    <3>1. slot'[j][u] = slot[j][u] /\ Executing(j, u)
      BY <1>3, <2>2 DEF Executing
    <3>2. u # t
      BY <1>4, <3>1
    <3> QED
      BY <1>1, <1>3, <3>1, <3>2 DEF PInv, Timing, Holders, Owns
  <2> QED
    BY <2>1, <2>2
<1>8. Past'
  <2>1. Anchor(task[t]) <= clock
    <3>1. task[t].next <= clock
      BY <1>1 DEF Claim, Due
    <3> QED
      BY <3>1 DEF Anchor, PInv, Timing, Past
  <2>2. \A n \in DOMAIN runs'[t] : runs'[t][n].for <= clock
    <3> TAKE n \in DOMAIN runs'[t]
    <3>1. /\ runs'[t][id].for = Anchor(task[t]) /\ Len(runs'[t]) = id
      BY ClaimCarries DEF PInv
    <3>2. n \in 1 .. id
      BY <3>1, LenProperties DEF IInv, TypeOK
    <3>3. CASE n = id
      BY <2>1, <3>1, <3>3
    <3>4. CASE n # id
      <4>1. n \in 1 .. Len(runs[t]) /\ n \in DOMAIN runs[t]
        <5>1. n \in 1 .. Len(runs[t])
          BY <1>2, <3>2, <3>4
        <5> QED
          BY <1>2, <5>1, LenProperties
      <4>2. runs'[t][n].for = runs[t][n].for
        BY <4>1 DEF TablesCarried, Carried
      <4> QED
        BY <4>1, <4>2 DEF PInv, Timing, Past
    <3> QED
      BY <3>3, <3>4
  <2> QED
    BY <1>1, <1>3, <2>2 DEF PInv, Timing, Past
<1>9. MissedNow'
  BY <1>1, MissedAgain DEF PInv, Timing
<1> QED
  BY <1>5, <1>6, <1>7, <1>8, <1>9 DEF Timing

\* A heartbeat extends the lease of the one executor that has it.
LEMMA RenewalTiming ==
    ASSUME PInv, IInv', [Next]_vars, Punctual, NEW i \in Instances, NEW t \in Tasks,
           Heartbeat(i, t), Owns(i, t)
    PROVE  Timing'
<1>1. /\ slot \in [Instances -> [Tasks -> Slot]] /\ slot[i][t] \in Slot
      /\ task \in [Tasks -> TaskRow] /\ task[t] \in TaskRow
      /\ pool \in [Instances -> Nat] /\ clock \in Nat
  BY DEF PInv, Core, IInv, TypeOK, Time
<1>2. /\ slot[i][t].pc = "running" /\ clock' = clock
      /\ UNCHANGED <<runs, pool>>
  BY DEF Heartbeat, Running
<1>3. Owns(i, t)
  OBVIOUS
<1> DEFINE s == [slot[i][t] EXCEPT !.beat = clock + Beat]
           row == task[t]
           id == row.lease
           until == clock + Lease
           row2 == Leased(row, id, until)
<1>4. /\ slot' = [slot EXCEPT ![i] = [slot[i] EXCEPT ![t] = s]]
      /\ task' = [task EXCEPT ![t] = row2]
  BY <1>3 DEF Heartbeat
<1>5. /\ s.pc = slot[i][t].pc /\ s.at = slot[i][t].at /\ s.lease = slot[i][t].lease
      /\ s.abort = slot[i][t].abort /\ s.beat = clock + Beat
  BY <1>1 DEF Slot
<1>6. row2.lease = row.lease /\ row2.expires = until /\ row2.retry = row.retry
  <2>1. row \in TaskRow /\ id \in Nat /\ until \in Nat
    BY <1>1, TimingAssumption DEF TaskRow
  <2> HIDE DEF row, id, until
  <2>2. /\ row2.lease = id /\ row2.expires = until /\ row2.retry = row.retry
    BY <2>1, LeasedCadence
  <2> QED
    BY <2>2 DEF id
<1> HIDE DEF s, row2
<1>7. /\ \A j \in Instances, u \in Tasks :
            slot'[j][u] = slot[j][u] \/ (j = i /\ u = t)
      /\ slot'[i][t] = s
      /\ \A u \in Tasks : u # t => task'[u] = task[u]
      /\ task'[t] = row2
  BY <1>1, <1>4
<1>8. Fresh'
  <2>1. QueueLess
    BY <1>2, <1>5, <1>7 DEF QueueLess, PInv, Timing, Fresh
  <2>2. PoolKept
    BY <1>1, <1>2 DEF PoolKept
  <2> QED
    BY <1>2, <2>1, <2>2, FreshAgain DEF PInv, Core, Timing
<1>9. \A j \in Instances, u \in Tasks : /\ slot'[j][u].pc = slot[j][u].pc
                                        /\ slot'[j][u].lease = slot[j][u].lease
                                        /\ slot'[j][u].abort = slot[j][u].abort
  BY <1>5, <1>7
<1>10. Apart'
  BY <1>9 DEF PInv, Timing, Apart
<1>11. Holders'
  <2> SUFFICES ASSUME NEW j \in Instances, NEW u \in Tasks,
                      slot'[j][u].pc = "running", ~slot'[j][u].abort
               PROVE  /\ task'[u].lease = slot'[j][u].lease
                      /\ clock' <= slot'[j][u].beat
                      /\ slot'[j][u].beat < task'[u].expires
    BY DEF Holders, Executing, Owns
  <2>1. Executing(j, u) /\ Owns(j, u)
    BY <1>9 DEF Executing, PInv, Timing, Holders
  <2>2. CASE u = t
    <3>1. slot[j][t].lease = slot[i][t].lease
      BY <1>3, <2>1, <2>2 DEF Owns
    <3>2. j = i
      BY <1>2, <2>1, <2>2, <3>1 DEF PInv, Timing, Apart, Executing
    <3>3. clock <= clock + Beat /\ clock + Beat < until
      BY <1>1, TimingAssumption DEF Punctual
    <3> HIDE DEF until
    <3> QED
      BY <1>2, <1>3, <1>5, <1>6, <1>7, <2>2, <3>2, <3>3 DEF Owns
  <2>3. CASE u # t
    <3>1. slot'[j][u] = slot[j][u] /\ task'[u] = task[u]
      BY <1>7, <2>3
    <3> QED
      BY <1>2, <2>1, <3>1 DEF PInv, Timing, Holders, Owns
  <2> QED
    BY <2>2, <2>3
<1>12. Past'
  <2>1. \A u \in Tasks : task'[u].retry = task[u].retry
    BY <1>6, <1>7
  <2> QED
    BY <1>2, <2>1 DEF PInv, Timing, Past
<1>13. MissedNow'
  BY <1>2, MissedAgain DEF PInv, Timing
<1> QED
  BY <1>8, <1>10, <1>11, <1>12, <1>13 DEF Timing

\* The heartbeat of an executor that lost its lease aborts it.
LEMMA LostLeaseTiming ==
    ASSUME PInv, IInv', [Next]_vars, Punctual, NEW i \in Instances, NEW t \in Tasks,
           Heartbeat(i, t), ~Owns(i, t)
    PROVE  Timing'
<1>1. /\ slot \in [Instances -> [Tasks -> Slot]] /\ slot[i][t] \in Slot
      /\ pool \in [Instances -> Nat]
  BY DEF PInv, Core, IInv, TypeOK
<1> DEFINE s == [slot[i][t] EXCEPT !.abort = TRUE]
<1>2. /\ slot[i][t].pc = "running" /\ slot' = [slot EXCEPT ![i] = [slot[i] EXCEPT ![t] = s]]
      /\ UNCHANGED <<clock, task, runs, todo, pool>>
  BY DEF Heartbeat, Running
<1>3. s.pc = "running" /\ s.lease = slot[i][t].lease /\ s.abort
  BY <1>1, <1>2 DEF Slot
<1> HIDE DEF s
<1>4. \A j \in Instances, u \in Tasks :
         slot'[j][u] = slot[j][u] \/ (j = i /\ u = t /\ slot'[j][u] = s)
  BY <1>1, <1>2
<1>5. Fresh'
  <2>1. QueueLess
    BY <1>3, <1>4 DEF QueueLess, PInv, Timing, Fresh
  <2>2. PoolKept
    BY <1>1, <1>2 DEF PoolKept
  <2> QED
    BY <1>2, <2>1, <2>2, FreshAgain DEF PInv, Core, Timing
<1>6. Apart'
  <2>1. \A j \in Instances, u \in Tasks :
           slot'[j][u].pc = slot[j][u].pc /\ slot'[j][u].lease = slot[j][u].lease
    BY <1>2, <1>3, <1>4
  <2> QED
    BY <2>1 DEF PInv, Timing, Apart
<1>7. Holders'
  BY <1>2, <1>3, <1>4 DEF PInv, Timing, Holders, Executing, Owns
<1>8. Past'
  BY <1>2 DEF PInv, Timing, Past
<1>9. MissedNow'
  BY <1>2, MissedAgain DEF PInv, Timing
<1> QED
  BY <1>5, <1>6, <1>7, <1>8, <1>9 DEF Timing

LEMMA HeartbeatTiming ==
    ASSUME PInv, IInv', [Next]_vars, Punctual, NEW i \in Instances, NEW t \in Tasks,
           Heartbeat(i, t)
    PROVE  Timing'
BY RenewalTiming, LostLeaseTiming

\* Time passes only when every heartbeat that is due was given and no task waits
\* for a pool worker.
LEMMA ClockTiming ==
    ASSUME PInv, Punctual, AdvanceClock
    PROVE  Timing'
<1>1. /\ Prompt /\ clock' = clock + 1 /\ clock \in Nat
      /\ UNCHANGED <<task, runs, worker, todo, slot, pool>>
  BY DEF AdvanceClock, Punctual, PInv, Core, IInv, TypeOK, Time
<1>2. \A i \in Instances, t \in Tasks : slot[i][t].pc # "queued"
  <2> SUFFICES ASSUME NEW i \in Instances, NEW t \in Tasks, slot[i][t].pc = "queued"
               PROVE  FALSE
    OBVIOUS
  <2>1. ~(pool[i] > 0)
    BY <1>1 DEF Prompt, Ready
  <2>2. pool[i] \in Nat /\ pool[i] >= Cardinality(QueuedIn(i))
    BY DEF PInv, Core, IInv, TypeOK, Timing, Fresh
  <2>3. IsFiniteSet(QueuedIn(i)) /\ Cardinality(QueuedIn(i)) \in Nat
    BY QueueCount
  <2>4. Cardinality(QueuedIn(i)) = 0
    BY <2>1, <2>2, <2>3
  <2>5. QueuedIn(i) = {}
    BY <2>3, <2>4, FS_EmptySet
  <2> QED
    BY <2>5 DEF QueuedIn
<1>3. \A i \in Instances : todo[i] = {}
  <2> SUFFICES ASSUME NEW i \in Instances, NEW m \in todo[i] PROVE FALSE
    OBVIOUS
  <2>1. m.task \in Tasks /\ Busy(i)
    BY DEF PInv, Core, Workers, IInv, TypeOK, MissedUpdate, Busy
  <2> QED
    BY <1>1, <2>1 DEF Prompt
<1>4. Fresh'
  BY <1>1, <1>2 DEF PInv, Timing, Fresh, QueuedIn
<1>5. Holders'
  <2> SUFFICES ASSUME NEW i \in Instances, NEW t \in Tasks, Executing(i, t)
               PROVE  /\ Owns(i, t) /\ clock + 1 <= slot[i][t].beat
                      /\ slot[i][t].beat < task[t].expires
    BY <1>1 DEF Holders, Executing, Owns
  <2>1. clock < slot[i][t].beat
    BY <1>1 DEF Prompt, Executing
  <2>2. slot[i][t].beat \in Nat
    BY DEF PInv, Core, IInv, TypeOK, Slot, Time
  <2>3. clock + 1 <= slot[i][t].beat
    BY <1>1, <2>1, <2>2
  <2> QED
    BY <2>3 DEF PInv, Timing, Holders
<1>6. Apart'
  BY <1>1 DEF PInv, Timing, Apart
<1>7. Past'
  <2>1. \A t \in Tasks : task[t].retry # None => task[t].retry <= clock + 1
    BY <1>1 DEF PInv, Timing, Past, Core, IInv, TypeOK, TaskRow, Time
  <2>2. \A t \in Tasks : \A n \in DOMAIN runs[t] : runs[t][n].for <= clock + 1
    <3> TAKE t \in Tasks
    <3> TAKE n \in DOMAIN runs[t]
    <3>1. runs[t] \in Seq(RunRow)
      BY DEF PInv, Core, IInv, TypeOK
    <3>2. runs[t][n] \in RunRow
      BY <3>1, ElementOfSeq, LenProperties
    <3>3. runs[t][n].for <= clock /\ runs[t][n].for \in Nat
      BY <3>2 DEF RunRow, Time, PInv, Timing, Past
    <3> QED
      BY <1>1, <3>3
  <2> QED
    BY <1>1, <2>1, <2>2 DEF Past
<1>8. MissedNow'
  BY <1>1, <1>3 DEF MissedNow
<1> QED
  BY <1>4, <1>5, <1>6, <1>7, <1>8 DEF Timing

\* The missed-run update of a punctual instance moves its task past everything
\* that was claimed.
LEMMA SkipMissedPunctual ==
    ASSUME PInv, NEW i \in Instances, NEW m \in todo[i], SkipMissed(i, m)
    PROVE  Core'
<1> DEFINE t == m.task
           row == task[t]
           row2 == Moved(row, m.enabled, m.next, row.retry)
<1>1. /\ m \in MissedUpdate /\ t \in Tasks /\ task \in [Tasks -> TaskRow]
      /\ row \in TaskRow /\ runs[t] \in Seq(RunRow)
      /\ Current(t, row, runs[t])
      /\ m.enabled \in BOOLEAN /\ m.next \in Nat /\ row.retry \in Nat \cup {None}
      /\ clock \in Nat
  BY DEF PInv, Core, AllCurrent, IInv, TypeOK, MissedUpdate, TaskRow, Time
<1>2. /\ row.present
      /\ m.enabled <=> Every[t] # 0
      /\ Every[t] # 0 => m.next > clock
      /\ task' = [task EXCEPT ![t] = row2]
  BY DEF SkipMissed, Writable, PInv, Timing, MissedNow
<1>3. /\ row2.lease = row.lease /\ row2.present = row.present
      /\ row2.enabled = m.enabled /\ Anchor(row2) = Points(m.next, row.retry)
  <2> DEFINE enabled == m.enabled
             next == m.next
             retry == row.retry
  <2>1. row \in TaskRow /\ enabled \in BOOLEAN /\ next \in Nat /\ retry \in Nat \cup {None}
    BY <1>1
  <2> HIDE DEF row, enabled, next, retry
  <2>2. /\ Moved(row, enabled, next, retry).lease = row.lease
        /\ Moved(row, enabled, next, retry).present = row.present
        /\ Moved(row, enabled, next, retry).enabled = enabled
        /\ Anchor(Moved(row, enabled, next, retry)) = Points(next, retry)
    BY ONLY <2>1, MovedCadence, Z3
  <2> QED
    BY <2>2 DEF enabled, next, retry
<1>4. task'[t] = row2
  BY <1>1, <1>2
<1> HIDE DEF row2
<1>5. Ahead(t, row2, runs[t])
  <2> SUFFICES ASSUME row2.enabled \/ Every[t] # 0, NEW n \in Known(runs[t])
               PROVE  \/ runs[t][n].for < Anchor(row2)
                      \/ runs[t][n].for = Anchor(row2) /\ ~SettledForGood(runs[t][n])
    BY DEF Ahead
  <2>1. Every[t] # 0
    BY <1>2, <1>3
  <2>2. CASE row.retry # None
    <3>1. Anchor(row2) = Anchor(row)
      BY <1>3, <2>2 DEF Anchor, Points
    <3> QED
      BY <1>1, <1>2, <2>1, <3>1 DEF Current, Ahead
  <2>3. CASE row.retry = None
    <3>1. Anchor(row2) = m.next /\ m.next > clock
      BY <1>2, <1>3, <2>1, <2>3 DEF Points
    <3>2. n \in DOMAIN runs[t]
      BY DEF Known
    <3>3. runs[t][n].for <= clock
      BY <1>1, <3>2 DEF PInv, Timing, Past
    <3>4. runs[t][n] \in RunRow
      BY <1>1, <3>2, LenProperties, ElementOfSeq
    <3>5. runs[t][n].for \in Nat
      BY <3>4 DEF RunRow, Time
    <3> QED
      BY <1>1, <3>1, <3>3, <3>5
  <2> QED
    BY <2>2, <2>3
<1>6. Current(t, row2, runs[t])
  BY <1>1, <1>3, <1>5 DEF Current
<1>7. Current(m.task, task'[m.task], runs[m.task])
  BY <1>4, <1>6
<1> QED
  BY <1>7, SkipMissedCore DEF PInv

LEMMA NextPunctual ==
    ASSUME Punctual, PInv, [Next]_vars
    PROVE  PInv'
<1>1. IInv'
  BY NextIInv DEF PInv, Core
<1>2. \A j \in Instances, t \in Tasks : ~Defer(j, t) /\ ~FindMissingExecutor(j, t)
  BY DEF Defer, FindMissingExecutor, PInv, Timing, Fresh, Core, Workers, Punctual
<1>3. CASE \A j \in Instances : \A m \in todo[j] : ~SkipMissed(j, m)
  <2>1. Core' /\ TablesCarried
    BY <1>2, <1>3, CoreStep DEF PInv
  <2>2. CASE TimingKept /\ clock' = clock
    BY <1>1, <2>1, <2>2, TimingAgain DEF TimingKept, PInv
  <2>3. ASSUME NEW i \in Instances, NEW t \in Tasks,
               Schedule(i, t) \/ Cancel(i, t) \/ Remove(i, t)
        PROVE  TimingKept /\ clock' = clock
    BY <1>1, <2>1, <2>3, ScheduleTiming, CancelTiming, RemoveTiming
       DEF Schedule, Cancel, Remove
  <2>4. ASSUME NEW i \in Instances, NEW t \in Tasks, Pass(i, t)
        PROVE  TimingKept /\ clock' = clock
    BY <2>4, PassTiming DEF Pass
  <2>5. ASSUME NEW i \in Instances, NEW t \in Tasks, Finish(i, t)
        PROVE  TimingKept /\ clock' = clock
    <3>1. clock' = clock
      BY <2>5 DEF Finish, LateSettlement, FinishCancelled, FinishRetry, FinishExhausted,
                  FinishSuccess
    <3> QED
      BY <1>1, <2>1, <2>5, <3>1, FinishTiming
  <2>6. ASSUME NEW i \in Instances, NEW t \in Tasks, Turn(i, t)
        PROVE  PInv'
    <3>1. CASE Pass(i, t) \/ Finish(i, t)
      BY <2>1, <2>2, <2>4, <2>5, <3>1 DEF PInv
    <3>2. CASE Claim(i, t)
      BY <1>1, <2>1, <3>2, ClaimTiming DEF PInv
    <3>3. CASE Heartbeat(i, t)
      BY <1>1, <2>1, <3>3, HeartbeatTiming DEF PInv
    <3> QED
      BY <1>2, <2>6, <3>1, <3>2, <3>3 DEF Turn
  <2>7. ASSUME NEW i \in Instances, Start(i) \/ StopWorker(i) \/ Crash(i)
        PROVE  TimingKept /\ clock' = clock
    <3>1. clock' = clock
      BY <2>7 DEF Start, StartWorker, SkipMissed, StartFails, StopWorker, Crash
    <3> QED
      BY <1>1, <2>7, <3>1, StartTiming, HaltTiming
  <2>8. ASSUME NEW i \in Instances, UnregisterExecutor(i) \/ RegisterExecutor(i)
        PROVE  TimingKept /\ clock' = clock
    <3>1. UNCHANGED <<clock, slot, pool, task, runs>>
      BY <2>8 DEF UnregisterExecutor, RegisterExecutor
    <3> QED
      BY <3>1, SameControl, SameTables DEF TimingKept, PInv, Core, Timing
  <2>9. ASSUME NEW i \in Instances, Tick(i)
        PROVE  PInv'
    BY <1>1, <2>1, <2>9, TickTiming DEF PInv
  <2>10. CASE AdvanceClock
    BY <2>1, <2>10, ClockTiming DEF PInv
  <2>11. CASE UNCHANGED vars
    <3>1. UNCHANGED <<clock, slot, pool, task, runs>>
      BY <2>11 DEF vars
    <3>2. TimingKept
      BY <3>1, SameControl, SameTables DEF TimingKept, PInv, Core, Timing
    <3> QED
      BY <2>1, <2>2, <3>1, <3>2 DEF PInv
  <2> QED
    BY <2>1, <2>2, <2>3, <2>6, <2>7, <2>8, <2>9, <2>10, <2>11 DEF Next, PInv
<1>4. ASSUME NEW i \in Instances, NEW m \in todo[i], SkipMissed(i, m)
      PROVE  PInv'
  <2>1. Core'
    BY <1>4, SkipMissedPunctual
  <2>2. TimingKept /\ clock' = clock
    <3>1. Start(i)
      BY <1>4 DEF Start
    <3> QED
      BY <1>1, <1>4, <3>1, StartTiming DEF SkipMissed
  <2> QED
    BY <1>1, <2>1, <2>2, TimingAgain DEF TimingKept, PInv
<1> QED
  BY <1>3, <1>4

LEMMA InitPunctual == Init => PInv
<1> SUFFICES ASSUME Init PROVE PInv
  OBVIOUS
<1>1. Core
  BY InitCore
<1>2. \A i \in Instances : QueuedIn(i) = {} /\ pool[i] = 0
  BY DEF Init, QueuedIn, IdleSlot
<1>3. Fresh
  <2>1. \A i \in Instances : Cardinality(QueuedIn(i)) = 0
    BY <1>2, FS_EmptySet
  <2>2. \A i \in Instances, t \in Tasks : slot[i][t].pc = "idle"
    BY DEF Init, IdleSlot
  <2> QED
    BY <1>2, <2>1, <2>2 DEF Fresh
<1>4. Holders /\ Apart
  BY DEF Init, IdleSlot, Holders, Apart, Executing
<1>5. Past
  <2>1. \A t \in Tasks : task[t].retry = None /\ DOMAIN runs[t] = {}
    BY DEF Init, Absent
  <2> QED
    BY <2>1 DEF Past
<1>6. MissedNow
  BY DEF Init, MissedNow
<1> QED
  BY <1>1, <1>3, <1>4, <1>5, <1>6 DEF PInv, Timing

\* Two executors of a task would hold the same lease.
LEMMA HoldersAreOne == Holders /\ Apart => OneLiveExecutor
BY DEF Holders, Apart, OneLiveExecutor, Executing, Owns

\* With heartbeats in time, no occurrence is executed by two processes at once,
\* nor again once it is settled for good, whichever process claims, crashes,
\* restarts or skips what it missed in between.
THEOREM NeverExecutedTwice ==
    ASSUME Punctual
    PROVE  Spec => []NeverTwice
<1>1. Init => PInv
  BY InitPunctual
<1>2. PInv /\ [Next]_vars => PInv'
  BY NextPunctual
<1>3. PInv => NeverTwice
  BY HoldersAreOne, CurrentAdvances DEF PInv, Core, Timing, NeverTwice
<1> QED
  BY <1>1, <1>2, <1>3, PTL DEF Spec

=============================================================================
