-------------------------------- MODULE Events --------------------------------
(***************************************************************************)
(* plugins/events: the durable log in events.sqlite, the consumers with    *)
(* their cursors and leases, and the delivery workers of the processes     *)
(* that share the database.                                                *)
(*                                                                         *)
(* A database transaction is one step; so is everything a worker does      *)
(* between two awaits.  Time is what is left of a lease or of a backoff.   *)
(***************************************************************************)
EXTENDS Integers, Sequences, FiniteSets, FiniteSetsExt

CONSTANTS
    Ids,            \* ids producers give their events
    Consumers,      \* durable consumers
    Processes,      \* processes that open the database
    Wanted,         \* per consumer, the ids whose type its filter matches
    StartAt,        \* per consumer, "beginning" or "latest"
    MaxAttempts,    \* retry.maxAttempts
    RetryDelay,     \* retryDelay per attempt, in ticks
    LeaseTime,      \* leaseMs, in ticks
    SafetyWindow,   \* events before the slowest cursor that compaction leaves
    Alone,          \* no other process joins or rewinds a consumer within a compaction
    MaxEvents,      \* bound on the events
    FaultKinds,     \* "crash", "stall", "stop", "close", "abort", "rewind", "unregister"
    MaxFaults       \* bound on the faults of a behaviour

AllFaults == {"crash", "stall", "stop", "close", "abort", "rewind", "unregister"}

ASSUME EventsAssumption ==
    /\ MaxAttempts \in Nat \ {0} /\ LeaseTime \in Nat \ {0, 1}
    /\ SafetyWindow \in Nat \ {0} /\ MaxEvents \in Nat /\ MaxFaults \in Nat
    /\ Alone \in BOOLEAN /\ FaultKinds \subseteq AllFaults
    /\ Wanted \in [Consumers -> SUBSET Ids]
    /\ StartAt \in [Consumers -> {"beginning", "latest"}]
    /\ RetryDelay \in [1..MaxAttempts -> Nat \ {0}]

VARIABLES
    log,        \* table events: the id of each sequence number, deleted rows included
    gone,       \* the rows up to this sequence number are deleted
    consumer,   \* table event_consumers
    delivery,   \* table event_deliveries: per consumer, its deliveries in order
    run,        \* the same deliveries as their handlers see them
    proc,       \* what each process holds
    faults      \* faults so far

vars == <<log, gone, consumer, delivery, run, proc, faults>>

\* A row of event_consumers: lease is the delivery that holds the lease (0:
\* none), left what remains of it, wait what remains of the backoff.
NoConsumer == [known |-> FALSE, cursor |-> 0, wait |-> 0, lease |-> 0, left |-> 0]

\* A handler's execution: stopped says that the signal of the worker is
\* aborted, lost that the delivery's own controller is.
Running(p) == [proc |-> p, active |-> TRUE, stopped |-> FALSE, lost |-> FALSE]

\* awaited holds the <<consumer, delivery>> pairs a pass of the worker waits
\* for, cutoff the sequence number a compaction is about to delete through.
Down == [life |-> "down", handlers |-> {}, worker |-> "off", awaited |-> {}, cutoff |-> 0]

Final == {"success", "dead-letter"}

Kept == gone + 1 .. Len(log)
Runs == UNION {{c} \X DOMAIN run[c] : c \in Consumers}
RunOf(r) == run[r[1]][r[2]]
Owns(c, k) == consumer[c].lease = k

\* #nextEventForConsumer
Due(c) == {n \in Kept : n > consumer[c].cursor /\ log[n] \in Wanted[c]}
Attempts(c, n) == Cardinality({k \in DOMAIN delivery[c] :
                      delivery[c][k].seq = n /\ delivery[c][k].status # "deleted"})

\* A process between two callbacks: compact() is synchronous.
Free(p) == proc[p].life = "up" /\ proc[p].cutoff = 0
Fault(kind) == kind \in FaultKinds /\ faults < MaxFaults /\ faults' = faults + 1

\* A process other than p is between the two halves of a compaction.
Compacting(p) == \E q \in Processes \ {p} : proc[q].cutoff # 0

Init ==
    /\ log = <<>> /\ gone = 0 /\ faults = 0
    /\ consumer = [c \in Consumers |-> NoConsumer]
    /\ delivery = [c \in Consumers |-> <<>>]
    /\ run = [c \in Consumers |-> <<>>]
    /\ proc = [p \in Processes |-> Down]

Open(p) ==
    /\ proc[p].life = "down"
    /\ proc' = [proc EXCEPT ![p].life = "up"]
    /\ UNCHANGED <<log, gone, consumer, delivery, run, faults>>

-----------------------------------------------------------------------------
\* Producers and registrations.

\* A second publication of an id that is still in the table returns the event.
Publish(p, id) ==
    /\ Free(p) /\ Len(log) < MaxEvents
    /\ \A n \in Kept : log[n] # id
    /\ log' = Append(log, id)
    /\ UNCHANGED <<gone, consumer, delivery, run, proc, faults>>

RegisterConsumer(p, c) ==
    /\ Free(p) /\ c \notin proc[p].handlers
    /\ (Alone /\ ~consumer[c].known) => ~Compacting(p)
    /\ consumer' = IF consumer[c].known THEN consumer
                   ELSE [consumer EXCEPT ![c] = [NoConsumer EXCEPT !.known = TRUE,
                           !.cursor = IF StartAt[c] = "latest" /\ Kept # {} THEN Len(log) ELSE 0]]
    /\ proc' = [proc EXCEPT ![p].handlers = @ \cup {c}]
    /\ UNCHANGED <<log, gone, delivery, run, faults>>

UnregisterConsumer(p, c) ==
    /\ Free(p) /\ c \in proc[p].handlers
    /\ Fault("unregister")
    /\ proc' = [proc EXCEPT ![p].handlers = @ \ {c}]
    /\ UNCHANGED <<log, gone, consumer, delivery, run>>

RewindConsumer(p, c, n) ==
    /\ Free(p) /\ consumer[c].known
    /\ consumer[c].lease = 0 /\ n <= consumer[c].cursor
    /\ Alone => ~Compacting(p)
    /\ Fault("rewind")
    /\ consumer' = [consumer EXCEPT ![c].cursor = n, ![c].wait = 0]
    /\ UNCHANGED <<log, gone, delivery, run, proc>>

-----------------------------------------------------------------------------
\* The delivery worker.

StartWorker(p) ==
    /\ Free(p) /\ proc[p].worker = "off"
    /\ proc' = [proc EXCEPT ![p].worker = "on"]
    /\ UNCHANGED <<log, gone, consumer, delivery, run, faults>>

Expired(c) == consumer[c].lease # 0 /\ consumer[c].left = 0
\* Mutant: an event whose attempts are used up is not claimed any more.
ClaimableInBudget(c) ==
    /\ \E n \in Due(c) : Attempts(c, n) < MaxAttempts /\ \A m \in Due(c) : n <= m
    /\ Expired(c) \/ (consumer[c].lease = 0 /\ consumer[c].wait = 0)
Claimable(c) ==
    /\ Due(c) # {}
    /\ Expired(c) \/ (consumer[c].lease = 0 /\ consumer[c].wait = 0)
\* An expired lease without its running delivery: the transaction rolls back.
Wedged(c) == Expired(c) /\ delivery[c][consumer[c].lease].status # "running"

\* Mutant: the lease is taken off and its delivery left as it is.
RecoveredSilently(c) == delivery[c]

\* The deliveries of c once an expired lease is taken off.
Recovered(c) ==
    IF Expired(c) /\ ~Wedged(c)
    THEN [delivery[c] EXCEPT ![consumer[c].lease].status = "abandoned"] ELSE delivery[c]

\* One round of runPending claims for every handler before it awaits any; a
\* transaction that fails rejects the round.
RunPending(p) ==
    LET ready == {c \in proc[p].handlers : Expired(c) \/ Claimable(c)}
        claims == {c \in ready : Claimable(c) /\ ~Wedged(c)}
        claim(c) == [seq |-> Min(Due(c)), attempt |-> Attempts(c, Min(Due(c))) + 1, status |-> "running"]
    IN /\ Free(p) /\ proc[p].worker = "on" /\ proc[p].awaited = {}
       /\ ready # {}
       /\ delivery' = [c \in Consumers |-> IF c \in claims THEN Append(Recovered(c), claim(c))
                                           ELSE IF c \in ready THEN Recovered(c) ELSE delivery[c]]
       /\ run' = [c \in Consumers |-> IF c \in claims THEN Append(run[c], Running(p)) ELSE run[c]]
       /\ consumer' = [c \in Consumers |->
              IF c \in claims THEN [consumer[c] EXCEPT !.wait = 0, !.left = LeaseTime,
                                                       !.lease = Len(delivery[c]) + 1]
              ELSE IF c \in ready /\ ~Wedged(c)
                   THEN [consumer[c] EXCEPT !.wait = 0, !.lease = 0] ELSE consumer[c]]
       /\ proc' = [proc EXCEPT ![p].awaited = IF \E c \in ready : Wedged(c) THEN {}
                                              ELSE {<<c, Len(delivery[c]) + 1>> : c \in claims}]
       /\ UNCHANGED <<log, gone, faults>>

\* Every third of a lease.  Without the row's lease the handler is aborted.
Heartbeat(c, k) ==
    /\ run[c][k].active /\ ~run[c][k].lost /\ Free(run[c][k].proc)
    /\ Owns(c, k) => consumer[c].left < LeaseTime
    /\ consumer' = IF Owns(c, k) THEN [consumer EXCEPT ![c].left = LeaseTime] ELSE consumer
    /\ run' = IF Owns(c, k) THEN run ELSE [run EXCEPT ![c][k].lost = TRUE]
    /\ UNCHANGED <<log, gone, delivery, proc, faults>>

\* Mutant: the last attempt but one dead-letters.
OutcomeEarly(c, k, answer) ==
    IF run[c][k].stopped \/ run[c][k].lost \/ answer = "abort" THEN "cancelled"
    ELSE IF answer = "ok" THEN "success"
    ELSE IF delivery[c][k].attempt + 1 >= MaxAttempts THEN "dead-letter" ELSE "error"

\* The handler returns ("ok"), throws ("fail") or throws an AbortError of its
\* own ("abort"); after an abort of its signal each of them is a cancellation.
Outcome(c, k, answer) ==
    IF run[c][k].stopped \/ run[c][k].lost \/ answer = "abort" THEN "cancelled"
    ELSE IF answer = "ok" THEN "success"
    ELSE IF delivery[c][k].attempt >= MaxAttempts THEN "dead-letter" ELSE "error"

\* completeDelivery throws unless the row still has this lease, and with it
\* the round of the worker: the other handlers of the round go on unawaited.
Answer(c, k, answer) ==
    LET p == run[c][k].proc  result == Outcome(c, k, answer)  d == delivery[c][k]
    IN /\ run[c][k].active /\ Free(p)
       /\ run' = [run EXCEPT ![c][k].active = FALSE]
       /\ IF answer = "abort" /\ ~run[c][k].stopped /\ ~run[c][k].lost
          THEN Fault("abort") ELSE UNCHANGED faults
       /\ IF Owns(c, k) /\ d.status = "running"
          THEN /\ delivery' = [delivery EXCEPT ![c][k].status = result]
               /\ consumer' = [consumer EXCEPT ![c] = [consumer[c] EXCEPT
                      !.cursor = IF result \in Final THEN Max({@, d.seq}) ELSE @,
                      !.wait = IF result = "error" THEN RetryDelay[d.attempt] ELSE 0,
                      !.lease = 0, !.left = 0]]
               /\ proc' = [proc EXCEPT ![p].awaited = @ \ {<<c, k>>}]
          ELSE /\ proc' = [proc EXCEPT ![p].awaited = IF <<c, k>> \in @ THEN {} ELSE @]
               /\ UNCHANGED <<delivery, consumer>>
       /\ UNCHANGED <<log, gone>>

Aborting(p, mark(_)) == [c \in Consumers |-> [k \in DOMAIN run[c] |->
    IF run[c][k].active /\ run[c][k].proc = p THEN mark(run[c][k]) ELSE run[c][k]]]

\* stopWorker aborts the worker's signal and waits for its loop to end.
StopWorker(p) ==
    /\ Free(p) /\ proc[p].worker = "on"
    /\ Fault("stop")
    /\ proc' = [proc EXCEPT ![p].worker = "stopping"]
    /\ run' = Aborting(p, LAMBDA r : [r EXCEPT !.stopped = TRUE])
    /\ UNCHANGED <<log, gone, consumer, delivery>>

Stopped(p) ==
    /\ Free(p) /\ proc[p].worker = "stopping" /\ proc[p].awaited = {}
    /\ proc' = [proc EXCEPT ![p].worker = "off"]
    /\ UNCHANGED <<log, gone, consumer, delivery, run, faults>>

\* close() first aborts the handlers by their own controllers, which ends their
\* heartbeats too; it closes the database once the worker's loop has ended.
Close(p) ==
    /\ Free(p) /\ proc[p].worker # "closing"
    /\ Fault("close")
    /\ proc' = [proc EXCEPT ![p].worker = "closing"]
    /\ run' = Aborting(p, LAMBDA r : [r EXCEPT !.stopped = TRUE, !.lost = TRUE])
    /\ UNCHANGED <<log, gone, consumer, delivery>>

\* The process ends with its handlers' executions.
Ending(p) ==
    /\ proc' = [proc EXCEPT ![p] = Down]
    /\ run' = Aborting(p, LAMBDA r : [r EXCEPT !.active = FALSE])
    /\ UNCHANGED <<log, gone, consumer, delivery>>

Closed(p) ==
    /\ Free(p) /\ proc[p].worker = "closing" /\ proc[p].awaited = {}
    /\ Ending(p)
    /\ UNCHANGED faults

-----------------------------------------------------------------------------
\* Retention: compact() reads the slowest cursor and what to delete, then
\* deletes.  Age and count of the events decide how far it goes.

Slowest == Min({Len(log)} \cup {consumer[c].cursor : c \in {d \in Consumers : consumer[d].known}})

CompactReads(p, n) ==
    /\ Free(p)
    /\ n \in Kept /\ n <= Slowest - SafetyWindow
    /\ proc' = [proc EXCEPT ![p].cutoff = n]
    /\ UNCHANGED <<log, gone, consumer, delivery, run, faults>>

CompactDeletes(p) ==
    LET n == proc[p].cutoff
    IN /\ proc[p].life = "up" /\ n # 0
       /\ gone' = Max({gone, n})
       /\ delivery' = [c \in Consumers |-> [k \in DOMAIN delivery[c] |->
              IF delivery[c][k].seq <= n THEN [delivery[c][k] EXCEPT !.status = "deleted"]
              ELSE delivery[c][k]]]
       /\ proc' = [proc EXCEPT ![p].cutoff = 0]
       /\ UNCHANGED <<log, consumer, run, faults>>

-----------------------------------------------------------------------------
\* Time and failures.

\* A process that is not stalled renews its leases in time, and notices a
\* lease it lost before the next one can end.
InTime == \A r \in Runs :
    RunOf(r).active /\ ~RunOf(r).lost /\ proc[RunOf(r).proc].life = "up"
        => Owns(r[1], r[2]) /\ consumer[r[1]].left > 1

\* Mutant: a lease that ended keeps counting down.
LessThanNothing(n) == n - 1

Less(n) == IF n = 0 THEN 0 ELSE n - 1
Advance ==
    /\ \E c \in Consumers : consumer[c].left > 0 \/ consumer[c].wait > 0
    /\ InTime
    /\ consumer' = [c \in Consumers |->
           [consumer[c] EXCEPT !.left = Less(@), !.wait = Less(@)]]
    /\ UNCHANGED <<log, gone, delivery, run, proc, faults>>

Crash(p) ==
    /\ proc[p].life # "down"
    /\ Fault("crash")
    /\ Ending(p)

Stall(p) ==
    /\ Free(p)
    /\ Fault("stall")
    /\ proc' = [proc EXCEPT ![p].life = "stalled"]
    /\ UNCHANGED <<log, gone, consumer, delivery, run>>

Resume(p) ==
    /\ proc[p].life = "stalled"
    /\ proc' = [proc EXCEPT ![p].life = "up"]
    /\ UNCHANGED <<log, gone, consumer, delivery, run, faults>>

-----------------------------------------------------------------------------
Answers == {"ok", "fail", "abort"}

Next ==
    \/ \E p \in Processes :
        \/ Open(p) \/ StartWorker(p) \/ RunPending(p)
        \/ StopWorker(p) \/ Stopped(p) \/ Close(p) \/ Closed(p)
        \/ CompactDeletes(p) \/ Crash(p) \/ Stall(p) \/ Resume(p)
        \/ \E id \in Ids : Publish(p, id)
        \/ \E n \in Kept : CompactReads(p, n)
        \/ \E c \in Consumers :
            \/ RegisterConsumer(p, c) \/ UnregisterConsumer(p, c)
            \/ \E n \in 0..Len(log) : RewindConsumer(p, c, n)
    \/ \E c \in Consumers : \E k \in DOMAIN run[c] :
        \/ Heartbeat(c, k)
        \/ \E answer \in Answers : Answer(c, k, answer)
    \/ Advance

Spec == Init /\ [][Next]_vars

\* The plugin opens the database, registers and starts its worker at every
\* start of the process; a loop, a timer and a handler go on.
Serves(p) == \/ Open(p) \/ StartWorker(p) \/ RunPending(p) \/ Stopped(p) \/ Closed(p)
             \/ CompactDeletes(p) \/ Resume(p)
Works(c) == \E k \in DOMAIN run[c] : \E answer \in {"ok", "fail"} : Answer(c, k, answer)
Beats(c) == \E k \in DOMAIN run[c] : Heartbeat(c, k)

Fairness ==
    /\ \A p \in Processes : WF_vars(Serves(p))
    /\ \A p \in Processes, c \in Consumers : WF_vars(RegisterConsumer(p, c))
    /\ \A c \in Consumers : WF_vars(Works(c)) /\ WF_vars(Beats(c))
    /\ WF_vars(Advance)

FairSpec == Spec /\ Fairness

-----------------------------------------------------------------------------
Status == {"running", "success", "error", "cancelled", "abandoned", "dead-letter", "deleted"}

Registration == [known: BOOLEAN, cursor: Nat, wait: Nat, lease: Nat, left: 0..LeaseTime]
Delivery == [seq: Nat \ {0}, attempt: Nat \ {0}, status: Status]
Execution == [proc: Processes, active: BOOLEAN, stopped: BOOLEAN, lost: BOOLEAN]
Process == [life: {"down", "up", "stalled"}, handlers: SUBSET Consumers,
            worker: {"off", "on", "stopping", "closing"}, awaited: SUBSET Runs, cutoff: Nat]

\* Every variable has the shape the tables and the process give it.
TypeOK ==
    /\ log \in Seq(Ids) /\ gone \in 0..Len(log) /\ faults \in 0..MaxFaults
    /\ consumer \in [Consumers -> Registration]
    /\ delivery \in [Consumers -> Seq(Delivery)] /\ run \in [Consumers -> Seq(Execution)]
    /\ \A c \in Consumers : consumer[c].cursor <= Len(log) /\ Len(run[c]) = Len(delivery[c])
    /\ proc \in [Processes -> Process]

\* A consumer has a lease exactly while one of its deliveries is running, and
\* that is the delivery the lease names, of an event that is still in the
\* table.  The "exactly one row" assertions of claimDelivery and
\* completeDelivery (store.ts:448-467) rest on it: where it fails, no claim of
\* the consumer succeeds again.
LeaseIsRunning ==
    \A c \in Consumers : \A k \in DOMAIN delivery[c] :
        (delivery[c][k].status = "running") = Owns(c, k)

\* UNIQUE(consumer_id, event_id, attempt): the deliveries of an event that are
\* still in the table are numbered 1, 2, ... in the order they began, however
\* often the lease changed hands.
AttemptsNumbered ==
    \A c \in Consumers : \A k \in DOMAIN delivery[c] :
        delivery[c][k].status # "deleted" =>
            delivery[c][k].attempt = Cardinality({j \in 1..k :
                delivery[c][j].seq = delivery[c][k].seq /\ delivery[c][j].status # "deleted"})

\* What claimDelivery and completeDelivery take for granted of the table.
DeliveriesSound == LeaseIsRunning /\ AttemptsNumbered

\* The log as its producers and consumers see it.
Tried(c) == [n \in DOMAIN log |-> IF n <= gone THEN 0 ELSE Attempts(c, n)]
Ends(c, n) == {k \in DOMAIN delivery[c] : delivery[c][k].seq = n /\ delivery[c][k].status \in Final}
Fate(c) == [n \in DOMAIN log |-> IF n <= consumer[c].cursor /\ Ends(c, n) # {}
                                 THEN delivery[c][Max(Ends(c, n))].status ELSE "open"]
Position(c) == IF consumer[c].known THEN consumer[c].cursor ELSE -1

Log == INSTANCE EventLog WITH
    pos <- [c \in Consumers |-> Position(c)],
    tries <- [c \in Consumers |-> Tried(c)],
    fate <- [c \in Consumers |-> Fate(c)]

\* The database implements the log: no publication is taken twice while its id
\* is remembered, a consumer passes its events in order, one at a time, each
\* after a success or a spent budget, and retention forgets nothing needed.
ImplementsLog == Log!Spec

\* An event a consumer wants is passed by it in the end: a failing handler, a
\* dead process, a lease nobody renews or a stopped worker do not hold it.
Settles ==
    \A c \in Consumers : \A n \in 1..MaxEvents :
        [](n \in Due(c) /\ consumer[c].known => <>(n \notin Due(c)))
=============================================================================
