------------------------------ MODULE SessionJobs ------------------------------
(***************************************************************************)
(* plugins/session-jobs: the durable registry of background jobs, its      *)
(* per-session queues, the delivery of results, and what happens to both   *)
(* when the process restarts or hands the service to a successor.          *)
(*                                                                         *)
(* A call of `persist` is one atomic step together with the assignment     *)
(* that follows it: the persist queue is drained by microtasks, before any *)
(* other callback runs.  The steps that take real time are the reading of  *)
(* a label, the execution, the send of a reply, the finalizer, and the     *)
(* wait of a quiesce.                                                      *)
(***************************************************************************)
EXTENDS Integers, FiniteSets

CONSTANTS
    Requests,     \* turns of users that Turn Loop admits as background work
    Sessions,     \* persistent sessions that exist from the start
    MaxJobs,      \* bound on the job ids handed out
    MaxActive,    \* MAX_ACTIVE_JOBS
    LastProcess,  \* bound on the processes that follow one another
    Overlap,      \* whether calls of clients overlap a handoff: a start whose label is
                  \* being read, a cancel that reaches the predecessor after it
    Triggers,     \* who asks for a handoff: "operator", "finalizer"
    FaultKinds,   \* "crash", "handoff", "timeout", "send", "finalizer"
    MaxFaults     \* bound on the faults of a behaviour

Jobs == 1..MaxJobs
Processes == 1..LastProcess

ASSUME ConstantsAssumption ==
    /\ MaxJobs \in Nat \ {0} /\ MaxActive \in Nat \ {0}
    /\ LastProcess \in Nat \ {0} /\ MaxFaults \in Nat
    /\ Overlap \in BOOLEAN
    /\ Triggers \subseteq {"operator", "finalizer"}
    /\ FaultKinds \subseteq {"crash", "handoff", "timeout", "send", "finalizer"}

\* Requests, sessions and job ids are told apart; 0 is none of them.
ASSUME NamesAssumption ==
    /\ Requests \cap Sessions = {}
    /\ (Requests \cup Sessions) \cap (Jobs \cup {0}) = {}

\* Destination session:new.  The session a job creates is named like the job.
New == 0
Destinations == Sessions \cup Jobs

\* "running" stands for running, retrying and waiting-for-computer.
ActiveStatus == {"queued", "running"}
FinalStatus == {"completed", "resumed", "error", "cancelled"}

\* A row of the registry: source is the sourceKey, a turn of a user or the job
\* that the turn resumes; text says whether the request is still stored; note
\* is the pending notification, final whether it has a continuation.
NoRow == [status |-> "none", source |-> New, session |-> New, text |-> FALSE,
          note |-> "none", final |-> FALSE]
Row == [status: ActiveStatus \cup FinalStatus, source: Requests \cup Jobs,
        session: Destinations \cup {New}, text: BOOLEAN,
        note: {"none", "unsent", "sent"}, final: BOOLEAN]

\* What a process does about a job.  ahead is the job whose barrier the run
\* waits for, queued says that the operation holds up its session's queue, own
\* is the row when only this operation holds it: before admission, or once the
\* registry was reloaded under it.
Idle == [pc |-> "idle", queued |-> FALSE, aborted |-> FALSE, ahead |-> 0, own |-> NoRow]
Operation == [pc: {"idle", "label", "waiting", "executing", "sending", "finalizing", "deferred"},
              queued: BOOLEAN, aborted: BOOLEAN, ahead: Jobs \cup {0}, own: Row \cup {NoRow}]

Unborn == [phase |-> "unborn", jobs |-> [j \in Jobs |-> NoRow], op |-> [j \in Jobs |-> Idle],
           tail |-> [s \in Destinations |-> 0], waits |-> {}, caller |-> 0, marking |-> {}]

VARIABLES
    disk,     \* table jobs
    proc,     \* what each process holds
    resume,   \* per job, the event with the fixed id session-job:<id>:resume-requested
    ask,      \* jobs with an unconsumed session-job.delivery-requested event
    told,     \* jobs whose acceptance was answered (history)
    replied,  \* jobs whose report reached the user (history)
    faults    \* faults so far

vars == <<disk, proc, resume, ask, told, replied, faults>>

TypeOK ==
    /\ disk \in [Jobs -> Row \cup {NoRow}]
    /\ proc \in [Processes ->
           [phase: {"unborn", "open", "quiescing", "failed", "paused", "retiring", "down"},
            jobs: [Jobs -> Row \cup {NoRow}],
            op: [Jobs -> Operation],
            tail: [Destinations -> Jobs \cup {0}],
            waits: SUBSET Jobs,
            caller: Jobs \cup {0},
            marking: SUBSET Jobs]]
    /\ resume \in [Jobs -> {"none", "asked", "done"}]
    /\ ask \subseteq Jobs /\ told \subseteq Jobs /\ replied \subseteq Jobs
    /\ faults \in 0..MaxFaults

------------------------------------------------------------------------------
IsActive(row) == row.status \in ActiveStatus
NeedsRetention(row) == IsActive(row) \/ row.note # "none"

\* An ActiveRun: a run that is queued or executing.
HasRun(P, j) == P.op[j].pc \in {"waiting", "executing"}

\* The row object an operation works on.
Held(P, j) == IF P.op[j].own # NoRow THEN P.op[j].own ELSE P.jobs[j]

\* P after the object was assigned a persisted row.
Assigned(P, j, row) ==
    IF P.op[j].own # NoRow THEN [P EXCEPT !.op[j].own = row] ELSE [P EXCEPT !.jobs[j] = row]

\* Ids are never reused.
Unused(j) == disk[j] = NoRow /\ \A p \in Processes : proc[p].op[j].pc # "label"
NextId(j) == Unused(j) /\ \A k \in Jobs : Unused(k) => j <= k

Room(P) == Cardinality({j \in Jobs : NeedsRetention(P.jobs[j])}) < MaxActive

\* The admission gate is held by a start whose label is being read.
Admitting(P, source) == \E j \in Jobs : P.op[j].pc = "label" /\ P.op[j].own.source = source

\* After n more ids, enough are left to resume every active job (bound).
Spare(n) ==
    Cardinality({j \in Jobs : IsActive(disk[j])}) + n <= Cardinality({j \in Jobs : Unused(j)})

Fault(kind) == kind \in FaultKinds /\ faults < MaxFaults /\ faults' = faults + 1

\* Mutant: the barrier of a run resolves only when the run succeeded.
EndedKeepsWaiters(P, j) ==
    [P EXCEPT !.op[j] = Idle,
              !.tail = [s \in Destinations |-> IF P.tail[s] = j THEN 0 ELSE P.tail[s]]]

\* A run's operation ends: whoever waited for its barrier goes on.
Ended(P, j) ==
    [P EXCEPT !.op = [k \in Jobs |->
                         CASE k = j -> Idle
                           [] k # j /\ P.op[k].ahead = j -> [P.op[k] EXCEPT !.ahead = 0]
                           [] OTHER -> P.op[k]],
              !.tail = [s \in Destinations |-> IF P.tail[s] = j THEN 0 ELSE P.tail[s]]]

\* A run settled and its delivery follows: the alias of the session it created
\* is removed at once, its own place in a queue only when the delivery ended.
Delivering(P, j) ==
    [P EXCEPT !.op[j].pc = "sending", !.tail[j] = IF P.tail[j] = j THEN 0 ELSE P.tail[j]]

\* Mutants: an interrupted job gets a status of its own; whatever load() counts
\* as active is recovered.
RecoveredAsPaused(row) == IF IsActive(row) THEN [row EXCEPT !.status = "paused"] ELSE row
RecoveredUndelivered(row) ==
    IF NeedsRetention(row) THEN [row EXCEPT !.status = "queued"] ELSE row

\* A row an interrupted process left active.
Recovered(row) == IF IsActive(row) THEN [row EXCEPT !.status = "queued"] ELSE row

\* Mutant: only those that had started.
ResumableIfRunning(P) == {j \in Jobs : P.jobs[j].status = "running" /\ ~HasRun(P, j)}

\* Jobs that resumable() returns.
Resumable(P) == {j \in Jobs : IsActive(P.jobs[j]) /\ ~HasRun(P, j) /\ P.jobs[j].text}
Undelivered(P) == {j \in Jobs : P.jobs[j].note # "none"}

Init ==
    /\ disk = [j \in Jobs |-> NoRow]
    /\ proc = [p \in Processes |-> IF p = 1 THEN [Unborn EXCEPT !.phase = "open"] ELSE Unborn]
    /\ resume = [j \in Jobs |-> "none"]
    /\ ask = {} /\ told = {} /\ replied = {}
    /\ faults = 0

------------------------------------------------------------------------------
\* A job enters the registry, the durable table and its session's queue.
Admission(p, j, row) ==
    LET P == proc[p]
        ahead == IF row.session = New THEN 0 ELSE P.tail[row.session]
    IN /\ disk' = [disk EXCEPT ![j] = row]
       /\ proc' = [proc EXCEPT ![p] =
              [P EXCEPT !.jobs[j] = row,
                        !.op[j] = [Idle EXCEPT !.pc = "waiting", !.queued = TRUE, !.ahead = ahead],
                        !.tail = [s \in Destinations |-> IF s = row.session THEN j ELSE P.tail[s]],
                        !.marking = IF row.source \in Jobs THEN @ \cup {row.source} ELSE @]]
       /\ told' = told \cup {j}

\* Mutant: only active jobs are looked at for the source.
StartUnlessActive(p, source, session) ==
    LET P == proc[p]
        row == [NoRow EXCEPT !.status = "queued", !.source = source,
                             !.session = session, !.text = TRUE]
    IN /\ P.phase = "open" /\ Room(P)
       /\ \A j \in Jobs : P.op[j].pc # "label"
       /\ \A j \in Jobs : IsActive(P.jobs[j]) => P.jobs[j].source # source
       /\ \E j \in Jobs : NextId(j) /\ Admission(p, j, row)

\* start(): under the admission gate, the check that the manager is open, the
\* check for the source and for the limit; then the label is resolved.
Start(p, source, session) ==
    LET P == proc[p]
        row == [NoRow EXCEPT !.status = "queued", !.source = source,
                             !.session = session, !.text = TRUE]
    IN /\ P.phase = "open"
       /\ \A j \in Jobs : P.op[j].pc # "label"
       /\ \A j \in Jobs : P.jobs[j].source # source
       /\ Room(P)
       /\ \E j \in Jobs :
              /\ NextId(j)
              /\ IF session # New
                 THEN /\ proc' = [proc EXCEPT ![p].op[j] = [Idle EXCEPT !.pc = "label", !.own = row]]
                      /\ UNCHANGED <<disk, told>>
                 ELSE Admission(p, j, row)

\* A turn is submitted, or submitted again by its provider; routing chose a new
\* session or any it knows.
Submit(p, r, s) ==
    /\ s \in Sessions \cup {New} \cup {j \in Jobs : disk[j].session = j}
    /\ Spare(1)
    /\ Start(p, r, s)
    /\ UNCHANGED <<resume, ask, replied, faults>>

\* The label was read.  The limit is checked again; whether the manager is
\* still open is not.
LabelRead(p, j) ==
    LET P == proc[p] IN
    /\ P.op[j].pc = "label"
    /\ IF Room(P) THEN Admission(p, j, P.op[j].own)
       ELSE proc' = [proc EXCEPT ![p].op[j] = Idle] /\ UNCHANGED <<disk, told>>
    /\ UNCHANGED <<resume, ask, replied, faults>>

\* The queue reaches the run: it starts, unless it was aborted meanwhile.
Begin(p, j) ==
    LET P == proc[p] IN
    /\ P.op[j].pc = "waiting" /\ P.op[j].ahead = 0
    /\ IF P.op[j].aborted \/ Held(P, j).status = "cancelled"
       THEN proc' = [proc EXCEPT ![p] = Ended(P, j)] /\ UNCHANGED disk
       ELSE LET row == [Held(P, j) EXCEPT !.status = "running"] IN
            /\ disk' = [disk EXCEPT ![j] = row]
            /\ proc' = [proc EXCEPT ![p] = [Assigned(P, j, row) EXCEPT !.op[j].pc = "executing"]]
    /\ UNCHANGED <<resume, ask, told, replied, faults>>

\* Mutant: the new session gets no alias of the queue.
BindWithoutAlias(p, j) ==
    LET P == proc[p]
        row == [Held(P, j) EXCEPT !.session = j]
    IN /\ P.op[j].pc = "executing" /\ ~P.op[j].aborted
       /\ IsActive(row) /\ Held(P, j).session = New
       /\ disk' = [disk EXCEPT ![j] = row]
       /\ proc' = [proc EXCEPT ![p] = Assigned(P, j, row)]
       /\ UNCHANGED <<resume, ask, told, replied, faults>>

\* The executor reports the session it created: the job's queue gets an alias.
Bind(p, j) ==
    LET P == proc[p]
        row == [Held(P, j) EXCEPT !.session = j]
    IN /\ P.op[j].pc = "executing" /\ ~P.op[j].aborted
       /\ IsActive(row) /\ Held(P, j).session = New
       /\ disk' = [disk EXCEPT ![j] = row]
       /\ proc' = [proc EXCEPT ![p] = [Assigned(P, j, row) EXCEPT !.tail[j] = j]]
       /\ UNCHANGED <<resume, ask, told, replied, faults>>

\* The executor returned or threw: the outcome and the report are one row, and
\* the delivery follows unless the manager is closed.  An aborted run leaves no
\* outcome.
Settle(p, j) ==
    LET P == proc[p]
        open == P.phase = "open" IN
    /\ P.op[j].pc = "executing"
    /\ IF P.op[j].aborted \/ ~IsActive(Held(P, j))
       THEN proc' = [proc EXCEPT ![p] = Ended(P, j)] /\ UNCHANGED <<disk, ask>>
       ELSE \E outcome \in {"completed", "error"}, final \in BOOLEAN :
            LET row == [Held(P, j) EXCEPT !.status = outcome, !.note = "unsent",
                                          !.final = final, !.text = final]
            IN /\ outcome = "error" => ~final
               /\ outcome = "completed" => row.session # New
               /\ disk' = [disk EXCEPT ![j] = row]
               /\ proc' = [proc EXCEPT ![p] = LET Q == Assigned(P, j, row) IN
                                              IF open THEN Delivering(Q, j) ELSE Ended(Q, j)]
               /\ ask' = IF open THEN ask ELSE ask \cup {j}
    /\ UNCHANGED <<resume, told, replied, faults>>

\* A delivery stops with an error: the run asks Events for another attempt, an
\* attempt of Events is repeated, a deferred finalizer is only reported.
Abandoned(p, j) ==
    /\ proc' = [proc EXCEPT ![p] = Ended(proc[p], j)]
    /\ ask' = IF proc[p].op[j].queued THEN ask \cup {j} ELSE ask

\* The notification is settled and removed.  An event is consumed unless it was
\* before: a finalizer belongs to the run or was deferred.
Cleared(p, j) ==
    LET row == [Held(proc[p], j) EXCEPT !.note = "none", !.text = FALSE, !.final = FALSE] IN
    /\ disk' = [disk EXCEPT ![j] = row]
    /\ proc' = [proc EXCEPT ![p] = Ended(Assigned(proc[p], j, row), j)]
    /\ ask' = IF proc[p].op[j].queued \/ Held(proc[p], j).final THEN ask ELSE ask \ {j}

\* The reply was sent: acknowledged in the table unless the manager closed
\* meanwhile; then the finalizer, which Events leaves to a later callback.
Sent(p, j) ==
    LET P == proc[p]
        row == [Held(P, j) EXCEPT !.note = "sent"]
        Q == Assigned(P, j, row)
    IN /\ P.op[j].pc = "sending"
       /\ replied' = replied \cup {j}
       /\ IF P.phase # "open"
          THEN Abandoned(p, j) /\ UNCHANGED disk
          ELSE /\ disk' = [disk EXCEPT ![j] = row]
               /\ IF row.final /\ ~P.op[j].queued
                  THEN /\ proc' = [proc EXCEPT ![p] = [Q EXCEPT !.op[j].pc = "deferred"]]
                       /\ ask' = ask \ {j}
                  ELSE /\ proc' = [proc EXCEPT ![p] = [Q EXCEPT !.op[j].pc = "finalizing"]]
                       /\ UNCHANGED ask
       /\ UNCHANGED <<resume, told, faults>>

\* Mutant: a report that could not be sent is dropped.
SendFailsForGood(p, j) ==
    /\ proc[p].op[j].pc = "sending"
    /\ Fault("send")
    /\ Cleared(p, j)
    /\ UNCHANGED <<resume, told, replied>>

\* The channel refuses the report.
SendFails(p, j) ==
    /\ proc[p].op[j].pc = "sending"
    /\ Fault("send")
    /\ Abandoned(p, j)
    /\ UNCHANGED <<disk, resume, told, replied>>

\* The finalizer returned, or there was none.
Finish(p, j) ==
    /\ proc[p].op[j].pc = "finalizing" /\ proc[p].caller # j
    /\ Cleared(p, j)
    /\ UNCHANGED <<resume, told, replied, faults>>

FinalizerFails(p, j) ==
    /\ proc[p].op[j].pc = "finalizing" /\ proc[p].caller # j /\ Held(proc[p], j).final
    /\ Fault("finalizer")
    /\ Abandoned(p, j)
    /\ UNCHANGED <<disk, resume, told, replied>>

\* setImmediate of a finalizer that Events left behind.
Deferred(p, j) ==
    LET P == proc[p] IN
    /\ P.op[j].pc = "deferred"
    /\ proc' = [proc EXCEPT ![p] = IF P.phase = "open" /\ Held(P, j).note # "none"
                                   THEN [P EXCEPT !.op[j].pc = "finalizing"] ELSE Ended(P, j)]
    /\ UNCHANGED <<disk, resume, ask, told, replied, faults>>

\* Events delivers session-job.delivery-requested.
DeliverEvent(p, j) ==
    LET P == proc[p]
        row == P.jobs[j]
        pc == CASE row.note = "none" -> "idle" [] row.note = "unsent" -> "sending"
                [] row.note = "sent" /\ row.final -> "deferred" [] OTHER -> "finalizing"
    IN /\ P.phase = "open" /\ j \in ask /\ P.op[j].pc = "idle"
       /\ proc' = [proc EXCEPT ![p].op[j] = [Idle EXCEPT !.pc = pc]]
       /\ ask' = IF pc \in {"idle", "deferred"} THEN ask \ {j} ELSE ask
       /\ UNCHANGED <<disk, resume, told, replied, faults>>

\* cancel(): the row first, then the run.  It asks for an open database, not for
\* an open manager.
Cancel(p, j) ==
    LET P == proc[p]
        row == [P.jobs[j] EXCEPT !.status = "cancelled", !.text = FALSE]
    IN /\ P.phase \in {"open", "quiescing", "failed", "paused"} \/ (Overlap /\ P.phase = "retiring")
       /\ IsActive(P.jobs[j])
       /\ disk' = [disk EXCEPT ![j] = row]
       /\ proc' = [proc EXCEPT ![p].jobs[j] = row,
                               ![p].op[j].aborted = IF HasRun(P, j) THEN TRUE ELSE @]
       /\ UNCHANGED <<resume, ask, told, replied, faults>>

------------------------------------------------------------------------------
\* Events delivers session-job.resume-requested: a turn that continues the job
\* is admitted under a key made of the job's id, hence at most once.  A job
\* that cannot be resumed consumes the event.
ResumeEvent(p, j) ==
    LET P == proc[p] IN
    /\ resume[j] = "asked" /\ j \notin P.marking
    /\ ~Admitting(P, j)
    /\ \/ /\ P.phase \in {"open", "quiescing", "paused"}
          /\ j \notin Resumable(P)
          /\ resume' = [resume EXCEPT ![j] = "done"]
          /\ UNCHANGED <<disk, proc, told>>
       \/ /\ P.phase = "open" /\ j \in Resumable(P)
          /\ \E k \in Jobs : P.jobs[k].source = j
          /\ proc' = [proc EXCEPT ![p].marking = @ \cup {j}]
          /\ UNCHANGED <<disk, resume, told>>
       \/ /\ j \in Resumable(P)
          /\ Start(p, j, P.jobs[j].session)
          /\ UNCHANGED resume
    /\ UNCHANGED <<ask, replied, faults>>

\* The continuation was admitted: the interrupted job is closed.
MarkResumed(p, j) ==
    LET P == proc[p]
        row == [P.jobs[j] EXCEPT !.status = "resumed", !.text = FALSE]
        done == [proc EXCEPT ![p].marking = @ \ {j}]
    IN /\ j \in P.marking
       /\ \/ /\ IsActive(P.jobs[j]) /\ ~HasRun(P, j)
             /\ disk' = [disk EXCEPT ![j] = row]
             /\ proc' = [done EXCEPT ![p].jobs[j] = row]
             /\ resume' = [resume EXCEPT ![j] = "done"]
          \/ /\ ~IsActive(P.jobs[j])
             /\ proc' = done
             /\ resume' = [resume EXCEPT ![j] = "done"]
             /\ UNCHANGED disk
          \/ /\ IsActive(P.jobs[j]) /\ HasRun(P, j)
             /\ proc' = done
             /\ UNCHANGED <<disk, resume>>
       /\ UNCHANGED <<ask, told, replied, faults>>

------------------------------------------------------------------------------
\* quiesce(): admission stops, every run is aborted, active rows are paused;
\* then the aborted runs and the sends in flight are awaited.
Quiesce(p, caller) ==
    LET P == proc[p]
        runs == {j \in Jobs : HasRun(P, j)}
        paused == {j \in runs : IsActive(P.jobs[j])}
        rows == [j \in Jobs |-> IF j \in paused THEN Recovered(P.jobs[j]) ELSE P.jobs[j]]
    IN /\ P.phase = "open" /\ p < LastProcess /\ Spare(0)
       /\ Overlap \/ \A j \in Jobs : P.op[j].pc # "label"
       /\ disk' = [j \in Jobs |-> IF j \in paused THEN rows[j] ELSE disk[j]]
       /\ proc' = [proc EXCEPT ![p] =
              [P EXCEPT !.phase = "quiescing", !.caller = caller, !.jobs = rows,
                        !.waits = runs \cup {j \in Jobs : P.op[j].pc = "sending"},
                        !.op = [j \in Jobs |->
                                   CASE j \in runs -> [P.op[j] EXCEPT !.aborted = TRUE]
                                     [] P.op[j].pc = "deferred" -> Idle
                                     [] OTHER -> P.op[j]]]]
       /\ UNCHANGED <<resume, ask, told, replied, faults>>

OperatorQuiesces(p) == "operator" \in Triggers /\ Quiesce(p, 0)

\* A finalizer hands the service over: it waits for the quiesce.
FinalizerQuiesces(p, j) ==
    /\ "finalizer" \in Triggers
    /\ proc[p].op[j].pc = "finalizing" /\ Held(proc[p], j).final
    /\ Quiesce(p, j)

\* What quiesce still waits for.
Awaited(P) == {j \in P.waits : HasRun(P, j) \/ P.op[j].pc = "sending"}

QuiesceReturns(p) ==
    LET P == proc[p] IN
    /\ P.phase = "quiescing" /\ Awaited(P) = {}
    /\ proc' = [proc EXCEPT ![p].waits = {},
                            ![p].phase = IF \E j \in Jobs : HasRun(P, j) THEN "failed" ELSE "paused"]
    /\ UNCHANGED <<disk, resume, ask, told, replied, faults>>

QuiesceTimesOut(p) ==
    /\ proc[p].phase = "quiescing" /\ Awaited(proc[p]) # {}
    /\ Fault("timeout")
    /\ proc' = [proc EXCEPT ![p].waits = {}, ![p].phase = "failed"]
    /\ UNCHANGED <<disk, resume, ask, told, replied>>

\* activate() and publishResumeRequests: the registry is read again, operations
\* under way keep the row objects they had.
Activated(p, P) ==
    LET rows == [j \in Jobs |-> Recovered(disk[j])]
        Q == [P EXCEPT !.phase = "open", !.caller = 0, !.waits = {}, !.jobs = rows,
                       !.op = [j \in Jobs |-> IF P.op[j].pc = "idle" THEN Idle
                                              ELSE [P.op[j] EXCEPT !.own = Held(P, j)]]]
    IN /\ disk' = rows
       /\ resume' = [j \in Jobs |-> IF j \in Resumable(Q) /\ resume[j] = "none"
                                    THEN "asked" ELSE resume[j]]
       /\ ask' = ask \cup Undelivered(Q)
       /\ proc' = [proc EXCEPT ![p] = Q]

\* The coordinator puts a participant back that could not quiesce.
Compensate(p) ==
    /\ proc[p].phase = "failed"
    /\ Activated(p, proc[p])
    /\ UNCHANGED <<told, replied, faults>>

\* The handoff failed elsewhere: the predecessor resumes.
HandoffFails(p) ==
    /\ proc[p].phase = "paused"
    /\ Fault("handoff")
    /\ Activated(p, proc[p])
    /\ UNCHANGED <<told, replied>>

\* The successor activates.  Events was quiesced before, so no handler of a
\* resume event is under way; a turn of a client may be.
TakeOver(p, q) ==
    /\ q = p + 1 /\ proc[p].phase = "paused" /\ proc[q].phase = "unborn"
    /\ proc[p].marking = {}
    /\ \A j \in Jobs : ~Admitting(proc[p], j)
    /\ LET rows == [j \in Jobs |-> Recovered(disk[j])]
           Q == [Unborn EXCEPT !.phase = "open", !.jobs = rows]
       IN /\ disk' = rows
          /\ resume' = [j \in Jobs |-> IF j \in Resumable(Q) /\ resume[j] = "none"
                                       THEN "asked" ELSE resume[j]]
          /\ ask' = ask \cup Undelivered(Q)
          /\ proc' = [proc EXCEPT ![p].phase = "retiring", ![p].caller = 0, ![q] = Q]
    /\ UNCHANGED <<told, replied, faults>>

\* The predecessor exits, or a paused process stops without a successor.
Exit(p) ==
    /\ \/ proc[p].phase = "retiring"
       \/ proc[p].phase = "paused" /\ p < LastProcess /\ proc[p].caller = 0
    /\ proc' = [proc EXCEPT ![p] = [Unborn EXCEPT !.phase = "down"]]
    /\ UNCHANGED <<disk, resume, ask, told, replied, faults>>

Crash(p) ==
    /\ proc[p].phase \notin {"unborn", "down"} /\ p < LastProcess /\ Spare(0)
    /\ Fault("crash")
    /\ proc' = [proc EXCEPT ![p] = [Unborn EXCEPT !.phase = "down"]]
    /\ UNCHANGED <<disk, resume, ask, told, replied>>

\* open() after a stop or a crash.
Boot(q) ==
    /\ q \in Processes \ {1} /\ proc[q].phase = "unborn" /\ proc[q - 1].phase = "down"
    /\ Activated(q, Unborn)
    /\ UNCHANGED <<told, replied, faults>>

------------------------------------------------------------------------------
\* A step of the run, of its delivery or of an event handler.
Works(p, j) ==
    \/ LabelRead(p, j) \/ Begin(p, j) \/ Bind(p, j) \/ Settle(p, j)
    \/ Sent(p, j) \/ Finish(p, j) \/ Deferred(p, j) \/ DeliverEvent(p, j)
    \/ ResumeEvent(p, j) \/ MarkResumed(p, j)

\* A step of a process that stops, continues or starts.
Moves(p) ==
    \/ QuiesceReturns(p) \/ Compensate(p) \/ Exit(p) \/ Boot(p)
    \/ \E q \in Processes : TakeOver(p, q)

Next ==
    \E p \in Processes :
        \/ Moves(p)
        \/ OperatorQuiesces(p) \/ QuiesceTimesOut(p) \/ HandoffFails(p) \/ Crash(p)
        \/ \E r \in Requests, s \in Destinations \cup {New} : Submit(p, r, s)
        \/ \E j \in Jobs : \/ Works(p, j) \/ Cancel(p, j) \/ FinalizerQuiesces(p, j)
                           \/ SendFails(p, j) \/ FinalizerFails(p, j)

Spec == Init /\ [][Next]_vars

------------------------------------------------------------------------------
\* One session never executes two jobs at a time, in one process or in two:
\* ADR 0044, "The same session queue is strictly serial."
SerialSessions ==
    \A p, q \in Processes : \A j, k \in Jobs :
        /\ <<p, j>> # <<q, k>>
        /\ proc[p].op[j].pc = "executing" /\ proc[q].op[k].pc = "executing"
        => Held(proc[p], j).session = New \/ Held(proc[p], j).session # Held(proc[q], k).session

\* A turn leads to one job and an interrupted job to one continuation, however
\* often the turn or the resume event is delivered.
OneJobPerSource ==
    \A j, k \in Jobs : j # k /\ disk[j] # NoRow => disk[j].source # disk[k].source

\* A job the user was told about is in the table, and until it has an outcome
\* the request is there to resume it from.
AcceptedKept ==
    \A j \in told : disk[j].status \in FinalStatus \/ (IsActive(disk[j]) /\ disk[j].text)

\* What ended is not done again: no turn continues a job whose outcome is on
\* record, "startup republishes pending deliveries without rerunning the
\* completed work" (README.md).
WorkNotRepeated ==
    \A j, k \in Jobs : disk[k].source = j => disk[j].status \notin {"completed", "error"}

\* Work is admitted once and done once, across redeliveries and restarts.
WorkOnce == OneJobPerSource /\ WorkNotRepeated

\* A report leaves the table only once it was sent, and a continuation starts
\* only after that, whatever fails in between.
ReportFirst ==
    /\ \A j \in Jobs : disk[j].status \in {"completed", "error"} /\ disk[j].note # "unsent"
                      => j \in replied
    /\ \A p \in Processes, j \in Jobs : proc[p].op[j].pc = "finalizing" => j \in replied

\* Neither an accepted request nor the report about it is lost.
NothingLost == AcceptedKept /\ ReportFirst

\* Once quiesce has returned nothing executes or waits to execute in the
\* process: its successor may start the same jobs.
QuietAfterQuiesce ==
    \A p \in Processes, j \in Jobs : proc[p].phase \in {"paused", "retiring"} => ~HasRun(proc[p], j)

\* An outcome on record stays: no write of a process that held an older row
\* makes the job active again.
DoneStaysDone ==
    [][\A j \in Jobs : disk[j].status \in FinalStatus => disk'[j].status = disk[j].status]_vars

\* A job the user was told about gets an outcome, across restarts and handoffs.
AcceptedSettles ==
    \A j \in Jobs : j \in told ~> disk[j].status \in FinalStatus

\* A quiesce comes to an end without its timeout when runs obey the abort.
QuiesceSettles ==
    \A p \in Processes : proc[p].phase = "quiescing" ~> proc[p].phase # "quiescing"

\* Jobs end and processes let go of them, although each waits for the other.
JobsSettle == AcceptedSettles /\ QuiesceSettles

------------------------------------------------------------------------------
\* Callbacks, executors and channels answer, Events redelivers, a handoff goes
\* on, a stopped process is started again.
Fairness ==
    \A p \in Processes : /\ WF_vars(Moves(p))
                         /\ \A j \in Jobs : WF_vars(Works(p, j))

FairSpec == Spec /\ Fairness
=============================================================================
