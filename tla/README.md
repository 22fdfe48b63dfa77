# Formal model of F.R.I.D.A.Y

TLA+ models of the durable core of F.R.I.D.A.Y, the TLC configurations that
check them on small instances, and TLAPS proofs of what matters most for every
size. Paths are relative to the repository root (PROJECT.json writes them with
a leading `src/`).

    tlc -workers 2 -config MCSessionJobs_restarts.cfg MCSessionJobs
    tlapm SchedulerProofs.tla

`PROJECT.json` lists the components, the runs with their properties, for every
property a *mutant* (a plausible bug of one definition under which TLC finds
the property violated), the source lines of every definition (`map`), the
findings, the hazards and the theorems. Operators whose comment begins with
"Mutant" exist only for that and are used by no specification.

## 1. Inventory

F.R.I.D.A.Y is one Node.js process per installation: a capability kernel starts
plugins, plugins keep state in private SQLite databases and files under the
state directory, and the process replaces itself (a *handoff*) when its code or
its settings change. Everything hard follows from three facts: callbacks of one
process interleave at every `await`; a crash or a restart may come between any
two of them; and during a handoff, or by mistake of an operator, two processes
use the same databases.

### Components that carry the core logic

| Component | State | Operations | Hard behaviour | Correct when | Modelled |
|---|---|---|---|---|---|
| Scheduler (`plugins/scheduler`) | `scheduler_tasks`, `scheduler_runs`; per process the worker, the pool of a pass, the executors | schedule, cancel, remove, tick, claim, heartbeat, complete, sweep, restart | two instances, expiring leases, retries that move the next run off the cadence | a lease has exactly one running row; no occurrence is lost or repeated; a due task is served | `Scheduler` |
| Lifecycle handoff (`plugins/lifecycle`) | restart record (file), coordinator maps, the processes themselves | launch, quiesce, release, take over, accept, reject, retire, resume | both sides meet only in a polled file with deadlines; participants refuse to stop or start; crashes | each participant has one owner; some process owns all when it is over | `Handoff` |
| Runtime settings (`plugins/runtime-settings`) | settings file | update with restart, compensation | the candidate is on disk before it is validated | settings on disk are those of the owner | `Handoff` (flow "settings") |
| Session jobs (`plugins/session-jobs`) | table `jobs`; per process the row objects, active runs, session queues, delivery queues | start, run, report, deliver, finalize, cancel, resume, quiesce, activate | work outlives the process; a report, its acknowledgement and its continuation are separate steps | sessions are serial, work is kept and done once, reports come before continuations | `SessionJobs` |
| Events (`plugins/events`) | append-only log, consumers with cursor and lease, deliveries; per process its handlers and worker | publish, register, rewind, claim, renew, complete, stop, close, compact | lease expiry beside a live handler; attempts used up by restarts; compaction | at least once, in order, the cursor passes an event only after a success or the last attempt | `Events`, `EventLog` |
| Channels, ingress (`plugins/channels`) | events `channel.ingress.*`, batches, batch replies | admit, batch, group, collect replies, send, mark | a batch is formed anew at every attempt; jobs report through it | no message counts as processed unanswered | `Ingress` |
| Turn loop (`plugins/turn-loop`) | events `turn.*`, reply outbox, after-reply callbacks | execute, store, deliver, finalize, complete, replay | crash between any two records, repeated deliveries | an executed turn is not executed again, its reply is kept and precedes the finalizers | `Ingress` |
| Generations (`plugins/generations`) | HEAD, pins, `generations.json`, rollback journal | checkpoint, activate, clean up, plan, roll back, recover | crash or failing git in the middle of a change | HEAD and state never part unexplained | `Generations` |
| Self improvement (`plugins/self-improvement`) | candidates, handoffs, missions, restart record, durable finalizer | promote, launch, finalize, verify, complete, roll back | crash of either side, deadlines, failing clean-ups | the records say what the repository shows; missions end | `Improvement` over `Generations` |
| Computer (`plugins/computer`) | screen and control leases, generations, waiters, paused agents | acquire, renew, expire, take over, hand back, sweep, act, maintain, close | everything awaited between two serialized bodies | one lease per screen, actions only in control, no lost wake-up | `Computer` |
| Runtime coordination (`src/runtime-coordination.ts`) | gate directory, lease files, processes and their births | acquire, judge, remove stale, list, write lease, release | check of a stale owner and its removal are steps; the dead leave gates and leases; ids are reused | one process in the gate; one runtime but for a handoff; none beside a guard | `RuntimeCoordination` |
| State backup (`src/state-backup.ts`) | backups, roots, directories laid out and moved aside, lock | create, restore, roll back | several renames, any of which fails | the roots belong together, all or none is restored | `StateBackup` over `RuntimeCoordination` |
| Execution (`plugins/execution`) | the Python kernel of the notebook tool: state of its manager, startups, queue of calls, active cell, sockets, process | start, execute, abort, interrupt, restart, dispose, kill, answer the kernel's requests | a method resumes after anything may have happened; replies and output travel on different sockets; processes outlive startups | a result is its own cell's, calls settle, no process escapes | `Kernel` |
| Worktrees, webhooks, audit, spending, autonomy, vault | small stores | | replay windows, hash chain, budgets | | not yet or left out, see PROJECT.json |

The rest (channels' transports, model providers, MCP, sandbox command lines,
memory ranking, prompts, voice, the desktop shell, scripts) is input and output
or data; PROJECT.json gives each its reason.

### How they interact

* A user's message reaches *Turn loop* through *Channels* or the client
  transport. Turn loop routes it and starts a *Session job* with the turn's key
  as `sourceKey`; the job executes an agent in a session and reports back.
* *Session jobs* publishes `session-job.resume-requested` (with a fixed id) and
  `session-job.delivery-requested` to *Events*, and is itself the consumer. The
  consumer of the former submits a turn to Turn loop that continues the job.
* A job can end in a *finalizer*: self-improvement and runtime settings use it
  to request a handoff after the report was delivered.
* A *Computer* screen is leased by the run of an agent in Turn loop; a human's
  client takes control of it and hands it back.
* A tool call of an agent reaches the *Execution* plugin's kernel; the code in a
  cell may ask the host for a tool of its own, on behalf of the call.
* *Self improvement* moves the repository through *Generations*, then requests
  a handoff; the successor verifies the generation before it accepts.
* *Lifecycle* knows five participants, in the order of their ids:
  channels.transports, events, scheduler, session-jobs, webhooks. They are
  activated in this order and quiesced in the reverse.

## 2. Plan

In order of importance; what is struck off is on disk.

1. ~~`Scheduler`, `SchedulerProofs`~~: leases and occurrences.
2. ~~`Handoff`, `HandoffProofs`~~: single ownership, complete takeovers.
3. ~~`SessionJobs`, `SessionJobsProofs`~~: jobs across restarts.
4. ~~`EventLog`, `Events`, `EventsProofs`~~: the abstract log and the store that
   implements it.
5. ~~`Ingress`, `IngressProofs`~~: messages, batches and durable turns.
6. ~~`Generations`, `Improvement`, `ImprovementProofs`~~: promotion, missions,
   rollback.
7. ~~`Computer`, `ComputerProofs`~~: leases and control.
8. ~~`RuntimeCoordination`, `StateBackup`, `RuntimeProofs`~~: who may run, and
   what works while nobody does.
9. ~~`Kernel`, `RuntimeProofs`~~: calls, startups and processes of the Python
   kernel.
10. Worktrees, webhooks, the audit chain, spending; cron expressions as a pure
    module against a reference definition.

## 3. Modules

| Module | What it is |
|---|---|
| `Scheduler` | store, service and worker of the scheduler |
| `MCScheduler` | tasks, policies, cadences and symmetry for TLC |
| `SchedulerProofs` | proofs about `Scheduler` |
| `Handoff` | restart record, both sides of a takeover, the coordinator, both flows |
| `MCHandoff` | sets of faults for TLC |
| `HandoffProofs` | proofs about `Handoff` |
| `SessionJobs` | registry, queues, delivery, resume and handoff of session jobs |
| `MCSessionJobs` | turns, sessions and symmetry for TLC |
| `SessionJobsProofs` | proofs about `SessionJobs` |
| `EventLog` | abstract: what the Events plugin promises a consumer |
| `Events` | the database, leases, workers and compaction; implements `EventLog` |
| `MCEvents` | consumers' filters and delays for TLC |
| `EventsProofs` | proofs about `Events`, among them that it implements `EventLog` |
| `Ingress` | ingress consumer, turn loop, reply outbox and the answer to the channel |
| `MCIngress` | senders for TLC |
| `IngressProofs` | proofs about `Ingress` |
| `Generations` | repository, pins, recorded generations, rollback journal, managers |
| `Improvement` | candidates, missions and both sides of their handoff, over `Generations` |
| `MCImprovement` | candidates for TLC |
| `ImprovementProofs` | proofs about `Generations` and `Improvement` |
| `Computer` | leases, control, paused agents and tool calls of a computer node |
| `MCComputer` | screens and preferences for TLC |
| `ComputerProofs` | proofs about `Computer` |
| `RuntimeCoordination` | the gate, leases, runtimes and the stopped-runtime guard |
| `StateBackup` | backup and restore under the guard, beside the runtimes |
| `MCStateBackup` | process ids and their births for TLC |
| `Kernel` | the kernel manager, its startups and calls, and the kernel process behind its sockets |
| `MCKernel` | cells for TLC |
| `RuntimeProofs` | proofs about `RuntimeCoordination`, `StateBackup` and `Kernel` |

### Scheduler

Several *instances* (processes) share the database. A database call is a
transaction, hence one atomic step.

| Variable | Code |
|---|---|
| `task` | table `scheduler_tasks`: enabled, `next_run_at`, `retry_scheduled_for`, lease id and expiry |
| `runs` | table `scheduler_runs`, per task in insertion order |
| `worker` | whether an instance's worker is off, applying missed-run policies, polling or stopping |
| `todo` | missed-run updates a starting worker computed and has not written yet |
| `hasExec` | whether an instance has the task's executor |
| `slot` | the activation of `runTask` for a task: queued in a pass, looping, deferring, running |
| `pool` | free workers of the bounded pool of a pass |
| `clock`, `faults` | time in units; count of injected faults |

Two details decide the interesting behaviour. A claim and its lease take the
time of the *tick* that listed the task (`runDue(current)`), not the time of the
claim. And the deferral of a task whose executor is missing, like the missed-run
policy, reads a row in one database call and writes it in another, so that
another process may act in between.

Actions: `Schedule`, `Cancel`, `Remove`, `StartWorker`, `SkipMissed`,
`StartFails`, `Tick`, `Pass`, `Claim`, `FindMissingExecutor`, `Defer`,
`FinishSuccess`, `FinishRetry`, `FinishExhausted`, `FinishCancelled`,
`LateSettlement` (a completion whose lease is gone), `Heartbeat`, `StopWorker`,
`Crash`, executors that come and go, `AdvanceClock`. A heartbeat
looks at the executor's own signal, which a stopping worker leaves alone: leases
are renewed until settlement. The model has one flag for both signals, so under
a stopping worker it may renew also for an executor whose own signal is aborted
(cancelled before, or by `close`), where the code does not; it need not.

### Handoff

`handoff[r]` is the restart record of handoff r with the predecessor's progress
(`ctl`), `proc[p]` a process with its life, its startup, its coordinator's maps
and the participants active in it, `disk` the settings on disk. Handoff r
launches process r. A call into one participant is one step, and the walks over
the participants (`quiesce` with its restoration, `activate` with its undo,
`resume`) are modelled one participant at a time.

Taken for granted: an update of the record under its file lock is atomic; a
process that is told to stop, or is killed, ends; the next owner begins a
handoff only after its predecessor has settled (the updates are serialised by a
lock polled every 25 ms). Not modelled: a mission's roll back of the generation
and its relaunch when the predecessor is dead (`runner.ts:704-714`). The
recovery finalizer of settings (`runtime-settings/index.ts:366-414`) retires
first and thus follows the mission's flow.

### SessionJobs

| Variable | Code |
|---|---|
| `disk` | table `jobs`: status, source, session, whether the request text is stored, the pending notification, whether it has a finalizer |
| `proc[p].jobs` | the row objects of a process (`jobs`) |
| `proc[p].op` | what the process does about a job: reading its label, waiting in its queue, executing, sending the report, finalizing, deferred; `ahead` is the barrier it waits for |
| `proc[p].tail` | `queues`: the last barrier of each session, aliases included |
| `proc[p].phase`, `waits`, `caller` | open, quiescing (what for, and from which finalizer), failed, paused, retiring, down |
| `proc[p].marking` | resume handlers between the admission of the continuation and `markResumed` |
| `resume`, `ask` | the two kinds of events about a job, unconsumed |
| `told`, `replied`, `faults` | history: accepted jobs, reports that reached the user; count of faults |

`persist` together with the assignment that follows it is one step: the
persist queue is drained by microtasks, before any other callback. When a
registry is read again (`activate`) while an operation is under way, the
operation keeps its old row object (`own`). Statuses retrying and
waiting-for-computer are counted as running. Executors answer at any time, also
with an error, and obey an abort; a finalizer returns, fails, or quiesces the
process. Events is taken as an at-least-once delivery of unconsumed events, in
any order, that stops when the process does.

Not modelled: directives, progress and timelines, pruning beyond 512 rows, the
legacy import, a terminal `persist` that fails, and a successor's map before its
activation (its Events worker may start earlier, but `start` throws and the
event is delivered again).

### Events and EventLog

| Variable | Code |
|---|---|
| `log`, `gone` | table `events` and how much of it is compacted away |
| `consumer` | `event_consumers`: cursor, what is left of a backoff, the delivery that holds the lease, what is left of the lease |
| `delivery` | `event_deliveries`, in order |
| `run` | the deliveries as the handlers of the processes see them: whether stopped, whether the lease was found lost |
| `proc` | life of a process, its registered handlers, its worker, the cutoff a compaction has read |

A transaction is a step; so is what a worker does between two awaits. A claim
recovers an expired lease, looks for the next wanted event and takes a lease in
one transaction; a handler that stalls finds out at its next heartbeat or at
its completion. Compaction reads the slowest cursor and deletes in two steps.
`EventLog` knows none of this: it has a position per consumer, the attempts made
for an event and its fate, and allows a position to move only over the next
wanted event, after an attempt, as a success or once the budget is used. The
refinement mapping (`Log`) computes position, attempts and fate from cursor and
deliveries; `Answer` maps to `Succeed`, `GiveUp` or a stutter, `RunPending` to
`Deliver`.

### Ingress

One consumer handles one delivery at a time (`handler`), as the id of the
consumer is one and Events delivers in order. `turn[t]` is the set of durable
events of turn t, `outbox[t]` its row, `pending` the callbacks the process holds
in memory, `replies`, `closed`, `processed` the batch's events. A turn is named
by the set of messages it answers, as its key is derived from the batch. Each
durable write is a step, since the process may die after it. `Succeeds` and
`Throws` are what Events does with the answer of a handler. Background jobs run
beside everything and report through the reply function of the turn that
started them (`JobReports`).

### Generations and Improvement

`head`, `clean`, `pins`, `saved` and `journal` are durable and change one at a
time. A *manager* (`op`) works from the state it read when it was opened and is
at one durable write; `Reject` is the refusal of what no longer admits the next
one, `OnError` the clean-up that follows a failure in each place. `Improvement`
opens managers where the runner and the successor do, and adds the records
(`cand`, `handoff`, `mission`, `record`, `due`), the predecessor's run, the
successor (`heir`) and who owns the service. Actions are named after the
functions they stand for and grouped into `Promotion`, `Finalization` and
`Succession`.

The restart record is that of `Handoff`, reduced to what decides the mission:
the participants and their order are left to that module. The races at its
deadlines are kept. A wait that times out or is aborted leaves a record alone
that was accepted since it was read, and fails all the same (`WaitFails`,
`restart.ts:86`, `:310`, `:323`): the predecessor then terminates the successor
that serves (`Retire`), with whatever that one was developing, marks the record
failed, and rolls the completed mission back; its `handoff` record keeps saying
"completed" beside a mission that says "rolled-back". A launch that fails leaves a
record alone that became ready meanwhile (`LaunchFails`, `restart.ts:73`); the
successor is rolled back under and waits for a release that never comes, until
its own deadline (`Deserted`, `GiveUp`).

`retireReplacement` is taken to succeed. If it threw, because the record cannot
be written or the process outlives SIGKILL, the code would go on and roll back under
a successor that may be serving (`runner.ts:573-584`).

### Computer

`service.ts` runs every change inside `serialize`, whose bodies are synchronous;
a body is an action. What lies between two bodies of one operation, the
provider, a refresh, a callback, is where others act: a drain pass (`drain`), a
hand-back (`handBacks`), a sweep (`candidates`), a tool call (`run[o].pc`). Time
is two facts: a lease has lapsed, a human has been idle for the grace period. A
tool call is `Call`, `Begin`, `Finish` and, when it failed under an older
generation, `Catch`, `Pause`, `Recheck`.

### RuntimeCoordination and StateBackup

| Variable | Code |
|---|---|
| `gate` | directory `operation.gate`: its owner, or its owner file is gone, or it does not exist |
| `leases` | files of the lease directory, each of a process and its birth |
| `births` | how many processes have had a process id |
| `proc[p]` | the process that has the id: its step in `acquireGate`, `liveLeases` or the release, the owner it read, what it listed and found alive |
| `root`, `backups`, `staged`, `aside` | the state directories, published backups, `.restore-<id>`, `.pre-restore-<id>`; each holds the number of a write |
| `job[p]` | the step of a backup or restore, and of its rollback |

File operations are the steps: a rename that publishes the gate (`Publish`,
`Collide`), the read of its owner and the judgement (`ReadOwner`, `Judge`), the
removal of a stale gate in two (`RemoveOwner`, `RemoveGate`), one lease of a
sweep at a time (`Sweep`), the lease's write, the release in two. A process
dies at any of them (`Crash`, `Dies`) and its id is used again. `StateBackup`
extends the module: what happens between `Guard` and `EndGuarded` is a backup
or a restore, root after root, with every failure the code answers.

### Kernel

`KernelManager` is one JavaScript object whose methods wait at many places; what
each waits for is where the others act. One manager, hence one kernel, is
modelled: managers share nothing but the fork server.

| Variable | Code |
|---|---|
| `state`, `memo`, `held` | `state`, `startPromise`, `kernel` / `kernelPid` |
| `start[a]` | where activation a of `doStart` is: finding Python, forking, waiting for the connection file, probing, cleaning up |
| `live`, `abandoned` | processes that exist, forks given up whose pid may still arrive |
| `turns` | `executionQueue`, a chain of promises: calls and the restart, in order |
| `active`, `heard` | `activeExecution` and which of its completion signals came |
| `call[c]`, `restart`, `disposing` | where each activation of `execute`, `restart`, `dispose` waits |
| `wire` | the sockets, the interrupt that is on its way, which pump ended, and the cell the process runs |
| `request`, `generation` | the request of the kernel to the host, its authority |

A call is `Execute` (which starts an idle manager or joins a startup),
`Started`, its turn (`InterruptPrevious`, `StillBusy`, `Withdraw`, `Send`,
`SendFails`) and one of `ShellPump`, `IopubPump`, `GraceOver`, `ExitSeen` that
settles it. `CleanupResources`, `RejectActive` and `Settle` are part of every
action whose handler calls them. The process itself (`KernelRuns`, `KernelEnds`,
`KernelInterrupted`, `KernelDies`) is external: it works its cells off in order,
answers on two sockets, and may swallow an interrupt. `call[c].seen` is history.

Not modelled: snapshots of the namespace (no caller configures them), timeouts
of cells (a caller's `AbortSignal`, hence `Abort`), several requests to the host
at once, and the fork server's own startup.

## 4. Runs

Each checks a question on an instance that is small and meets the cases that
matter. Where the code and its own documentation disagree, the counterexamples
below say how to see it.

| Run | Instance | Shows |
|---|---|---|
| `scheduler_single` | 1 instance, a recurring catch-up task and a one-shot, pool of 1, an executor that comes and goes, clock to 4, 2 faults | TypeOK, OccurrencesKept, CancelSticks |
| `scheduler_timely` | 2 prompt instances, 1 skip task, clock to 5, 2 faults, fair | RunningIsLeased, NeverTwice, OutcomeIsFinal, DueIsServed |
| `handoff_mission` | 2 handoffs, 2 participants, failed launches and activations, crashes | TypeOK, SingleOwner, AcceptedOwnerComplete |
| `handoff_recovery` | both flows, refusals to stop, crashes, fair | ServiceRecovers |
| `sessionjobs_restarts` | 2 turns, 4 job ids, 2 processes, one fault of any kind, handoffs by operator and finalizer | TypeOK, SerialSessions, WorkOnce, NothingLost, DoneStaysDone |
| `sessionjobs_settles` | 2 turns, 3 job ids, a crash or an operator's handoff, fair | JobsSettle |
| `events_delivery` | 2 processes, 2 events, 1 consumer with 2 attempts, one fault of any kind, fair | TypeOK, DeliveriesSound, ImplementsLog, Settles |
| `ingress_answers` | 2 messages of one sender, 3 attempts, 2 faults, fair | TypeOK, AnsweredOnce, Settles |
| `improvement_missions` | 2 candidates, 4 generations, 3 failures, fair | ImprovementTypeOK, RepositorySound, MissionsTruthful, MissionSettles |
| `computer_control` | 2 agent runs, 1 screen, 1 human who does 2 things, 1 call per run, one fault of any kind, fair | TypeOK, ActsInControl, PausedForHuman, WaitingEnds |
| `statebackup_restore` | 2 process ids, one used three times, 2 roots, a backup, a write, failures of a copy, a rename and a rollback, fair | BackupTypeOK, Coordinated, WholeState, StartSettles |
| `kernel_calls` | 2 calls, one of an endless cell and one that asks the host, 2 startups, any 2 of 10 disturbances, fair | KernelTypeOK, CellsKeptApart, ProcessesAccounted, CallsSettle |

Some properties are conjunctions; the parts are stated separately in the
modules:

* OccurrencesKept: occurrences advance and attempts increase, nothing is
  dropped, the phase is kept. NeverTwice: one live executor per task, occurrences
  advance.
* WorkOnce: one continuation per job, finished work is not repeated. NothingLost:
  an accepted job stays or was reported, its report comes before its finalizer.
  JobsSettle: accepted jobs get an outcome (AcceptedSettles), a quiesce ends
  without its timeout (QuiesceSettles).
* ServiceRecovers: a process owns all or can still take it back, and the settings
  on disk are its own (OwnerSurvives, SettingsMatchOwner); launched processes become owners or end,
  and handoffs settle (NoLimbo).
* DeliveriesSound: a lease is of one running delivery, attempts are numbered
  without gaps or repetition.
* AnsweredOnce: a processed message was answered (MessagesAnswered), a stored reply
  is kept until delivered, and delivered before finalizers (ReplyFirst); a batch counts as
  delivered when each of its groups has run and its replies were sent
  (BatchesDelivered); no message is executed twice (ExecutedOnce).
* RepositorySound: HEAD is explained, pins hold. MissionsTruthful: what serves
  was verified, what is reported rolled back is.
* ActsInControl: a screen has one lease, live actions are in control, control
  comes back with a fresh observation. WaitingEnds: waiters are served, paused
  agents go on.
* Coordinated: the gate is exclusive, a guard is alone, one runtime serves but
  for a handoff, and nobody is refused because of the dead. WholeState: backups
  and roots are whole, a restore happens or does not, and what it replaces is
  kept.
* CellsKeptApart: a result is the whole of its own cell, and cells meet one at a
  time in the kernel. ProcessesAccounted: no kernel process is out of hand, only a
  new start undoes a shutdown, a request to the host has authority only on behalf
  of the process that asked.

### Bounds and why they are enough

* Scheduler. Tasks meet only in the pool of a pass, so one task suffices for
  the races between instances and two for the pool. With a cadence of 2, a lease
  of 2 and a heartbeat of 1, a clock to 4 (5 with two instances) lets a lease expire, be swept and be
  claimed again, a retry come due and two occurrences be missed. `MaxFaults`
  bounds crashes, stops, cancellations, removals and lost executors together.
  `Timely = TRUE` where two instances run: no process stalls past a heartbeat.
  Catch-up with two instances is a counterexample below; the policies share every
  statement but the choice of the next occurrence.
* Handoff. Two handoffs form the chain in which a successor is a predecessor in
  its turn; two participants are the least for which a walk can fail half-way.
* Session jobs. Two turns meet in one session once the first has created it
  (`Bind`), and two continuations are then admitted behind each other: 4 ids.
  `Spare` keeps enough ids for the continuations, so that the bound on ids never
  hides a resume. Two processes are enough for one restart; a second one meets
  the same table. `MaxFaults = 1` because each fault takes the model back to a
  state in which nothing remembers it. `MaxActive` is out of the way, see below.
  `Overlap = FALSE` keeps a handoff from beginning while a label is read, and a
  cancellation from reaching a predecessor whose successor is active already (see
  the counterexamples).
* Events. Two processes are what a lease is contended by; two events make one
  that must wait for the other; two attempts separate the retry from the dead
  letter. A lease of two ticks is renewed once before it expires.
  `Alone = TRUE`: no other process registers or rewinds a consumer while one
  compacts. `events.sqlite` belongs to one installation, but nothing enforces
  it; the counterexamples say what happens.
* Ingress. Two messages are the least that can form a batch, be split by the
  router, or wait for each other. Three attempts are those of the code, two
  faults leave one that succeeds. Three assumptions keep known counterexamples
  out: `Stable` (a repeated execution returns the same reply), `Grows = FALSE`
  (no message joins a batch between two attempts), `ReplyLimit` out of the way.
* Improvement. Two candidates are a promotion on top of a promotion, by the
  predecessor or by the successor of the first. Four generation numbers: one
  checkpoint and one activation for each. Three failures, because it takes two to
  be in the clean-up of a clean-up. Two assumptions about time, at `StartRun`
  and `Evaluated`: a process makes one run at a time, its deferred handoff included,
  and developing a candidate takes longer than a dying successor or a durable
  finalizer takes to end.
* Computer. One screen and two runs contend; two things a human does are a
  takeover followed by a second one, by activity or by a hand-back. A run makes
  one tool call, from which every wait of an agent is reached. `Suits` is only
  met by runs without a required screen. One node: requests to several nodes
  are tried one after the other in the same body.
* State backup. Two processes contend for the gate; an id used three times gives
  a crashed owner, a crashed runtime, and a process that has their id. (Three
  ids, each used once, pass as well.) Two roots
  are the least of which one is exchanged when the other fails. Each kind of
  failure happens once, two in all: a rollback fails after something else did.
  `Prompt = TRUE`: the gate stays put from the moment a waiter reads its owner
  until it removes it; the counterexamples say what happens otherwise.
  `Recorded = TRUE`: leases carry the birth of their process, as on Linux.
  Processes do not die between the renames of a restore ("cut").
* Kernel. Two calls are one that waits for the turn of the other, and one cell
  that is left behind in the kernel when its call was aborted. Two startups are
  the first and that of a restart, or of a call after a failed one. Each
  disturbance happens once, two in all: the second meets what the first left
  half done. `Overlapping = FALSE`: a restart does not meet a startup, nor a
  disposal a restart; the counterexamples say what happens otherwise.

`CHECK_DEADLOCK FALSE` is set where the system really stops: no more handoffs
to request, every job settled in the last process, every event passed, every
message answered, every mission over, every run ended, every process id used
up, every call settled. All runs of the scheduler
check deadlock.

### Fairness

* Scheduler: weak fairness of starting a worker (a supervisor restarts the
  process), of ticks (interval timer), of the turns of a pass (event loop), of
  settlement (executors are assumed to return), of heartbeats and of the clock.
* Handoff: of the two sides' next steps (timers with deadlines; participants
  answer) and of the exit of a process that was told to end.
* Session jobs: per job of the steps of its run, its delivery and its events
  (executors, channels and finalizers answer, Events redelivers), and of the
  steps with which a process goes on after a quiesce or starts again. Submitting,
  cancelling, faults and asking for a handoff are not fair: they may never come.
* Events: per process of what its plugin does at a start and of its worker's
  loop; per consumer of handlers that answer (`ok` or `fail`, never `abort`
  alone) and of heartbeats; of time.
* Ingress: of the next step of the delivery (Events claims again, executors and
  the channel answer) and of background jobs that report. Crashes and refusals
  are not fair.
* Improvement: per candidate of the runner and of the successor, per manager of
  its next write, and of the supervisor that starts the service again.
  `StartRun` is not fair: nobody need ever ask for a change.
* Computer: of the timer's three jobs (`setInterval`, `ensureTimer`), of agents
  and providers that answer, of time, of a node that comes back. What a human
  does is not fair; WaitingEnds therefore excepts a human who keeps a screen
  until handing it back by hand.
* State backup: of what a started process does by itself, of its deadline, and of
  a backup or restore that works. Starts, crashes and failures are not fair.
* Kernel: of promises and timers (startups, turns, the grace of an abort, the
  reuse wait, restart and disposal once begun), of the sockets, of the handlers of
  host requests, and of a process that ends the cells that can end. Aborts,
  restarts and faults are not fair; CallsSettle therefore excepts an endless cell
  that nobody aborts, and a pump that failed while the manager goes on.

### Counterexamples without a run

Change a constant, or add the property to the cfg, to see them.

Scheduler

* `scheduler_timely` with `Policy <- MixedPolicy`, `MaxClock = 4` and no fault:
  OneLiveExecutor, a part of NeverTwice. `claimTask` is given the time of the tick, so after a catch-up
  execution longer than the lease the next lease is born expired, and a second
  instance claims the task beside a live executor (ADR 0024:39).
* SkipDiscardsMissed in `scheduler_single` with `Policy <- SkipPolicy`: the skip policy moves `next_run_at`
  but keeps `retry_scheduled_for`, so a missed occurrence with a pending retry is
  executed after the start (ADR 0024:35).
* `Instances = {a, b}` in `scheduler_single`: CancelSticks.

Handoff

* `Flows = {"settings"}` without faults: SingleOwner. `settleFailure` resumes the
  predecessor's participants before it retires a successor that may have
  activated the same ones (`lifecycle/contract.ts:12`). The mission's flow
  retires first, and for that order the property is proved.
* `Serial = FALSE` with both flows, or `FaultKinds = {"quiesce"}`: SingleOwner.
* `Serial = FALSE` with both flows, no faults: SettingsMatchOwner (two handoffs: the
  mission replaces the process whose settings change is still being launched) and
  OwnerSurvives (three: both successors accept). `FaultKinds = {"activate"}`:
  OwnerSurvives, because a participant that does not start again is only remembered.

Session jobs

* `Overlap = TRUE`, one turn: QuietAfterQuiesce; two turns and a session, two
  processes: SerialSessions and WorkOnce. `startAdmitted` checks `closed`, awaits
  the label and does not check again: the job is admitted and executed by a
  process that already let go (`manager.ts:496`, against `:638`).
* `Triggers = {"finalizer"}`, two turns of one session, fair: QuiesceSettles. A
  finalizer that quiesces waits for the follow-up job queued behind it, which
  waits for the finalizer's barrier; only the 20 s timeout ends it, and the
  handoff fails. The comment at `manager.ts:962` says that this cannot happen.
* `MaxActive = 1`, one turn, no fault: AcceptedSettles. A paused job counts
  against the limit while its continuation is admitted, so at the limit nothing
  can be resumed.
* `FaultKinds = {"timeout"}`, one turn: AcceptedSettles. After a quiesce that
  timed out, the compensation requeues the aborted job but publishes no resume
  event because its run is still active; it waits for the next restart.
* `Overlap = TRUE`, two processes, one turn: DoneStaysDone. `cancel` does not ask
  whether the manager is closed (`manager.ts:587`), and the client transport of
  the predecessor, which takes no part in the handoff, goes on calling it. The
  cancellation is written from the predecessor's own copy of the row; the
  successor resumes the job all the same, and its write replaces the outcome the
  user was told.
* A cancellation while the resume event of the job is being handled cancels the
  interrupted row, not its continuation.
* ADR 0044:135 says that interrupted jobs are marked as errors and not resumed;
  the code requeues and resumes them.

Events

* `Alone = FALSE`: ImplementsLog and DeliveriesSound. `compact` reads the slowest
  cursor outside the transaction that deletes (`store.ts:624`): a consumer that
  another process registers or rewinds in between loses events, and a delivery
  deleted under its lease makes every later claim of the consumer throw.

Ingress

* ReportReaches, no fault: `batchOpen` stays true through the turns of the other
  groups and the send (`channels/index.ts:850`), but the replies of a group are
  collected once, after its turn. A background job that finishes in between
  stores its report as a batch reply that nobody collects, and Session Jobs
  records it as delivered; the user was promised it (`turn-loop.ts:740`).
* `ReplyLimit = 1`: MessagesAnswered. The replies of a group are looked for among the
  oldest 1000 batch replies of the log (`index.ts:868`), which keeps 30 days;
  when that many are retained, new ones are beyond the limit, nothing is sent,
  and the messages count as processed.
* `Grows = TRUE` with one refused send, or three refused sends: MessagesAnswered. The
  batch is formed anew at each attempt; when a message joins or leaves it, its id
  changes, and the replies stored under the old id are not found while their
  turns are complete.
* `Stable = FALSE`: a second execution after a crash returns another reply, which
  collides with the stored one until the message is a dead letter; the user is
  told of a failure although the work was done.
* Requiring a result in MessagesAnswered: after one failing executor the failure reply
  has the number of the result, which then counts as sent (`index.ts:856`).

Improvement

* JournalCurrent as an invariant of `improvement_missions`: a promotion opens a
  manager and activates without looking at the rollback journal
  (`self-improvement/runtime/src/manager.ts:363`). If a rollback was interrupted
  after the active generation moved and before the journal was removed, the
  promotion succeeds, and the journal names two generations that are both in the
  past. Every rollback and every resume begins with `recoverInterruptedRollback`,
  which from then on throws that the journal is stale. ADR 0022:25 promises that
  an interrupted rollback is recovered "before a new promotion/resume decision".
* TakeoverHolds, `FailureKinds = {"late"}`: the finalizer of the handoff is part of
  a stored reply. When the predecessor dies after the takeover, it runs again in
  the successor, which is not the predecessor of the record and so rolls back the
  very generation it runs (`self-improvement/index.ts:664`). ServesVerified
  leaves this case out.
* `FailureKinds` with "cleanup": HeadExplained. When the clean-up of a failed
  activation fails too, HEAD stays ahead of the record without a pin.
* A crash between the fast-forward of HEAD and the save leaves a state in which
  every later promotion is refused, with nothing that repairs it; a torn reset
  leaves a dirty checkout with the same effect. A plain restart looks at neither
  missions nor journal, and a mission whose process died in the deferred handoff
  stays "restarting" (hence the exception in MissionSettles).
* When `BuildEnds` fails, the promoted generation stays active without a mission.

Computer

* Replanned: a call made after a hand-back takes the generation of the moment
  (`computer/index.ts:182`), although the agent has not seen the screen since the
  takeover. `docs/COMPUTER.md:161` says that a hand-back forces a fresh
  observation; it does so only for an agent whose call was interrupted.
* MaintainedAlone: a restart, update or reset looks for leases once and then
  awaits the provider outside the queue; a screen may be leased meanwhile
  (`docs/COMPUTER.md:179`).
* In every run: a waiter aborted while its admission is decided leaves a lease
  until its time is over (`service.ts:1130`); WaitingEnds holds because it
  expires. A sweep hands back from a list that may be out of date: a human who
  became active meanwhile loses the screen (`:1532`).
* Not expressible here, seen in the code: a `tryAcquire` that throws ends the
  drain pass, so the waiters after a bad request are never tried while it is
  parked (`:1130`).

State backup

* `Prompt = FALSE`: Coordinated. A waiter judges the gate by the owner file it
  read, and removes the directory afterwards (`runtime-coordination.ts:262`).
  When another waiter has removed the stale gate and published its own in
  between, that one is removed under its live owner: two processes are inside,
  and a runtime may serve beside a backup, which the comment at `:349` excludes.
* `Recorded = FALSE`: RefusedForCause. Without birth identities (any system but
  Linux) a process that has the id of a dead runtime keeps everybody out.
* `FileFaults = {"cut"}`: WholeState. A restore that dies between two renames
  leaves a root missing, or the roots of two moments; no start looks for what
  was moved aside. The test at `test/state-backup.test.ts:59` says that a restore is
  atomic.
* In the run: a removal of a stale gate, and a release, are two operations; a
  gate published over the emptied directory makes the second fail, and the start
  with it although nothing is wrong (`:236`, `:262`). A lease whose runtime stops
  between the listing and the look at it does the same (`:280`). What a failed
  copy of a restore left behind refuses every later restore of the same backup
  (`state-backup.ts:825`).

Kernel

* `Overlapping = TRUE`: ProcessesAccounted. `restart` takes its turn in the queue
  but a startup does not, so it can meet one: both find Python, the second
  process replaces the first in the manager, and the first is nobody's. The old
  startup goes on with the new one's sockets, and when its time is up it shuts
  the new kernel down (`kernel/index.ts:764`). A disposal that meets the quit
  request of a restart is undone: the restart goes on and starts a kernel
  (`:1609`).
* Requiring that no call ends with an error: the interrupt of an aborted cell is
  on its way when the cell ends by itself, and hits the next one, whose caller
  never aborted (`:1040`, `:1338`).
* CallsSettle without HeldUp's second disjunct: when a pump throws, the calls at
  hand fail, but the state stays running and nothing starts the pump again
  (`:1103`); the next call is sent and waits for ever.

## 5. Proofs

| Theorem | Module | Statement |
|---|---|---|
| `TypeCorrect` | `SchedulerProofs` | `Spec => []TypeOK` |
| `LeaseSafety` | `SchedulerProofs` | `Spec => []RunningIsLeased` |
| `OutcomesFinal` | `SchedulerProofs` | `Spec => OutcomeIsFinal` |
| `OccurrencesAreKept` | `SchedulerProofs` | `ASSUME Undisturbed PROVE Spec => []OccurrencesKept` |
| `CancellationSticks` | `SchedulerProofs` | `ASSUME Undisturbed PROVE Spec => CancelSticks` |
| `NeverExecutedTwice` | `SchedulerProofs` | `ASSUME Punctual PROVE Spec => []NeverTwice` |
| `TypeCorrect` | `HandoffProofs` | `Spec => []TypeOK` |
| `OwnershipSafety` | `HandoffProofs` | `ASSUME RetireFirst PROVE Spec => []SingleOwner` |
| `TakeoverSafety` | `HandoffProofs` | `ASSUME RetireFirst PROVE Spec => []AcceptedOwnerComplete` |
| `ServiceSurvives` | `HandoffProofs` | `ASSUME Serial, "activate" \notin FaultKinds PROVE Spec => [](OwnerSurvives /\ SettingsMatchOwner)` |
| `TypeCorrect` | `SessionJobsProofs` | `ASSUME ~Overlap PROVE Spec => []TypeOK` |
| `SessionsAreSerial` | `SessionJobsProofs` | `ASSUME ~Overlap PROVE Spec => []SerialSessions` |
| `WorkIsDoneOnce` | `SessionJobsProofs` | `ASSUME ~Overlap PROVE Spec => []WorkOnce` |
| `NothingIsLost` | `SessionJobsProofs` | `ASSUME ~Overlap PROVE Spec => []NothingLost` |
| `OutcomesStay` | `SessionJobsProofs` | `ASSUME ~Overlap PROVE Spec => DoneStaysDone` |
| `TypeCorrect` | `EventsProofs` | `ASSUME Alone PROVE Spec => []TypeOK` |
| `TablesSound` | `EventsProofs` | `ASSUME Alone PROVE Spec => []DeliveriesSound` |
| `Refinement` | `EventsProofs` | `ASSUME Alone PROVE Spec => ImplementsLog` |
| `TypeCorrect` | `IngressProofs` | `Spec => []TypeOK` |
| `RepliesComeFirst` | `IngressProofs` | `Spec => []ReplyFirst` |
| `TurnsExecuteOnce` | `IngressProofs` | `Spec => ExecutedOnce` |
| `DeliveredBatchesAreWhole` | `IngressProofs` | `Spec => []BatchesDelivered` |
| `ImprovementTypeCorrect` | `ImprovementProofs` | `ImprovementSpec => []ImprovementTypeOK` |
| `PinsAlwaysHold` | `ImprovementProofs` | `ImprovementSpec => []PinsHold` |
| `RepositoryAlwaysSound` | `ImprovementProofs` | `ASSUME "cleanup" \notin FailureKinds PROVE ImprovementSpec => []RepositorySound` |
| `MissionsAreTruthful` | `ImprovementProofs` | `ImprovementSpec => []MissionsTruthful` |
| `TypeCorrect` | `ComputerProofs` | `Spec => []TypeOK` |
| `ActionsInControl` | `ComputerProofs` | `Spec => []ActsInControl` |
| `PausedAgentsWait` | `ComputerProofs` | `Spec => []PausedForHuman` |
| `Coordination` | `RuntimeProofs` | `ASSUME Prompt, Recorded PROVE BackupSpec => []Coordinated` |
| `BackupTypeCorrect` | `RuntimeProofs` | `ASSUME Prompt, Recorded PROVE BackupSpec => []BackupTypeOK` |
| `Restoration` | `RuntimeProofs` | `ASSUME Prompt, Recorded, "cut" \notin FileFaults PROVE BackupSpec => []WholeState` |
| `KernelTypeCorrect` | `RuntimeProofs` | `KernelSpec => []KernelTypeOK` |
| `CellsAreApart` | `RuntimeProofs` | `KernelSpec => []CellsKeptApart` |
| `ShutdownIsKept` | `RuntimeProofs` | `KernelSpec => [][ShutdownHolds]_kernelVars` |
| `ProcessesAreKept` | `RuntimeProofs` | `ASSUME ~Overlapping PROVE KernelSpec => ProcessesAccounted` |

`Kernel` and the state backup share a proof module and nothing else.

*Scheduler*, from the assumptions on the constants in `Scheduler.tla` and with
no bound on instances, tasks or runs. `RunningIsLeased` is not inductive: a
completion writes the row of the lease that its activation remembers. `IInv`
adds that the lease id remembered by a running activation is a row of its task's
history (`SlotsHaveRuns`), that attempts stay in the range of the type
(`AttemptBounded`) and that a removed task has no lease (`AbsentUnleased`). Each
action has a lemma; `CompletionKeepsTables` and `SweepKeepsTables` carry the two
writes that several actions share. `OutcomesFinal` comes from the same case
analysis. `MaxOfBounded` supplies what `MAX(attempt) + 1` needs.

What the next claim is for is a relation between a row and its history. `Core`
says that the history advances, that the row points past everything in it that
is settled for good (`Ahead`), that a lease is on the last run, and that an
activation remembers the occurrence it claimed (`Remembers`), so that a
cancelled run can restore it. This holds at every step of any number of
processes but two: the deferral of a task without executor and the missed-run
update read the row in one database call and write it in a later one. Hence the
condition `Undisturbed`: one process alone, or neither kind of write (no
executor is ever unregistered, no policy is "skip"). `Deferrals` and `MissedRows`
say that then what was read is still there when it is written, `Kept` adds that
the row points at the occurrence its last run left (`NextInLine`) and lies whole
periods after an anchor (`InPhase`). Without the condition the properties are
false: two processes refute CancelSticks in `scheduler_single`, whose one process
satisfies it.

Two executors are excluded by time, under `Punctual`: heartbeats come before the
lease ends (`Timely`, `Beat < Lease`), and every claim is as recent as its tick,
because a pass has a pool worker for each task and no task goes round the
catch-up loop. The lease of a late claim is counted from the tick, and may be over
when it begins (see the counterexamples). `Timing` says that an executor
that was not aborted holds the lease and will renew it in time (`Holders`), and that no run is in
the hands of two instances (`Apart`); a claim, which finds no lease, then finds
no executor. `Past` and `MissedNow` make the missed-run policy safe here for any
number of processes: what it skips to is later than everything ever claimed.
`scheduler_timely` is an instance of it. Of `Punctual`, `Flaky = {}` keeps
deferrals away, for the reason above.

*Handoff*, under `RetireFirst`: missions only, one handoff at a time per
process, no participant that refuses to stop. (Without it the property is false,
see the counterexamples.) `SingleOwner` follows from the existence of a
*custodian*, the one process that may hold participants; every other process
*stands aside*: it has ended, was not released yet, has let go and waits, or is
leaving. Custody passes to the successor with `Release` and comes back with
`Reaped`. `IInv` is `Shape` (types, and what the progress of each side says of
its record) with `\E c : Custodian(c)`.

`AcceptedOwnerComplete` needs both sides of a takeover in the invariant
(`Takeovers`). From its release on and until its record fails, the predecessor
owns nothing and drives no other handoff (`Stands`). On the other side the
successor walks through the participants: what is not yet activated is still to
be visited, and what was activated is active (`Walks`).

`ServiceSurvives` is about both flows, so neither custody nor single ownership
is available: a settings change resumes before it retires. Its invariant
(`Survival`) follows the process in charge, the *head*: the only owner whose own
takeover is over. Every handoff under way is the head's, there is at most one,
and `Drives` says what the head can still undo: it runs what it does not
remember as quiesced, the call that starts the rest will come to all of it, and
the settings on disk are its own, or, in a settings change, its own are kept as
`previous`. `Stage` says of the successor that nothing activates before the
release and that an accepted one is complete and up, so that `Stop` may pass the
charge on. A failed handoff leads back to a head that has everything
(`DriveEnds`). The two hypotheses are those of the `handoff_recovery` run: with
two flows at once one handoff replaces the process that the other one still
drives, and a participant that refuses to start again is left stopped. Crashes
are allowed; the promise is about the time before the first.

*Session jobs*, under `~Overlap`: no start is reading its label when a handoff
begins, and no cancel reaches a predecessor after the takeover. Without it
SerialSessions, WorkOnce, QuietAfterQuiesce and DoneStaysDone are false, see the
counterexamples. Turns, jobs, sessions, processes and faults are unbounded. The
invariant says that processes follow one another and one acts (`LineOK`); that
the registry of the one that acts shows every job as the table does, but for
what is written last (`Matches`); that what a process does about a job fits its
row (`JobOK`: a run which is to have an outcome belongs to an active row and an
open process, a delivery to a row with the outcome); and that a job which is
continued has no outcome and no run that could give it one (`SourcesOK`). A
session is serial because its queue is in the order of the ids, its tail is
behind every run, and whoever has a run before it waits for a job no earlier
than that run (`QueueOK`). The alias a job's new session gets starts a queue in
which nobody is, since no other row can name that session before. After a failed
handoff the registry is read again while operations hold older rows; they
survive because all of them are aborted runs or deliveries (`Activation`). What
the table never takes back is `Extends`, proved of each action with the
invariant.

*Events*, under `Alone`: no other process registers or rewinds a consumer
between the two halves of a compaction (the hazard at `store.ts:624`; without it
a compaction deletes what a consumer is still due, and the refinement is false).
`DeliveriesSound` is not inductive, because a claim numbers its row by what it
counts and a completion looks its row up by the lease. `IInv` adds that a
delivery is of an event its consumer wants and goes with it
(`DeliveriesOfLog`), that the lease is on the last row, which is of the next
event due (`LeaseIsNext`), that an unregistered consumer has nothing
(`UnknownIsEmpty`), and that a compaction goes no farther than any consumer has
come (`ProcessesBehind`). The refinement has a lemma per action: a publication
and a registration are themselves, a claim is `Deliver`, a completion `Succeed`,
`GiveUp` or a stutter as its row says, compaction is `Forget`, and what happens
to leases, handlers and processes is a stutter.

*Ingress*, from the assumptions on the constants and with no bound on messages,
attempts or faults. That a reply precedes its finalizers, and that no turn on
record is executed, is a relation between a turn's events and the place of the
delivery: `Delivery` says whose batch and group the handler is at, `Progress`
which events of the current turn are in the log at that place. A crash or an
error leaves the events alone, and the next delivery finds its place from them.

That a message was answered before it counts as processed (MessagesAnswered) is
false in general, see the counterexamples. What always holds is
`BatchesDelivered`, with executors that answer differently, routers that change
their mind, batches that grow, windows that are too short and attempts that run
out: a message is marked only in a batch recorded as delivered, and by then
every group the router made of that batch has run to the end, left a reply, and
had its first reply sent if it was within the window. The invariant `Batches`
says it of the batch in hand, place by place (`InHand`): groups that are not left to do
are answered by what was collected (`Whole`), and when none is left everything
collected is sent before the batch is recorded. `Over` keeps it for the batches
recorded. It is kept because completed turns and stored replies stay, and a new
first reply belongs to a group of the batch in hand that is left to do
(`Advances`, `WholeKept`).

*Generations and improvement*, from the assumptions on the constants and with no
bound on candidates, generation numbers or failures. HEAD, the pins, the recorded
state and the journal change one at a time, between steps of up to two managers
that each work from what they read earlier. The invariant, `Improving`, has four
parts. `Typed` says with which commit, generation and plan a manager can be at
which write (`Steady`). `Control` says what can be under way at once: one
promotion or mission at a time (`OneMission`), one run per process (`OneRun`), the
record and the successor that go with each place of the run (`Positions`), and
what the managers of both sides do there (`Opens`). `Disk` relates the managers to
what is saved: a promotion works from the saved state (`Promotes`) and stands
until somebody rolls it back (`Stands`); a rollback works from the recorded
generations, leads to an ancestor, and once begun is journalled or behind itself
(`RollsBack`). Its hard case is a successor that did not come up in time: it still
recovers while the predecessor rolls back, the two exchange the same pair of
generations from copies of different ages, and `Boots` says which. `Records` adds
what candidates, handoffs and missions say: that the generation of a mission
whose rollback is done is gone (`Undoes`), and that what took over is verified and
stays in the line of the active generation whatever is still to be rolled back
(`TakesOver`, `Spares`, `Holds`). It says so of whoever is in office (`InOffice`):
who serves, and also who waits for a successor and may serve again, because a
wait that fails after the acceptance (`Passed`) ends with the successor retired and
the service back with the predecessor, whose own mission must still stand. A
successor that nobody will release (`Stranded`) claims nothing. Because the line
must be kept, lines of descent have lemmas of their own: a line keeps its members
when a generation is added (`LineGrows`) and when the active one changes to an
ancestor of it (`LineGoesOn`). The line is the least set closed under parents; that
is how the lemmas use it, without induction over generation numbers.

`HeadExplained` needs `Unpins` beside that: an activation drops its pin only when
HEAD is not there for it. This is false when git refuses the clean-up itself (see
the counterexamples), hence the hypothesis of `RepositoryAlwaysSound`, which is
also the bound of the run; that pins hold, and what the records say, does not
depend on it.

*Computer*, from the assumptions on the constants and with no bound on runs,
humans, screens or faults. The invariant is stated of the tables as values, so
that a release (`Released...`), a grant (`Granted...`) and a change of control
(`Changed...`) are lemmas about tables and each action cites the one it is. What
it adds to the properties is what survives an await. A lease id that a run or the
pass over the waiters remembers is gone or its own (`Own`), because ids are not
given out twice; so a cleanup releases nobody else's screen. A run that is on its
way to sleep was interrupted by a generation it has not seen (`RunOK`); so a
hand-back finds every sleeper of its lease older than itself and wakes it. And a
hand-back under way is of an earlier generation than the lease's, or nothing has
happened since its observation (`HandBackOK`); so the second body's comparison of
generations is enough for `ReturnedWithView`. Waiters are parked, and queue once
(`WaitersOK`). Once a close has begun only the types and who owns what remain.

*State backup*, under what the constants of the same names stand for: the gate
stays put while a waiter that read its owner judges and removes it (`Prompt`,
the hazard of a stale lock), and leases carry the birth of their process
(`Recorded`, so on Linux). That the guard is exclusive rests on `GateWatched` (one process at
a time looks at the gate in order to remove it, and what it removes has no
living owner), `LeasesKept` (who was let in has its lease on disk, who was not
has none) and `Accounted` (a sweep has everybody who was let in either still to
judge or among the living; so whoever is let in alone is alone); that a refusal
has a cause, on `Met`. `Coordinating` shows that the work under the guard takes
only steps of the coordination, so the invariant carries over to `BackupSpec`.
For `WholeState`, `DInv` says of the one process that works where the previous
content of every root is (`RestoreStands`, whatever fails) and, unless a
rollback failed, which roots hold the backup and which are untouched
(`HalfWay`). A kill between two renames ("cut") is excluded: it leaves the roots
of two moments, and nothing repairs them.

*Kernel*. What a call returns is its own because, while both pumps read, all
that is under way on the sockets and in the process is the active cell's, and
each thing once (`OfActive`): a cell is sent only when none is active, and the
active one is over only after its reply and its idle. When a pump failed that is
lost, but then a completion signal is missing as well (`Deaf`), so nothing is
completed any more until the sockets close. That the result is whole follows
from the order of IOPub: output lies ahead of the idle of its cell
(`OutputFirst`). None of this depends on what overlaps. That no process escapes
does: with `~Overlapping` a startup is under way alone and finds no process of
the manager (`OneStartup`), and a request carries the generation in which it was
made (`Authority`).

### Only model-checked

Liveness (`DueIsServed`, `NoLimbo`, `JobsSettle`, `Settles`,
`MissionSettles`, `WaitingEnds`, `StartSettles`, `CallsSettle`) is out of the
prover's reach. Of `ServiceRecovers` the state part is `ServiceSurvives`, and
`NoLimbo` is left to TLC. MessagesAnswered holds in its run and not in general,
and stays with TLC; RepliesComeFirst, TurnsExecuteOnce and
DeliveredBatchesAreWhole are the other parts of AnsweredOnce. Every other invariant
and action property that a run checks is stated by a theorem, under the
hypotheses in the table.

## 6. Not modelled

See the last rows of the inventory and the notes in PROJECT.json. Within the modelled
components: cron expressions and time zones (schedules are intervals and
one-shots), the import of legacy stores, tool wiring, schemas and file
permissions, executable staging and the tokens that authenticate a successor;
live subscribers and conflicting duplicates of events; enrichment, activation
boundaries and the transports' own retries; the agent's inner loop, which a
language model decides; several computer nodes, resource pressure and the
provider's protocol; malformed coordination files, gates of older builds, probes
of processes that fail; retention, encryption and verification of backups.

The rest of the code, by far the larger part, is translation of requests and
data, drivers of external programs and user interface. It keeps no state whose
order of steps a model could get wrong, and is left to tests.
