-------------------------------- MODULE Kernel --------------------------------
(***************************************************************************)
(* One KernelManager: the Python kernel behind the notebook tool.          *)
(*                                                                         *)
(* The manager is one JavaScript object.  Its methods run to their next    *)
(* await without interruption, and any other method, timer or socket       *)
(* message may run there.  Startups, calls, restarts and disposals are     *)
(* therefore activations, each with the place where it waits.              *)
(*                                                                         *)
(* The kernel is a process reached over three sockets: shell (requests and *)
(* replies), IOPub (output and idle, and requests to the host) and control *)
(* (interrupts).  Each keeps its order; between them there is none.  What  *)
(* the process does with a cell is external.                               *)
(***************************************************************************)
EXTENDS Naturals, Sequences, FiniteSets

CONSTANTS
    Cells,        \* calls of execute
    Endless,      \* cells that end only when they are interrupted
    Asking,       \* cells that ask the host for something
    Overlapping,  \* whether a restart or a disposal may meet a startup, a
                  \* shutdown or a restart that is under way
    FaultKinds,   \* what may go wrong, each once
    MaxFaults,    \* bound: faults in a behaviour
    MaxStarts,    \* bound: startups in a behaviour
    NoCell,       \* no cell
    Restart       \* the call of restart in the queue

ASSUME KernelAssumption ==
    /\ IsFiniteSet(Cells)
    /\ Endless \subseteq Cells
    /\ Asking \subseteq Cells
    /\ NoCell \notin Cells
    /\ Restart \notin Cells \cup {NoCell}
    /\ Overlapping \in BOOLEAN
    /\ FaultKinds \subseteq {"python", "fork", "timeout", "exit", "send",
                             "shell", "iopub", "dispose", "kill", "restart"}
    /\ MaxFaults \in Nat
    /\ MaxStarts \in Nat \ {0}

VARIABLES
    state,      \* state of the manager
    start,      \* where each startup (doStart) is
    memo,       \* startPromise: the startup later callers share
    held,       \* kernel, kernelPid: the process the manager knows
    live,       \* kernel processes that exist
    abandoned,  \* forks given up whose pid may still arrive
    turns,      \* executionQueue: calls and the restart, first at its turn
    active,     \* activeExecution
    heard,      \* completion signals received for it
    call,       \* each call of execute
    restart,    \* the call of restart
    disposing,  \* whether dispose waits for a host request
    wire,       \* the sockets and the process behind them
    request,    \* a request of the kernel to the host
    generation, \* hostRequestGeneration
    faults      \* kinds of faults that happened

manager == <<state, start, memo, held, live, abandoned, restart, disposing>>
cells   == <<turns, active, heard, call>>
kernelVars == <<manager, cells, wire, request, generation, faults>>

Starts  == 1 .. MaxStarts
Nobody  == <<0, "none">>
Processes == Starts \X {"fork", "child"}

Silent == [open |-> FALSE, inbox |-> <<>>, busy |-> NoCell, shell |-> <<>>,
           iopub |-> <<>>, interrupt |-> FALSE, down |-> {}, asked |-> FALSE]

NoRequest == [on |-> FALSE, from |-> Nobody, generation |-> 0, revoked |-> FALSE]

InFlight(a) == a \in Starts /\ start[a] \in
                  {"python", "forking", "resolving", "probing", "failing"}
Launched    == Cardinality({a \in Starts : start[a] # "none"})
HeldLives   == held \in live

Fault(kind) ==
    /\ kind \in FaultKinds \ faults
    /\ Cardinality(faults) < MaxFaults
    /\ faults' = faults \cup {kind}

AtTurn(x) == turns # <<>> /\ Head(turns) = x

-----------------------------------------------------------------------------
KernelInit ==
    /\ state = "idle"
    /\ start = [a \in Starts |-> "none"]
    /\ memo = 0
    /\ held = Nobody
    /\ live = {}
    /\ abandoned = {}
    /\ turns = <<>>
    /\ active = NoCell
    /\ heard = {}
    /\ call = [c \in Cells |-> [pc |-> "new", stop |-> FALSE, on |-> 0,
                                seen |-> FALSE, end |-> "none"]]
    /\ restart = [pc |-> "none", on |-> 0]
    /\ disposing = FALSE
    /\ wire = Silent
    /\ request = NoRequest
    /\ generation = 0
    /\ faults = {}

-----------------------------------------------------------------------------
(* Settlement of calls.                                                    *)

Ended(record, end) == [record EXCEPT !.pc = "done", !.on = 0, !.end = end]

\* Mutant: the call ends and keeps its turn.
SettleInTurn(c, end) ==
    /\ call' = [call EXCEPT ![c] = Ended(@, end)]
    /\ turns' = turns

\* The call ends and hands its turn, if it has it, to the next one.
Settle(c, end) ==
    /\ call' = [call EXCEPT ![c] = Ended(@, end)]
    /\ turns' = IF AtTurn(c) THEN Tail(turns) ELSE turns

\* Mutant: the active cell is forgotten and its call not told.
ForgetActive ==
    /\ UNCHANGED <<call, turns>>
    /\ active' = NoCell
    /\ heard' = {}

\* rejectActiveExecution: the call may have returned before, when it was aborted.
RejectActive ==
    /\ IF active # NoCell /\ call[active].pc = "sent"
       THEN Settle(active, "failed")
       ELSE UNCHANGED <<call, turns>>
    /\ active' = NoCell
    /\ heard' = {}

\* cleanupResources: the process is signalled and forgotten, the sockets close.
CleanupResources ==
    /\ request' = [request EXCEPT !.revoked = TRUE]
    /\ RejectActive
    /\ wire' = Silent
    /\ live' = live \ {held}
    /\ held' = Nobody

-----------------------------------------------------------------------------
(* Startup: start and doStart.                                             *)

\* A startup begins, beside those that are still under way.
Launch(a) ==
    /\ a \in Starts
    /\ start[a] = "none"
    /\ \A b \in Starts : b < a => start[b] # "none"
    /\ start' = [start EXCEPT ![a] = "python"]
    /\ state' = "starting"
    /\ memo' = a

PythonReady(a) ==
    /\ start[a] = "python"
    /\ \/ /\ state = "shutdown"
          /\ start' = [start EXCEPT ![a] = "failed"]
          /\ memo' = 0
          /\ UNCHANGED <<held, live>>
       \/ /\ state # "shutdown"
          /\ start' = [start EXCEPT ![a] = "forking"]
          /\ UNCHANGED <<held, live, memo>>
       \/ /\ state # "shutdown"
          /\ start' = [start EXCEPT ![a] = "resolving"]
          /\ held' = <<a, "child">>
          /\ live' = live \cup {<<a, "child">>}
          /\ UNCHANGED memo
    /\ UNCHANGED <<state, abandoned, restart, disposing, cells, wire, request,
                   generation, faults>>

PythonFails(a) ==
    /\ start[a] = "python"
    /\ Fault("python")
    /\ start' = [start EXCEPT ![a] = "failed"]
    /\ state' = IF state = "shutdown" THEN state ELSE "idle"
    /\ memo' = 0
    /\ UNCHANGED <<held, live, abandoned, restart, disposing, cells, wire,
                   request, generation>>

\* The pid of the fork arrives; whether the manager was disposed meanwhile is
\* asked in the next step.
Forked(a) ==
    /\ start[a] = "forking"
    /\ start' = [start EXCEPT ![a] = "resolving"]
    /\ held' = <<a, "fork">>
    /\ live' = live \cup {<<a, "fork">>}
    /\ UNCHANGED <<state, memo, abandoned, restart, disposing, cells, wire,
                   request, generation, faults>>

\* The fork fails or times out and the kernel is spawned instead, whatever
\* happened to the manager meanwhile; the fork may exist.
ForkGivenUp(a) ==
    /\ start[a] = "forking"
    /\ Fault("fork")
    /\ start' = [start EXCEPT ![a] = "resolving"]
    /\ held' = <<a, "child">>
    /\ \E late \in SUBSET {a} :
          /\ live' = live \cup {<<a, "child">>} \cup {<<b, "fork">> : b \in late}
          /\ abandoned' = abandoned \cup late
    /\ UNCHANGED <<state, memo, restart, disposing, cells, wire, request, generation>>

\* onData: the pid of an abandoned fork is killed.
LateFork(a) ==
    /\ a \in abandoned
    /\ abandoned' = abandoned \ {a}
    /\ live' = live \ {<<a, "fork">>}
    /\ UNCHANGED <<state, start, memo, held, restart, disposing, cells, wire,
                   request, generation, faults>>

\* Mutant: only the death of the process ends a startup.
DoomedByDeath == held[2] = "fork" /\ ~HeldLives
\* What the polls of a startup look at: a direct child that died is reported
\* by its exit handler.
Doomed == state = "shutdown" \/ (held[2] = "fork" /\ ~HeldLives)

\* The connection file names the ports: sockets are opened, then probed.
Resolved(a) ==
    /\ start[a] = "resolving"
    /\ ~Doomed
    /\ HeldLives
    /\ start' = [start EXCEPT ![a] = "probing"]
    /\ wire' = [Silent EXCEPT !.open = TRUE]
    /\ UNCHANGED <<state, memo, held, live, abandoned, restart, disposing, cells,
                   request, generation, faults>>

\* The poll finds the startup doomed or its time is up, as it must be when the
\* process died or a pump failed.  shutdown() first asks
\* a connected kernel to quit, unless the manager is being shut down already;
\* a startup that only failed may be tried again.
GivesUp(a) ==
    /\ start[a] \in {"resolving", "probing"}
    /\ IF Doomed \/ ~HeldLives \/ wire.down # {} THEN UNCHANGED faults ELSE Fault("timeout")
    /\ \/ /\ state # "shutdown"
          /\ wire.open
          /\ start' = [start EXCEPT ![a] = "failing"]
          /\ state' = "shutdown"
          /\ UNCHANGED <<cells, wire, request, held, live, memo>>
       \/ /\ state = "shutdown" \/ ~wire.open
          /\ start' = [start EXCEPT ![a] = "failed"]
          /\ state' = IF state = "shutdown" THEN state ELSE "idle"
          /\ CleanupResources
          /\ memo' = 0
    /\ UNCHANGED <<abandoned, restart, disposing, generation>>

StartupCleaned(a) ==
    /\ start[a] = "failing"
    /\ start' = [start EXCEPT ![a] = "failed"]
    /\ state' = "idle"
    /\ CleanupResources
    /\ memo' = 0
    /\ UNCHANGED <<abandoned, restart, disposing, generation, faults>>

\* probeReady: reply and idle of one probe came through both pumps.
ProbeReady(a) ==
    /\ start[a] = "probing"
    /\ ~Doomed
    /\ HeldLives
    /\ wire.open
    /\ wire.down = {}
    /\ start' = [start EXCEPT ![a] = "ready"]
    /\ state' = "running"
    /\ generation' = generation + 1
    /\ UNCHANGED <<memo, held, live, abandoned, restart, disposing, cells, wire,
                   request, faults>>

-----------------------------------------------------------------------------
(* execute: the call, its turn and its cell.                               *)

\* The first call of an idle manager starts it, later ones join the startup.
Execute(c) ==
    /\ call[c].pc = "new"
    /\ \/ /\ call[c].stop
          /\ Settle(c, "aborted")
          /\ UNCHANGED <<start, state, memo>>
       \/ /\ ~call[c].stop
          /\ memo = 0
          /\ state = "idle"
          /\ Overlapping \/ restart.pc = "none"
          /\ \E a \in Starts :
                /\ Launch(a)
                /\ call' = [call EXCEPT ![c].pc = "starting", ![c].on = a]
          /\ UNCHANGED turns
       \/ /\ ~call[c].stop
          /\ memo # 0
          /\ call' = [call EXCEPT ![c].pc = "starting", ![c].on = memo]
          /\ UNCHANGED <<turns, start, state, memo>>
       \/ /\ ~call[c].stop
          /\ memo = 0
          /\ state # "idle"
          /\ Settle(c, "failed")
          /\ UNCHANGED <<start, state, memo>>
    /\ UNCHANGED <<held, live, abandoned, restart, disposing, active, heard, wire,
                   request, generation, faults>>

\* The startup the call waits for is over.
Started(c) ==
    /\ call[c].pc = "starting"
    /\ ~InFlight(call[c].on)
    /\ IF start[call[c].on] = "failed" \/ state = "shutdown"
       THEN Settle(c, "failed")
       ELSE /\ call' = [call EXCEPT ![c].pc = "queued", ![c].on = 0]
            /\ turns' = Append(turns, c)
    /\ UNCHANGED <<manager, active, heard, wire, request, generation, faults>>

Waiting(c) == AtTurn(c) /\ call[c].pc \in {"queued", "clearing"}

\* waitForActiveExecutionToClearForReuse returns: the previous cell is over,
\* or this call was aborted while it waited.
Cleared(c) == Waiting(c) /\ (active = NoCell \/ (call[c].pc = "clearing" /\ call[c].stop))

\* A cell that outlived its aborted call is interrupted every half second.
InterruptPrevious(c) ==
    /\ Waiting(c)
    /\ ~Cleared(c)
    /\ state # "shutdown"
    /\ call' = [call EXCEPT ![c].pc = "clearing"]
    /\ wire' = [wire EXCEPT !.interrupt = wire.open]
    /\ UNCHANGED <<manager, turns, active, heard, request, generation, faults>>

\* KernelBusyAfterInterruptError, at the end of the reuse wait.
StillBusy(c) ==
    /\ Waiting(c)
    /\ ~Cleared(c)
    /\ call[c].pc = "clearing"
    /\ Settle(c, "busy")
    /\ UNCHANGED <<manager, active, heard, wire, request, generation, faults>>

\* Aborted or shut down while it waited for its turn.
Withdraw(c) ==
    /\ Waiting(c)
    /\ \/ Cleared(c) /\ call[c].stop /\ Settle(c, "aborted")
       \/ ~(Cleared(c) /\ call[c].stop) /\ state = "shutdown" /\ Settle(c, "failed")
    /\ UNCHANGED <<manager, active, heard, wire, request, generation, faults>>

\* executeInner: the cell is active before it is sent.
Send(c) ==
    /\ Cleared(c)
    /\ ~call[c].stop
    /\ wire.open
    /\ state # "shutdown"
    /\ call' = [call EXCEPT ![c].pc = "sent"]
    /\ active' = c
    /\ heard' = {}
    /\ wire' = [wire EXCEPT !.inbox = Append(@, c)]
    /\ UNCHANGED <<manager, turns, request, generation, faults>>

\* The send throws, or there is no socket: the last restart failed.
SendFails(c) ==
    /\ Cleared(c)
    /\ ~call[c].stop
    /\ state # "shutdown"
    /\ IF wire.open THEN Fault("send") ELSE UNCHANGED faults
    /\ Settle(c, "failed")
    /\ UNCHANGED <<manager, active, heard, wire, request, generation>>

\* The signal of a call: it ends the wait for a startup, interrupts a cell that
\* was sent, and is looked at later everywhere else.
Abort(c) ==
    /\ call[c].pc # "done"
    /\ ~call[c].stop
    /\ IF call[c].pc = "starting"
       THEN call' = [call EXCEPT ![c] = Ended([@ EXCEPT !.stop = TRUE], "failed")]
       ELSE call' = [call EXCEPT ![c].stop = TRUE]
    /\ wire' = [wire EXCEPT !.interrupt = @ \/ (wire.open /\ call[c].pc = "sent")]
    /\ UNCHANGED <<manager, turns, active, heard, request, generation, faults>>

\* Mutant: the aborted cell is forgotten with its call.
ForceAbortClears(c) ==
    /\ Settle(c, "aborted")
    /\ active' = NoCell
    /\ heard' = {}
ForceAbort(c) ==
    /\ Settle(c, "aborted")
    /\ UNCHANGED <<active, heard>>

\* The grace after the interrupt is over: the call returns, its cell stays active.
GraceOver(c) ==
    /\ call[c].pc = "sent"
    /\ call[c].stop
    /\ active = c
    /\ ForceAbort(c)
    /\ UNCHANGED <<manager, wire, request, generation, faults>>

-----------------------------------------------------------------------------
(* The pumps.                                                              *)

\* Mutant: a cell is over at the first of its signals.
CompleteAtFirst(signals) == signals \cap {"reply", "idle"} # {}
\* maybeFinishActiveExecution waits for both.
Complete(signals) == {"reply", "idle"} \subseteq signals

Outcome(c, signals) == IF call[c].stop THEN "aborted"
                       ELSE IF "error" \in signals THEN "error" ELSE "ok"

\* The active cell gets completion signals and may be over with them.
Signal(c, signals) ==
    LET all == heard \cup signals IN
    IF active # c
    THEN UNCHANGED <<turns, active, heard, call>>
    ELSE IF ~Complete(all)
    THEN heard' = all /\ UNCHANGED <<turns, active, call>>
    ELSE /\ active' = NoCell
         /\ heard' = {}
         /\ IF call[c].pc = "sent" THEN Settle(c, Outcome(c, all))
            ELSE UNCHANGED <<call, turns>>

ShellPump ==
    /\ wire.shell # <<>>
    /\ "shell" \notin wire.down
    /\ LET reply == Head(wire.shell)
       IN  Signal(reply.cell, {"reply"} \cup (IF reply.ok THEN {} ELSE {"error"}))
    /\ wire' = [wire EXCEPT !.shell = Tail(@)]
    /\ UNCHANGED <<manager, request, generation, faults>>

\* Output is collected for the active cell only; a request to the host gets a
\* controller and the current generation.
IopubPump ==
    LET message == Head(wire.iopub)
        c == message.cell
    IN  /\ wire.iopub # <<>>
        /\ "iopub" \notin wire.down
        /\ wire' = [wire EXCEPT !.iopub = Tail(@)]
        /\ \/ /\ message.is = "output"
              /\ call' = [call EXCEPT ![c].seen = @ \/ (active = c /\ call[c].pc = "sent")]
              /\ UNCHANGED <<turns, active, heard, request>>
           \/ /\ message.is = "idle"
              /\ Signal(c, {"idle"})
              /\ UNCHANGED request
           \/ /\ message.is = "request"
              /\ request' = [on |-> TRUE, from |-> held, generation |-> generation,
                             revoked |-> FALSE]
              /\ UNCHANGED cells
        /\ UNCHANGED <<manager, generation, faults>>

\* A pump fails while the kernel runs: nothing reads its channel any more.
PumpFails(channel) ==
    /\ wire.open
    /\ state # "shutdown"
    /\ channel \notin wire.down
    /\ Fault(channel)
    /\ wire' = [wire EXCEPT !.down = @ \cup {channel}]
    /\ RejectActive
    /\ UNCHANGED <<manager, request, generation>>

\* The handler of the request returns.
HandlerReturns ==
    /\ request.on
    /\ request' = NoRequest
    /\ UNCHANGED <<manager, cells, wire, generation, faults>>

-----------------------------------------------------------------------------
(* Death, restart, disposal.                                               *)

\* The exit handler of a child, or the poll of a running fork.
ExitSeen ==
    /\ held # Nobody
    /\ ~HeldLives
    /\ held[2] = "child" \/ state = "running"
    /\ state' = "shutdown"
    /\ CleanupResources
    /\ memo' = 0
    /\ UNCHANGED <<start, abandoned, restart, disposing, generation, faults>>

Quiet == /\ \A a \in Starts : ~InFlight(a)
         /\ restart.pc = "none"
         /\ ~disposing

\* restart takes its place in the queue.
AskRestart ==
    /\ restart.pc = "none"
    /\ Overlapping \/ Quiet
    /\ Launched < MaxStarts
    /\ Fault("restart")
    /\ restart' = [pc |-> "queued", on |-> 0]
    /\ turns' = Append(turns, Restart)
    /\ UNCHANGED <<state, start, memo, held, live, abandoned, disposing, active,
                   heard, call, wire, request, generation>>

\* A connected kernel is asked to quit first.
RestartStops ==
    /\ restart.pc = "queued"
    /\ AtTurn(Restart)
    /\ state # "shutdown"
    /\ wire.open
    /\ state' = "shutdown"
    /\ restart' = [restart EXCEPT !.pc = "stopping"]
    /\ UNCHANGED <<start, memo, held, live, abandoned, disposing, cells, wire,
                   request, generation, faults>>

RestartLaunches ==
    /\ \/ restart.pc = "stopping"
       \/ restart.pc = "queued" /\ AtTurn(Restart) /\ (state = "shutdown" \/ ~wire.open)
    /\ CleanupResources
    /\ \E a \in Starts : Launch(a) /\ restart' = [pc |-> "starting", on |-> a]
    /\ UNCHANGED <<abandoned, disposing, generation, faults>>

RestartEnds ==
    /\ restart.pc = "starting"
    /\ ~InFlight(restart.on)
    /\ restart' = [pc |-> "none", on |-> 0]
    /\ turns' = Tail(turns)
    /\ UNCHANGED <<state, start, memo, held, live, abandoned, disposing, active,
                   heard, call, wire, request, generation, faults>>

Uncrossed == /\ \A a \in Starts : start[a] # "failing"
             /\ restart.pc \in {"none", "starting"}

\* dispose revokes the host requests, and waits for the handlers if any runs.
Dispose ==
    /\ ~disposing
    /\ Overlapping \/ Uncrossed
    /\ Fault("dispose")
    /\ state' = "shutdown"
    /\ IF request.on
       THEN /\ disposing' = TRUE
            /\ request' = [request EXCEPT !.revoked = TRUE]
            /\ UNCHANGED <<memo, held, live, cells, wire>>
       ELSE /\ CleanupResources
            /\ memo' = 0
            /\ UNCHANGED disposing
    /\ UNCHANGED <<start, abandoned, restart, generation>>

\* The handlers returned, or five seconds went by.
DisposeEnds ==
    /\ disposing
    /\ disposing' = FALSE
    /\ CleanupResources
    /\ memo' = 0
    /\ UNCHANGED <<state, start, abandoned, restart, generation, faults>>

\* kill and disposeSync.
Kill ==
    /\ Overlapping \/ Uncrossed
    /\ Fault("kill")
    /\ state' = "shutdown"
    /\ CleanupResources
    /\ memo' = 0
    /\ UNCHANGED <<start, abandoned, restart, disposing, generation>>

-----------------------------------------------------------------------------
(* The kernel process (ipykernel).                                         *)

Behind == <<manager, cells, request, generation>>

\* A cell runs and prints.
KernelRuns ==
    /\ HeldLives
    /\ wire.busy = NoCell
    /\ wire.inbox # <<>>
    /\ wire' = [wire EXCEPT !.busy = Head(wire.inbox), !.inbox = Tail(@),
                   !.iopub = Append(@, [is |-> "output", cell |-> Head(wire.inbox)])]
    /\ UNCHANGED <<Behind, faults>>

Finished(ok) ==
    [wire EXCEPT !.busy = NoCell,
                 !.shell = Append(@, [cell |-> wire.busy, ok |-> ok]),
                 !.iopub = Append(@, [is |-> "idle", cell |-> wire.busy])]

KernelEnds ==
    /\ HeldLives
    /\ wire.busy \in Cells \ Endless
    /\ wire' = Finished(TRUE)
    /\ UNCHANGED <<Behind, faults>>

\* An interrupt ends the cell that runs, or is swallowed.
KernelInterrupted ==
    /\ HeldLives
    /\ wire.interrupt
    /\ \/ wire.busy # NoCell /\ wire' = [Finished(FALSE) EXCEPT !.interrupt = FALSE]
       \/ wire' = [wire EXCEPT !.interrupt = FALSE]
    /\ UNCHANGED <<Behind, faults>>

KernelAsks ==
    /\ HeldLives
    /\ wire.busy \in Asking
    /\ ~wire.asked
    /\ ~request.on
    /\ wire' = [wire EXCEPT !.asked = TRUE,
                   !.iopub = Append(@, [is |-> "request", cell |-> wire.busy])]
    /\ UNCHANGED <<Behind, faults>>

\* It crashes, or quits because it was asked to.
KernelDies ==
    /\ HeldLives
    /\ IF restart.pc = "stopping" \/ (\E a \in Starts : start[a] = "failing")
       THEN UNCHANGED faults ELSE Fault("exit")
    /\ live' = live \ {held}
    /\ wire' = [wire EXCEPT !.busy = NoCell, !.inbox = <<>>, !.interrupt = FALSE]
    /\ UNCHANGED <<state, start, memo, held, abandoned, restart, disposing, cells,
                   request, generation>>

-----------------------------------------------------------------------------
Startup(a) == \/ PythonReady(a) \/ Forked(a) \/ Resolved(a)
              \/ GivesUp(a) \/ StartupCleaned(a) \/ ProbeReady(a)

Turn(c) == \/ InterruptPrevious(c) \/ StillBusy(c) \/ Withdraw(c)
           \/ Send(c) \/ SendFails(c)

Restarting == RestartStops \/ RestartLaunches \/ RestartEnds

KernelNext ==
    \/ \E c \in Cells : Execute(c) \/ Started(c) \/ Turn(c) \/ Abort(c) \/ GraceOver(c)
    \/ \E a \in Starts : Startup(a) \/ PythonFails(a) \/ ForkGivenUp(a) \/ LateFork(a)
    \/ ShellPump \/ IopubPump \/ HandlerReturns
    \/ \E channel \in {"shell", "iopub"} : PumpFails(channel)
    \/ ExitSeen \/ AskRestart \/ Restarting \/ Dispose \/ DisposeEnds \/ Kill
    \/ KernelRuns \/ KernelEnds \/ KernelInterrupted \/ KernelAsks \/ KernelDies

KernelSpec == KernelInit /\ [][KernelNext]_kernelVars

\* Promises and timers settle, sockets deliver, the kernel works its cells off.
KernelFairness ==
    /\ \A c \in Cells : WF_kernelVars(Started(c)) /\ WF_kernelVars(GraceOver(c))
                        /\ WF_kernelVars(StillBusy(c)) /\ WF_kernelVars(Turn(c))
    /\ \A a \in Starts : WF_kernelVars(Startup(a))
    /\ WF_kernelVars(ShellPump) /\ WF_kernelVars(IopubPump) /\ WF_kernelVars(HandlerReturns)
    /\ WF_kernelVars(ExitSeen) /\ WF_kernelVars(Restarting) /\ WF_kernelVars(DisposeEnds)
    /\ WF_kernelVars(KernelRuns) /\ WF_kernelVars(KernelEnds)

FairKernelSpec == KernelSpec /\ KernelFairness

-----------------------------------------------------------------------------
(* Properties.                                                             *)

CallState == [pc : {"new", "starting", "queued", "clearing", "sent", "done"},
              stop : BOOLEAN, on : Nat, seen : BOOLEAN,
              end : {"none", "ok", "error", "aborted", "busy", "failed"}]

\* The fields of the manager and of its activations have their declared
\* ranges, and who is in the queue waits there.
KernelTypeOK ==
    /\ state \in {"idle", "starting", "running", "shutdown"}
    /\ start \in [Starts -> {"none", "python", "forking", "resolving", "probing",
                             "failing", "ready", "failed"}]
    /\ memo \in {0} \cup Starts
    /\ held \in {Nobody} \cup Processes
    /\ live \subseteq Processes
    /\ abandoned \subseteq Starts
    /\ turns \in Seq(Cells \cup {Restart})
    /\ active \in Cells \cup {NoCell}
    /\ heard \subseteq {"reply", "idle", "error"}
    /\ call \in [Cells -> CallState]
    /\ restart.pc \in {"none", "queued", "stopping", "starting"}
    /\ disposing \in BOOLEAN
    /\ \A n \in 1 .. Len(turns) : turns[n] \in Cells =>
           call[turns[n]].pc \in {"queued", "clearing", "sent"}
    /\ \A m, n \in 1 .. Len(turns) : turns[m] = turns[n] => m = n

\* What a call returns is the whole of its own cell: both completion signals,
\* and with them every output.
OwnResult ==
    \A c \in Cells : call[c].end \in {"ok", "error"} => call[c].seen

\* A cell reaches the kernel only when the one before is over there, even if
\* the call of that one was aborted long ago; unless a pump failed.
Alone ==
    wire.down = {} =>
        Len(wire.inbox) + (IF wire.busy = NoCell THEN 0 ELSE 1) <= 1

\* No kernel process is out of the manager's hands, whatever startup was cut
\* short, but a fork that was given up and whose pid is still to come.
NoOrphan == live \subseteq {held} \cup {<<a, "fork">> : a \in abandoned}

\* Nothing but a new start leads out of a shutdown, and it finds no process of
\* the manager: a disposal is not undone by the startup it met.
ShutdownHolds ==
    state = "shutdown" /\ state' # "shutdown" =>
        /\ state' \in {"idle", "starting"}
        /\ held' = Nobody

\* isCurrent of the context that a handler was given.
IsCurrent == /\ request.on
             /\ state = "running"
             /\ request.generation = generation
             /\ ~request.revoked

\* A handler has its authority only on behalf of the process that asked.
AuthorityIsLive == IsCurrent => request.from = held

CellsKeptApart == OwnResult /\ Alone

ProcessesAccounted ==
    [](NoOrphan /\ AuthorityIsLive) /\ [][ShutdownHolds]_kernelVars

\* A cell that never ends and that nobody aborts holds everybody up, and so
\* does a running kernel whose pump failed: nothing restarts the pump.
HeldUp == \/ wire.busy \in Endless /\ ~call[wire.busy].stop
          \/ state = "running" /\ wire.down # {}

\* Every other call settles: whether its startup fails or is disposed of, its
\* cell ends, is interrupted or ignores the interrupt, or the kernel dies.
CallsSettle ==
    \A c \in Cells : call[c].pc \notin {"new", "done"} ~> (call[c].pc = "done" \/ HeldUp)
=============================================================================
