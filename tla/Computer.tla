------------------------------ MODULE Computer ------------------------------
(***************************************************************************)
(* Screen leases and control leases of a computer node: who may use an     *)
(* agent's screen, and who of the agent and a human controls it            *)
(* (plugins/computer/service.ts), with the agent runs that use the service *)
(* (plugins/computer/index.ts, plugins/tools/index.ts, the lease keeper    *)
(* and the cleanup of plugins/turn-loop/agent-executor.ts).                *)
(*                                                                         *)
(* One process.  Every body given to `serialize' is synchronous, so it is  *)
(* one action; whatever is awaited between two bodies (the provider, the   *)
(* refresh of a node, a callback) lets every other action in.  Time is     *)
(* abstracted to two facts: a lease has lapsed, a human has been idle for  *)
(* the grace period.                                                       *)
(***************************************************************************)
EXTENDS Integers, SequencesExt

CONSTANTS
    Owners,       \* agent runs, each with its own owner id
    Humans,
    Screens,      \* the node's agent screens
    Pinned,       \* the screen an owner requires, or None
    None,
    MaxCalls,     \* bound: tool calls of a run
    MaxTouches,   \* bound: what the humans do
    FaultKinds,
    MaxFaults     \* bound: what goes wrong

ASSUME ComputerAssumption ==
    /\ None \notin Screens
    /\ Pinned \in [Owners -> Screens \cup {None}]
    /\ MaxCalls \in Nat /\ MaxTouches \in Nat /\ MaxFaults \in Nat
    /\ FaultKinds \subseteq {"cancel", "observe", "renew", "degrade",
                             "unregister", "maintain", "close"}

VARIABLES
    closed,         \* "open", "closing" (adapters being closed) or "closed"
    node,           \* availability of the node in the last refresh, or "absent"
    maintenance,    \* a managed restart, update or reset is under way
    screenLeases,   \* lease id -> the screen, its owner, whether the TTL is over
    ownerLeaseIds,  \* owner -> lease id
    controlLeases,  \* lease id -> who controls the screen, and the generation
    resumes,        \* lease id -> the hand-back observation (agentControlResumes)
    lastLease,      \* lease ids given out
    waiters,        \* owners parked for a screen, in order of arrival
    drain,          \* the pass of drainWaiters over them
    handBacks,      \* hand-backs between their two serialized bodies
    candidates,     \* idle takeovers the sweep has still to hand back
    run,            \* owner -> its agent run
    touches, faults

service == <<closed, screenLeases, ownerLeaseIds, controlLeases, resumes, lastLease>>
vars == <<service, node, maintenance, waiters, drain, handBacks, candidates,
          run, touches, faults>>

Origins == {"client", "sweep"}
Idle == [stage |-> "none", lease |-> 0, by |-> None, generation |-> 0, fresh |-> FALSE]
Resting == [stage |-> "none", rest |-> <<>>, lease |-> 0]

Init ==
    /\ closed = "open" /\ node = "online" /\ maintenance = FALSE
    /\ screenLeases = <<>> /\ ownerLeaseIds = <<>> /\ controlLeases = <<>>
    /\ resumes = <<>> /\ lastLease = 0
    /\ waiters = <<>> /\ drain = Resting
    /\ handBacks = [w \in Origins |-> Idle] /\ candidates = {}
    /\ run = [o \in Owners |-> [pc |-> "idle", lease |-> 0, generation |-> 0, seen |-> 0,
                                calls |-> 0, live |-> FALSE, cancelled |-> FALSE]]
    /\ touches = 0 /\ faults = 0

-----------------------------------------------------------------------------
Leases == DOMAIN screenLeases
With(f, k, v) == [x \in DOMAIN f \cup {k} |-> IF x = k THEN v ELSE f[x]]
Without(f, S) == Restrict(f, DOMAIN f \ S)
Drop(s, o) == IF \E i \in DOMAIN s : s[i] = o
              THEN RemoveAt(s, CHOOSE i \in DOMAIN s : s[i] = o) ELSE s
To(o, pc) == [run EXCEPT ![o].pc = pc]

Fault(kind) == kind \in FaultKinds /\ faults < MaxFaults /\ faults' = faults + 1
Touch == touches < MaxTouches /\ touches' = touches + 1

\* Between the grant and the cleanup: the lease keeper renews the lease.
Working == {"bound", "calling", "acting", "catching", "pausing", "rechecking", "paused"}
Kept(l) == \E o \in Owners : run[o].lease = l /\ run[o].pc \in Working

\* What `controlLease' and `requireControlLease' say of a lease and an owner.
AgentHolds(l, o) == /\ l \in Leases /\ screenLeases[l].owner = o
                    /\ controlLeases[l].holder = "agent"
\* assertAgentControl
MayAct(l, o, g) == /\ AgentHolds(l, o) /\ controlLeases[l].generation = g
                   /\ ~screenLeases[l].lapsed

\* What aborting the actions and rejecting the paused agents of the leases S
\* does to a run: the provider is told, a paused tool call fails.
Interrupted(r, S) ==
    [r EXCEPT !.live = @ /\ r.lease \notin S,
              !.pc = IF @ = "paused" /\ r.lease \in S THEN "bound" ELSE @]

\* Mutant: a released screen keeps its control lease.
ReleaseScreenOnly(S) ==
    /\ run' = [o \in Owners |-> Interrupted(run[o], S)]
    /\ resumes' = Without(resumes, S)
    /\ screenLeases' = Without(screenLeases, S)
    /\ ownerLeaseIds' = Without(ownerLeaseIds, {screenLeases[l].owner : l \in S})
    /\ UNCHANGED controlLeases
\* releaseInternal, for every lease of S.
ReleaseAll(S) ==
    /\ run' = [o \in Owners |-> Interrupted(run[o], S)]
    /\ resumes' = Without(resumes, S)
    /\ screenLeases' = Without(screenLeases, S)
    /\ ownerLeaseIds' = Without(ownerLeaseIds, {screenLeases[l].owner : l \in S})
    /\ controlLeases' = Without(controlLeases, S)

-----------------------------------------------------------------------------
(* Admission *)

\* activeScreenIds, complemented.
Free == {s \in Screens : \A l \in Leases : screenLeases[l].screen # s}

Suits(o, s) == Pinned[o] \in {None, s}

\* tryAcquire, granted: the lease of the owner, or a new one.
Grant(o) ==
    /\ closed = "open" /\ node = "online"
    /\ IF o \in DOMAIN ownerLeaseIds
       THEN UNCHANGED service
       ELSE \E s \in Free :
              /\ Suits(o, s)
              /\ lastLease' = lastLease + 1
              /\ screenLeases' = With(screenLeases, lastLease',
                                      [screen |-> s, owner |-> o, lapsed |-> FALSE])
              /\ ownerLeaseIds' = With(ownerLeaseIds, o, lastLease')
              /\ controlLeases' = With(controlLeases, lastLease',
                                       [holder |-> "agent", by |-> o, generation |-> 1,
                                        idle |-> FALSE, manual |-> TRUE])
              /\ UNCHANGED <<closed, resumes>>

\* tryAcquire, waiting.
NoGrant(o) ==
    /\ closed = "open"
    /\ \/ node # "online"
       \/ o \notin DOMAIN ownerLeaseIds /\ \A s \in Free : ~Suits(o, s)
    /\ UNCHANGED service

\* The run takes the grant into its binding and starts the lease keeper.
Bound(r, l, g) == [r EXCEPT !.pc = "bound", !.lease = l, !.generation = g, !.seen = g]

\* requestScreen: lapsed leases are released, then the nodes are refreshed.
Ask(o) ==
    /\ run[o].pc = "idle" /\ closed = "open"
    /\ LET S == {l \in Leases : screenLeases[l].lapsed} IN
         /\ resumes' = Without(resumes, S)
         /\ screenLeases' = Without(screenLeases, S)
         /\ ownerLeaseIds' = Without(ownerLeaseIds, {screenLeases[l].owner : l \in S})
         /\ controlLeases' = Without(controlLeases, S)
         /\ run' = [[p \in Owners |-> Interrupted(run[p], S)] EXCEPT ![o].pc = "asking"]
    /\ UNCHANGED <<closed, lastLease, node, maintenance, waiters, drain, handBacks,
                   candidates, touches, faults>>

Acquire(o) ==
    /\ run[o].pc = "asking"
    /\ \/ /\ Grant(o)
          /\ LET l == ownerLeaseIds'[o] IN
               run' = [run EXCEPT ![o] = Bound(@, l, controlLeases'[l].generation)]
       \/ NoGrant(o) /\ run' = To(o, "announcing")
       \/ closed # "open" /\ run' = To(o, "ended") /\ UNCHANGED service
    /\ UNCHANGED <<node, maintenance, waiters, drain, handBacks, candidates, touches, faults>>

\* waitForScreen after its callback: the request is parked, without a look at
\* whether the service was closed meanwhile.
Park(o) ==
    /\ run[o].pc = "announcing"
    /\ IF run[o].cancelled
       THEN run' = To(o, "ended") /\ UNCHANGED waiters
       ELSE run' = To(o, "parked") /\ waiters' = Append(waiters, o)
    /\ UNCHANGED <<service, node, maintenance, drain, handBacks, candidates, touches, faults>>

\* drainWaiters, on the timer or when something may have become free: the
\* nodes are refreshed and the waiters of that moment are tried in turn.
DrainBegins ==
    /\ closed = "open" /\ drain.stage = "none" /\ waiters # <<>>
    /\ drain' = [Resting EXCEPT !.stage = "next", !.rest = waiters]
    /\ UNCHANGED <<service, node, maintenance, waiters, handBacks, candidates,
                   run, touches, faults>>

Parked(o) == \E i \in DOMAIN waiters : waiters[i] = o

\* Mutant: the end of a pass is not recorded, so no other pass begins.
DrainStuck ==
    /\ drain.stage = "next"
    /\ drain.rest # <<>>
    /\ drain' = IF Parked(Head(drain.rest)) THEN [drain EXCEPT !.stage = "try"]
                ELSE [drain EXCEPT !.rest = Tail(@)]
    /\ UNCHANGED <<service, node, maintenance, waiters, handBacks, candidates,
                   run, touches, faults>>
\* The next waiter, unless it was aborted.
DrainNext ==
    /\ drain.stage = "next"
    /\ drain' = IF drain.rest = <<>> THEN Resting
                ELSE IF Parked(Head(drain.rest)) THEN [drain EXCEPT !.stage = "try"]
                ELSE [drain EXCEPT !.rest = Tail(@)]
    /\ UNCHANGED <<service, node, maintenance, waiters, handBacks, candidates,
                   run, touches, faults>>

\* The serialized tryAcquire: an abort since the look at the signal comes too
\* late for it.
DrainTry ==
    /\ drain.stage = "try"
    /\ \/ /\ Grant(Head(drain.rest))
          /\ drain' = [drain EXCEPT !.stage = "granted",
                                    !.lease = ownerLeaseIds'[Head(drain.rest)]]
       \/ /\ NoGrant(Head(drain.rest))
          /\ drain' = [drain EXCEPT !.stage = "next", !.rest = Tail(@)]
       \/ closed # "open" /\ drain' = Resting /\ UNCHANGED service
    /\ UNCHANGED <<node, maintenance, waiters, handBacks, candidates, run, touches, faults>>

\* The waiter's promise is resolved, if it is still pending.
DrainGranted ==
    /\ drain.stage = "granted"
    /\ LET o == Head(drain.rest) IN
         /\ waiters' = Drop(waiters, o)
         /\ run' = IF Parked(o) THEN [run EXCEPT ![o] = Bound(@, drain.lease, 1)] ELSE run
    /\ drain' = [drain EXCEPT !.stage = "next", !.rest = Tail(@), !.lease = 0]
    /\ UNCHANGED <<service, node, maintenance, handBacks, candidates, touches, faults>>

-----------------------------------------------------------------------------
(* The lifetime of a lease *)

\* Its time is over.  The keeper renews at a third of the lifetime, so this
\* happens to a kept lease only when the process or its host stalls.
Lapse(l) ==
    /\ ~screenLeases[l].lapsed /\ drain.stage # "granted"
    /\ IF Kept(l) THEN Fault("renew") ELSE UNCHANGED faults
    /\ screenLeases' = [screenLeases EXCEPT ![l].lapsed = TRUE]
    /\ UNCHANGED <<closed, ownerLeaseIds, controlLeases, resumes, lastLease, node,
                   maintenance, waiters, drain, handBacks, candidates, run, touches>>

\* renewScreenLease by the keeper: a lapsed lease that is still there is renewed.
Renew(o) ==
    /\ run[o].pc \in Working /\ run[o].lease \in Leases /\ screenLeases[run[o].lease].lapsed
    /\ screenLeases' = [screenLeases EXCEPT ![run[o].lease].lapsed = FALSE]
    /\ UNCHANGED <<closed, ownerLeaseIds, controlLeases, resumes, lastLease, node, maintenance,
                   waiters, drain, handBacks, candidates, run, touches, faults>>

\* The keeper finds the lease expired or gone and aborts the run.
KeeperFails(o) ==
    /\ run[o].pc \in Working /\ ~run[o].cancelled
    /\ run[o].lease \in Leases => screenLeases[run[o].lease].lapsed
    /\ run' = [run EXCEPT ![o].cancelled = TRUE, ![o].live = FALSE,
                          ![o].pc = IF @ \in {"bound", "paused"} THEN "ending" ELSE @]
    /\ UNCHANGED <<service, node, maintenance, waiters, drain, handBacks, candidates,
                   touches, faults>>

\* expireLeases, on the timer.
Expire ==
    /\ closed = "open" /\ \E l \in Leases : screenLeases[l].lapsed
    /\ ReleaseAll({l \in Leases : screenLeases[l].lapsed})
    /\ UNCHANGED <<closed, lastLease, node, maintenance, waiters, drain, handBacks,
                   candidates, touches, faults>>

\* The job is cancelled: its signal aborts what the run waits for.
Cancel(o) ==
    /\ run[o].pc \in Working \cup {"announcing", "parked"} /\ ~run[o].cancelled
    /\ Fault("cancel")
    /\ waiters' = Drop(waiters, o)
    /\ run' = [run EXCEPT ![o].cancelled = TRUE, ![o].live = FALSE,
                          ![o].pc = CASE @ = "parked" -> "ended"
                                      [] @ \in {"bound", "paused"} -> "ending"
                                      [] OTHER -> @]
    /\ UNCHANGED <<service, node, maintenance, drain, handBacks, candidates, touches>>

\* The cleanup of a run: the keeper stops, and the screen is released unless a
\* human controls it.
End(o) ==
    /\ \/ run[o].pc = "ending" \/ run[o].pc = "bound"
    /\ LET l == run[o].lease IN
         IF l \in Leases /\ controlLeases[l].holder # "human"
         THEN /\ resumes' = Without(resumes, {l})
              /\ screenLeases' = Without(screenLeases, {l})
              /\ ownerLeaseIds' = Without(ownerLeaseIds, {o})
              /\ controlLeases' = Without(controlLeases, {l})
         ELSE UNCHANGED <<resumes, screenLeases, ownerLeaseIds, controlLeases>>
    /\ run' = To(o, "ended")
    /\ UNCHANGED <<closed, lastLease, node, maintenance, waiters, drain, handBacks,
                   candidates, touches, faults>>

-----------------------------------------------------------------------------
(* Control *)

\* A takeover: pending actions are aborted, the generation moves on, and the
\* observation of an earlier hand-back is forgotten.
TakeOver(h, l, manual) ==
    /\ Touch
    /\ controlLeases[l].holder = "human" => controlLeases[l].by = h
    /\ run' = [o \in Owners |-> [run[o] EXCEPT !.live = @ /\ run[o].lease # l]]
    /\ resumes' = Without(resumes, {l})
    /\ controlLeases' = [controlLeases EXCEPT
           ![l] = [holder |-> "human", by |-> h, generation |-> @.generation + 1,
                   idle |-> FALSE, manual |-> manual]]
    /\ handBacks' = [w \in Origins |->
           IF handBacks[w].lease = l THEN [handBacks[w] EXCEPT !.fresh = FALSE] ELSE handBacks[w]]
    /\ UNCHANGED <<closed, screenLeases, ownerLeaseIds, lastLease, node, maintenance, waiters,
                   drain, candidates, faults>>

\* The human uses the screen and the client reports it (recordHumanActivity):
\* whatever a hand-back observed before is out of date.
HumanActs(h, l) ==
    /\ Touch
    /\ controlLeases[l].holder = "human" /\ controlLeases[l].by = h
    /\ controlLeases' = [controlLeases EXCEPT ![l].generation = @ + 1, ![l].idle = FALSE]
    /\ handBacks' = [w \in Origins |->
           IF handBacks[w].lease = l THEN [handBacks[w] EXCEPT !.fresh = FALSE] ELSE handBacks[w]]
    /\ UNCHANGED <<closed, screenLeases, ownerLeaseIds, lastLease, resumes, node, maintenance,
                   waiters, drain, candidates, run, faults>>

\* The grace period of a human who does nothing is over, also of one whose
\* hand-back takes long.
GoesIdle(l) ==
    /\ controlLeases[l].holder = "human" /\ ~controlLeases[l].idle
    /\ controlLeases' = [controlLeases EXCEPT ![l].idle = TRUE]
    /\ UNCHANGED <<closed, screenLeases, ownerLeaseIds, lastLease, resumes, node, maintenance,
                   waiters, drain, handBacks, candidates, run, touches, faults>>

\* handBack, first body: the generation moves on and the observation is asked
\* for.  A request that does not match the control lease is refused.
Prepare(w, h, l) ==
    /\ handBacks[w] = Idle
    /\ IF l \in Leases /\ controlLeases[l].holder = "human" /\ controlLeases[l].by = h
       THEN /\ controlLeases' = [controlLeases EXCEPT ![l].generation = @ + 1, ![l].idle = FALSE]
            /\ run' = [o \in Owners |-> [run[o] EXCEPT !.live = @ /\ run[o].lease # l]]
            /\ handBacks' = [handBacks EXCEPT
                   ![w] = [stage |-> "observing", lease |-> l, by |-> h, fresh |-> TRUE,
                           generation |-> controlLeases'[l].generation]]
       ELSE UNCHANGED <<controlLeases, run, handBacks>>
    /\ UNCHANGED <<closed, screenLeases, ownerLeaseIds, lastLease, resumes, node, maintenance,
                   waiters, drain, faults>>

\* The human hands the screen back.
ClientHandsBack(h, l) ==
    /\ Touch /\ controlLeases[l].by = h /\ Prepare("client", h, l) /\ UNCHANGED candidates

\* sweepIdleTakeovers: the idle takeovers are listed, then handed back one
\* after the other, each awaited, without another look at their activity.
Sweep ==
    /\ closed = "open" /\ candidates = {} /\ handBacks["sweep"] = Idle
    /\ candidates' = {[lease |-> l, by |-> controlLeases[l].by] :
                         l \in {k \in Leases : /\ controlLeases[k].holder = "human"
                                               /\ controlLeases[k].idle
                                               /\ ~controlLeases[k].manual}}
    /\ candidates' # {}
    /\ UNCHANGED <<service, node, maintenance, waiters, drain, handBacks, run, touches, faults>>

SweepNext == \E c \in candidates :
    /\ Prepare("sweep", c.by, c.lease)
    /\ candidates' = candidates \ {c} /\ UNCHANGED touches

\* The provider observes the screen for a hand-back: what the human does from
\* here on is not in the observation.  If it fails, the human keeps control.
Observe(w) ==
    /\ handBacks[w].stage = "observing"
    /\ \/ handBacks' = [handBacks EXCEPT ![w].stage = "observed", ![w].fresh = TRUE]
          /\ UNCHANGED faults
       \/ Fault("observe") /\ handBacks' = [handBacks EXCEPT ![w] = Idle]
    /\ UNCHANGED <<service, node, maintenance, waiters, drain, candidates, run, touches>>

\* Mutant: the second body checks the holder only.
SameHolder(b) ==
    /\ b.lease \in Leases
    /\ controlLeases[b.lease].holder = "human" /\ controlLeases[b.lease].by = b.by
\* The second body's checks: the same human, and nothing since the first body.
Undisturbed(b) ==
    /\ b.lease \in Leases
    /\ controlLeases[b.lease].holder = "human" /\ controlLeases[b.lease].by = b.by
    /\ controlLeases[b.lease].generation = b.generation

\* resolveAgentControlWaiters: the agents paused at an earlier generation get
\* the observation with the new one.
Woken(r, l, g) ==
    IF r.pc = "paused" /\ r.lease = l /\ g > r.generation
    THEN [r EXCEPT !.pc = "bound", !.seen = g] ELSE r

\* handBack, second body: control returns to the agent with the observation.
HandBack(w) ==
    /\ handBacks[w].stage = "observed"
    /\ LET b == handBacks[w]  l == b.lease IN
       IF Undisturbed(b)
       THEN LET g == controlLeases[l].generation IN
            /\ controlLeases' = [controlLeases EXCEPT
                   ![l] = [holder |-> "agent", by |-> screenLeases[l].owner, generation |-> g,
                           idle |-> FALSE, manual |-> TRUE]]
            /\ resumes' = With(resumes, l, [generation |-> g, fresh |-> b.fresh])
            /\ run' = [o \in Owners |-> Woken(run[o], l, g)]
       ELSE UNCHANGED <<controlLeases, resumes, run>>
    /\ handBacks' = [handBacks EXCEPT ![w] = Idle]
    /\ UNCHANGED <<closed, screenLeases, ownerLeaseIds, lastLease, node, maintenance, waiters,
                   drain, candidates, touches, faults>>

-----------------------------------------------------------------------------
(* The tool calls of an agent run *)

\* currentComputerBinding: while the agent holds control, a call takes the
\* control generation of the moment, whatever the agent last saw.
Call(o) ==
    /\ run[o].pc = "bound" /\ run[o].calls < MaxCalls
    /\ LET l == run[o].lease IN
       run' = IF l \notin Leases THEN [run EXCEPT ![o].calls = @ + 1]
              ELSE [run EXCEPT ![o].calls = @ + 1, ![o].pc = "calling",
                               ![o].generation = IF AgentHolds(l, o)
                                                 THEN controlLeases[l].generation ELSE @]
    /\ UNCHANGED <<service, node, maintenance, waiters, drain, handBacks, candidates,
                   touches, faults>>

\* The call is admitted when the node is ready, and begins under the control
\* generation of its binding (beginScreenAction).
Begin(o) ==
    /\ run[o].pc = "calling"
    /\ node = "online" \/ run[o].cancelled \/ run[o].lease \notin Leases
    /\ run' = IF MayAct(run[o].lease, o, run[o].generation) /\ ~run[o].cancelled
              THEN [run EXCEPT ![o].pc = "acting", ![o].live = TRUE]
              ELSE To(o, "catching")
    /\ UNCHANGED <<service, node, maintenance, waiters, drain, handBacks, candidates,
                   touches, faults>>

\* The provider's answer, checked once more before the agent sees it.
Finish(o) ==
    /\ run[o].pc = "acting"
    /\ run' = IF run[o].live /\ MayAct(run[o].lease, o, run[o].generation)
              THEN [run EXCEPT ![o].pc = "bound", ![o].live = FALSE, ![o].seen = run[o].generation]
              ELSE [run EXCEPT ![o].pc = "catching", ![o].live = FALSE]
    /\ UNCHANGED <<service, node, maintenance, waiters, drain, handBacks, candidates,
                   touches, faults>>

\* resumeAgentComputerAfterTakeover: a call that failed under an older
\* generation waits for the agent's control instead of failing.
Catch(o) ==
    /\ run[o].pc = "catching"
    /\ LET l == run[o].lease IN
       run' = To(o, IF run[o].cancelled THEN "ending"
                    ELSE IF l \in Leases /\ controlLeases[l].generation > run[o].generation
                    THEN "pausing" ELSE "bound")
    /\ UNCHANGED <<service, node, maintenance, waiters, drain, handBacks, candidates,
                   touches, faults>>

\* agentControlResumeSnapshot: the observation of the hand-back, nothing while
\* a human holds control, or an error.
Resume(o, waiting) ==
    LET l == run[o].lease IN
    run' = IF run[o].cancelled THEN To(o, "ending")
           ELSE IF l \notin Leases THEN To(o, "bound")
           ELSE IF controlLeases[l].holder = "human" THEN To(o, waiting)
           ELSE IF controlLeases[l].generation > run[o].generation /\ l \in DOMAIN resumes
                THEN [run EXCEPT ![o].pc = "bound", ![o].seen = controlLeases[l].generation]
           ELSE To(o, "bound")

\* waitForAgentControl takes the snapshot, and again in the body that parks
\* the waiter: a hand-back between the two must not be missed.
Pause(o) ==
    /\ run[o].pc = "pausing" /\ Resume(o, "rechecking")
    /\ UNCHANGED <<service, node, maintenance, waiters, drain, handBacks, candidates,
                   touches, faults>>

\* Mutant: the waiter is parked without the second snapshot.
ParkBlindly(o) ==
    /\ run[o].pc = "rechecking" /\ run' = To(o, "paused")
    /\ UNCHANGED <<service, node, maintenance, waiters, drain, handBacks, candidates,
                   touches, faults>>
Recheck(o) ==
    /\ run[o].pc = "rechecking" /\ Resume(o, "paused")
    /\ UNCHANGED <<service, node, maintenance, waiters, drain, handBacks, candidates,
                   touches, faults>>

-----------------------------------------------------------------------------
(* The node, and the end of the service *)

\* A refresh finds the node in another state.
Refresh(availability) ==
    /\ node \in {"online", "degraded"} \ {availability}
    /\ IF availability = "degraded" THEN Fault("degrade") ELSE UNCHANGED faults
    /\ node' = availability
    /\ UNCHANGED <<service, maintenance, waiters, drain, handBacks, candidates, run, touches>>

\* unregisterNode, by force when leases are active; registerNode.
Unregister(force) ==
    /\ closed = "open" /\ node # "absent" /\ Fault("unregister")
    /\ force \/ Leases = {}
    /\ ReleaseAll(Leases) /\ node' = "absent"
    /\ UNCHANGED <<closed, lastLease, maintenance, waiters, drain, handBacks, candidates, touches>>

Register ==
    /\ closed = "open" /\ node = "absent" /\ node' = "online"
    /\ UNCHANGED <<service, maintenance, waiters, drain, handBacks, candidates, run,
                   touches, faults>>

\* restartNode, updateNode, resetManagedState: refused while screens are
\* leased; the provider's work is awaited outside the queue of bodies.
Maintain ==
    /\ node # "absent" /\ ~maintenance /\ Leases = {} /\ Fault("maintain")
    /\ maintenance' = TRUE
    /\ UNCHANGED <<service, node, waiters, drain, handBacks, candidates, run, touches>>

Maintained ==
    /\ maintenance /\ maintenance' = FALSE
    /\ UNCHANGED <<service, node, waiters, drain, handBacks, candidates, run, touches, faults>>

\* close: actions are aborted and everyone parked is rejected; the maps are
\* cleared once the adapters have closed.
Close ==
    /\ closed = "open" /\ Fault("close") /\ closed' = "closing"
    /\ waiters' = <<>> /\ resumes' = <<>>
    /\ run' = [o \in Owners |-> [run[o] EXCEPT !.live = FALSE,
                  !.pc = CASE @ = "parked" -> "ended" [] @ = "paused" -> "bound" [] OTHER -> @]]
    /\ UNCHANGED <<screenLeases, ownerLeaseIds, controlLeases, lastLease, node, maintenance,
                   drain, handBacks, candidates, touches>>

Closed ==
    /\ closed = "closing" /\ closed' = "closed" /\ node' = "absent"
    /\ screenLeases' = <<>> /\ ownerLeaseIds' = <<>> /\ controlLeases' = <<>>
    /\ UNCHANGED <<lastLease, resumes, maintenance, waiters, drain, handBacks, candidates,
                   run, touches, faults>>

-----------------------------------------------------------------------------
Timer == DrainBegins \/ DrainNext \/ DrainTry \/ DrainGranted \/ Expire \/ Sweep \/ SweepNext

Agent(o) ==
    \/ Ask(o) \/ Acquire(o) \/ Park(o) \/ Renew(o) \/ KeeperFails(o) \/ End(o)
    \/ Call(o) \/ Begin(o) \/ Finish(o) \/ Catch(o) \/ Pause(o) \/ Recheck(o)

Human(h) == \E l \in Leases :
    \/ \E manual \in BOOLEAN : TakeOver(h, l, manual)
    \/ HumanActs(h, l) \/ ClientHandsBack(h, l)

Next ==
    \/ Timer
    \/ \E o \in Owners : Agent(o) \/ Cancel(o)
    \/ \E h \in Humans : Human(h)
    \/ \E l \in Leases : Lapse(l) \/ GoesIdle(l)
    \/ \E w \in Origins : Observe(w) \/ HandBack(w)
    \/ \E availability \in {"online", "degraded"} : Refresh(availability)
    \/ \E force \in BOOLEAN : Unregister(force)
    \/ Register \/ Maintain \/ Maintained \/ Close \/ Closed

Spec == Init /\ [][Next]_vars

-----------------------------------------------------------------------------
Generations == Nat \ {0}
Ids == 1 .. lastLease

TypeOK ==
    /\ closed \in {"open", "closing", "closed"}
    /\ node \in {"online", "degraded", "absent"} /\ maintenance \in BOOLEAN
    /\ DOMAIN screenLeases \subseteq Ids /\ DOMAIN ownerLeaseIds \subseteq Owners
    /\ \A l \in DOMAIN screenLeases :
          screenLeases[l] \in [screen : Screens, owner : Owners, lapsed : BOOLEAN]
    /\ DOMAIN controlLeases = DOMAIN screenLeases
    /\ \A l \in DOMAIN controlLeases : controlLeases[l] \in
          [holder : {"agent", "human"}, by : Owners \cup Humans, generation : Generations,
           idle : BOOLEAN, manual : BOOLEAN]
    /\ waiters \in Seq(Owners)
    /\ \A w \in Origins : handBacks[w].stage \in {"none", "observing", "observed"}
    /\ \A o \in Owners : run[o].pc \in Working \cup
          {"idle", "asking", "announcing", "parked", "ending", "ended"}

\* "Agent screens are exclusive expiring leases": no two leases name the same
\* screen or the same owner, and the index of owners finds each of them.
Exclusive ==
    /\ \A k, l \in Leases : k # l => screenLeases[k].screen # screenLeases[l].screen
    /\ \A l \in Leases : LET o == screenLeases[l].owner IN
          o \in DOMAIN ownerLeaseIds /\ ownerLeaseIds[o] = l

\* An action the provider has not been told to abort belongs to the agent that
\* holds the lease and controls the screen, at the generation of the action.
\* (Once `close' has begun, an action may still begin and is never aborted.)
LiveActionsInControl ==
    closed = "open" => \A o \in Owners : run[o].live =>
        /\ AgentHolds(run[o].lease, o)
        /\ controlLeases[run[o].lease].generation = run[o].generation

\* An agent that has control again after a takeover has it together with an
\* observation of that generation, taken after the last thing the human did.
ReturnedWithView ==
    closed = "open" => \A l \in Leases :
        controlLeases[l].holder = "agent" /\ controlLeases[l].generation > 1 =>
            /\ l \in DOMAIN resumes
            /\ resumes[l] = [generation |-> controlLeases[l].generation, fresh |-> TRUE]

\* Screens are leased once, whoever acts has control, and knows the screen it
\* got back.
ActsInControl == Exclusive /\ LiveActionsInControl /\ ReturnedWithView

\* A paused agent waits for a human who still has the screen: a hand-back, a
\* release or an expiry never leaves it asleep.
PausedForHuman ==
    closed = "open" => \A o \in Owners : run[o].pc = "paused" =>
        run[o].lease \in Leases /\ controlLeases[run[o].lease].holder = "human"

\* What the agent is told to do with a screen it was interrupted on: "forces
\* fresh observation and replanning before work resumes".
Replanned == \A o \in Owners : run[o].live => run[o].seen = run[o].generation

\* "The core refuses these operations while screen leases are active."
MaintainedAlone == maintenance => Leases = {}

-----------------------------------------------------------------------------
\* The timer ticks, the agents and the provider answer, time passes for
\* lapsing leases and idle humans, and a node that left comes back.
Fairness ==
    /\ WF_vars(DrainBegins \/ DrainNext \/ DrainTry \/ DrainGranted)
    /\ WF_vars(Sweep \/ SweepNext) /\ WF_vars(Expire)
    /\ \A o \in Owners : WF_vars(Agent(o))
    /\ \A l \in 1 .. Cardinality(Owners) : WF_vars(l \in Leases /\ (Lapse(l) \/ GoesIdle(l)))
    /\ \A w \in Origins : WF_vars(Observe(w) \/ HandBack(w))
    /\ WF_vars(Register \/ Refresh("online") \/ Closed)

FairSpec == Spec /\ Fairness

\* While the service is open, whoever waits for a screen gets one or gives up,
\* and a paused agent goes on, unless a human keeps a screen until handing it
\* back by hand.
KeptByHand == \E l \in Leases : controlLeases[l].holder = "human" /\ controlLeases[l].manual

WaitersServed == \A o \in Owners :
    run[o].pc = "parked" ~> (run[o].pc # "parked" \/ KeptByHand \/ closed # "open")

PausedResume == \A o \in Owners :
    run[o].pc = "paused" ~> (run[o].pc # "paused" \/ KeptByHand)

WaitingEnds == WaitersServed /\ PausedResume
=============================================================================
