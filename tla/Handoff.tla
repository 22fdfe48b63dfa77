------------------------------- MODULE Handoff -------------------------------
(***************************************************************************)
(* Process replacement: a running process (the predecessor) launches a new *)
(* one (the successor), stops the listeners and workers that must have a   *)
(* single active owner (the participants), releases them, and waits until  *)
(* the successor has activated them and accepted the takeover.             *)
(*                                                                         *)
(* The two sides meet only in the restart record, a file rewritten under a *)
(* lock.  Two flows drive the predecessor: a change of runtime settings    *)
(* ("settings") and a self-improvement mission ("mission").  They differ   *)
(* in what they do after a failure.                                        *)
(*                                                                         *)
(* Handoff r launches process r; process 0 is running at first.  A call    *)
(* into one participant is one step.  Every wait polls a record and has a  *)
(* deadline; a deadline may pass at any time, also between the read of the *)
(* record and the update that marks it failed.                             *)
(***************************************************************************)
EXTENDS Integers, FiniteSetsExt

CONSTANTS
    LastHandoff,      \* bound: number of handoffs
    ParticipantCount, \* number of participants
    Flows,            \* flows that are used, of "settings" and "mission"
    Serial,           \* whether a process drives one handoff at a time
    FaultKinds,       \* faults injected, of "spawn", "activate", "quiesce", "crash"
    MaxFaults         \* bound: number of faults

ASSUME HandoffAssumption ==
    /\ LastHandoff \in Nat
    /\ ParticipantCount \in Nat
    /\ Flows \subseteq {"settings", "mission"}
    /\ Serial \in BOOLEAN
    /\ FaultKinds \subseteq {"spawn", "activate", "quiesce", "crash"}
    /\ MaxFaults \in Nat

VARIABLES
    handoff,  \* per handoff: the restart record and the predecessor's progress
    proc,     \* per process: its life, its coordinator and, if launched, its startup
    disk,     \* the persisted runtime settings, named by the handoff that wrote them
    faults    \* faults injected so far

vars == <<handoff, proc, disk, faults>>

Handoffs  == 1 .. LastHandoff
Processes == 0 .. LastHandoff

\* Participants are numbered in the order of their ids.
Participants == 1 .. ParticipantCount

NoCall == [op |-> "none", todo |-> {}, newly |-> {}, bad |-> FALSE]
\* Mutant: the walk is off by one.
CallOffByOne(op) == [NoCall EXCEPT !.op = op, !.todo = {x + 1 : x \in Participants}]
Call(op) == [NoCall EXCEPT !.op = op, !.todo = Participants]

\* A handoff not requested yet.
Unused == [phase |-> "none", pred |-> 0, flow |-> "none", ctl |-> "none",
           holds |-> FALSE, previous |-> 0, call |-> NoCall]

\* A process not launched yet.
Unborn == [life |-> "unborn", pc |-> "boot", config |-> 0, active |-> {},
           quiesced |-> {}, activated |-> {}, call |-> NoCall]

Running(p) == proc[p].life \in {"up", "terminating"}

\* The predecessor of r is done with it, one way or the other.
Settled(r) == handoff[r].ctl \in {"none", "settled"} \/ ~Running(handoff[r].pred)

Fault(kind) == kind \in FaultKinds /\ faults < MaxFaults /\ faults' = faults + 1

-----------------------------------------------------------------------------
(* The coordinator: quiesce, resume and activate, one participant at a     *)
(* time.  "c" is a call in progress, "P" the process that executes it.     *)

Stops(c) == c.op \in {"quiesce", "undo"}

\* Participants the call still has to visit.
Eligible(c, P) ==
    CASE c.op = "quiesce"  -> c.todo \ P.quiesced
      [] c.op = "activate" -> c.todo \ P.activated
      [] c.op = "resume"   -> c.todo \cap P.quiesced
      [] OTHER             -> c.todo

\* Resources stop in the reverse of the order in which they start.
Visited(c, P) == IF Stops(c) THEN Max(Eligible(c, P)) ELSE Min(Eligible(c, P))

Later(c, x) == {y \in c.todo : IF Stops(c) THEN y < x ELSE y > x}

\* Mutant: a participant stopped by quiesce is not remembered.
UnrememberedStop(c, P, x) ==
    [P EXCEPT !.active    = IF Stops(c) THEN @ \ {x} ELSE @ \cup {x},
              !.activated = CASE c.op = "activate" -> @ \cup {x}
                              [] c.op = "undo"     -> @ \ {x}
                              [] OTHER             -> @]

\* The process after its participant x did what the call asked for.
Obeyed(c, P, x) ==
    [P EXCEPT !.active    = IF Stops(c) THEN @ \ {x} ELSE @ \cup {x},
              !.quiesced  = CASE c.op = "quiesce"               -> @ \cup {x}
                              [] c.op \in {"restore", "resume"} -> @ \ {x}
                              [] OTHER                          -> @,
              !.activated = CASE c.op = "activate" -> @ \cup {x}
                              [] c.op = "undo"     -> @ \ {x}
                              [] OTHER             -> @]

\* The process after x refused.  A participant that fails to stop is started
\* again at once, which may fail as well.
Refused(c, P, x) ==
    IF c.op = "quiesce"
    THEN {[P EXCEPT !.active = @ \cup {x}]} \cup
             (IF "activate" \in FaultKinds THEN {[P EXCEPT !.active = @ \ {x}]} ELSE {})
    ELSE {P}

\* What one step of the call can lead to.  A quiesce that met a refusal starts
\* what it had stopped; an activation that meets one stops what it had started.
Outcomes(c, P) ==
    LET x == Visited(c, P) IN
    IF Eligible(c, P) # {}
    THEN {[call |-> [c EXCEPT !.todo = Later(c, x),
                              !.newly = IF c.op \in {"quiesce", "activate"}
                                        THEN @ \cup {x} ELSE @],
           proc |-> Obeyed(c, P, x), fault |-> "none"]}
         \cup
         {[call |-> IF c.op = "activate"
                    THEN [c EXCEPT !.op = "undo", !.todo = c.newly]
                    ELSE [c EXCEPT !.todo = Later(c, x), !.bad = TRUE],
           proc |-> Q, fault |-> IF Stops(c) THEN "quiesce" ELSE "activate"] :
             Q \in Refused(c, P, x)}
    ELSE IF c.op = "quiesce" /\ c.bad
         THEN {[call |-> [c EXCEPT !.op = "restore", !.todo = c.newly],
                proc |-> P, fault |-> "none"]}
         ELSE {}

\* Mutant: the errors met by a call are swallowed.
ReturnedDespiteErrors(c, P) == c.op # "none" /\ Eligible(c, P) = {}

Returned(c, P) == /\ c.op \in {"quiesce", "activate", "resume"}
                  /\ ~c.bad
                  /\ Eligible(c, P) = {}

Threw(c, P) == /\ c.op \in {"restore", "undo"} \/ (c.op = "resume" /\ c.bad)
               /\ Eligible(c, P) = {}

Pay(kind) == IF kind = "none" THEN UNCHANGED faults ELSE Fault(kind)

-----------------------------------------------------------------------------
Init ==
    /\ handoff = [r \in Handoffs |-> Unused]
    /\ proc = [p \in Processes |->
                  IF p = 0 THEN [Unborn EXCEPT !.life = "up", !.pc = "owner",
                                               !.active = Participants]
                  ELSE Unborn]
    /\ disk = 0
    /\ faults = 0

-----------------------------------------------------------------------------
(* The predecessor.                                                        *)

\* A change of settings saves the candidate first.  Nothing keeps a process
\* from driving a settings change and a mission together; each flow by itself
\* is serial.  Timing: a new owner has no handoff of its own ready before its
\* predecessor polled the record (25 ms) and left, or gave the takeover up.
Begin(r, p, f) ==
    /\ handoff[r].phase = "none"
    /\ \A q \in 1 .. (r - 1) : handoff[q].phase # "none"
    /\ proc[p].life = "up" /\ proc[p].pc = "owner"
    /\ p \in Handoffs => Settled(p)
    /\ \A q \in Handoffs : handoff[q].pred = p /\ ~Settled(q) =>
           ~Serial /\ handoff[q].flow # f
    /\ handoff' = [handoff EXCEPT ![r] =
           [Unused EXCEPT !.phase = "launching", !.pred = p, !.flow = f,
                          !.ctl = "launching", !.previous = disk]]
    /\ disk' = IF f = "settings" THEN r ELSE disk
    /\ UNCHANGED <<proc, faults>>

\* The predecessor of r is at s in this handoff.
At(r, s) == handoff[r].ctl = s /\ Running(handoff[r].pred)

Spawn(r) ==
    /\ At(r, "launching")
    /\ proc[r].life = "unborn"
    /\ proc' = [proc EXCEPT ![r] = [Unborn EXCEPT !.life = "up", !.config = disk]]
    /\ UNCHANGED <<handoff, disk, faults>>

\* Where a predecessor goes that never got hold of its successor.
Unlaunched(h) ==
    [h EXCEPT !.ctl = IF h.flow = "settings" THEN "restoring" ELSE "settled"]

\* Where a predecessor goes whose handoff failed: a settings change first
\* resumes what it stopped, a mission first retires the successor.
AfterFailure(h) ==
    IF h.flow = "settings" /\ h.holds
    THEN [h EXCEPT !.ctl = "resuming", !.call = Call("resume")]
    ELSE [h EXCEPT !.ctl = "retiring", !.call = NoCall]

SpawnFails(r) ==
    /\ At(r, "launching")
    /\ proc[r].life = "unborn"
    /\ Fault("spawn")
    /\ handoff' = [handoff EXCEPT ![r] = Unlaunched([@ EXCEPT !.phase = "failed"])]
    /\ UNCHANGED <<proc, disk>>

LaunchReady(r) ==
    /\ At(r, "launching")
    /\ handoff[r].phase = "ready"
    /\ handoff' = [handoff EXCEPT ![r].ctl = "replying"]
    /\ UNCHANGED <<proc, disk, faults>>

\* The record failed, the successor exited or the deadline passed.  A record
\* that became ready meanwhile stays so.
LaunchFails(r) ==
    LET phase == handoff[r].phase IN
    /\ At(r, "launching")
    /\ proc[r].life # "unborn"
    /\ handoff' = [handoff EXCEPT ![r] = Unlaunched(
           [@ EXCEPT !.phase = IF phase = "launching" THEN "failed" ELSE phase])]
    /\ UNCHANGED <<proc, disk, faults>>

\* After the reply: the restart is still wanted, or not.
Proceed(r) ==
    /\ At(r, "replying")
    /\ handoff' = [handoff EXCEPT ![r].ctl = "quiescing", ![r].call = Call("quiesce")]
    /\ UNCHANGED <<proc, disk, faults>>

Withdraw(r) ==
    /\ At(r, "replying")
    /\ handoff' = [handoff EXCEPT ![r] = AfterFailure(@)]
    /\ UNCHANGED <<proc, disk, faults>>

\* One step of the coordinator call the predecessor is in.
PredecessorCall(r) ==
    LET p == handoff[r].pred IN
    /\ At(r, "quiescing") \/ At(r, "resuming")
    /\ \E o \in Outcomes(handoff[r].call, proc[p]) :
          /\ Pay(o.fault)
          /\ handoff' = [handoff EXCEPT ![r].call = o.call]
          /\ proc' = [proc EXCEPT ![p] = o.proc]
    /\ UNCHANGED disk

QuiesceFails(r) ==
    /\ At(r, "quiescing")
    /\ Threw(handoff[r].call, proc[handoff[r].pred])
    /\ handoff' = [handoff EXCEPT ![r] = AfterFailure(@)]
    /\ UNCHANGED <<proc, disk, faults>>

\* releaseForTakeover: refused if the record failed meanwhile.
Release(r) ==
    /\ At(r, "quiescing")
    /\ Returned(handoff[r].call, proc[handoff[r].pred])
    /\ handoff' = [handoff EXCEPT ![r] =
           IF @.phase = "failed"
           THEN AfterFailure([@ EXCEPT !.holds = TRUE])
           ELSE [@ EXCEPT !.phase = "quiesced", !.ctl = "waiting",
                          !.holds = TRUE, !.call = NoCall]]
    /\ UNCHANGED <<proc, disk, faults>>

\* The takeover was accepted: the predecessor sends itself SIGTERM.
Stop(r) ==
    /\ At(r, "waiting")
    /\ handoff[r].phase = "accepted"
    /\ handoff' = [handoff EXCEPT ![r].ctl = "settled"]
    /\ proc' = [proc EXCEPT ![handoff[r].pred].life = "terminating"]
    /\ UNCHANGED <<disk, faults>>

\* The record failed, the successor exited or the deadline passed.  A record
\* accepted meanwhile stays so, but the predecessor gives up all the same.
TakeoverFails(r) ==
    LET phase == handoff[r].phase IN
    /\ At(r, "waiting")
    /\ handoff' = [handoff EXCEPT ![r] = AfterFailure(
           [@ EXCEPT !.phase = IF phase = "accepted" THEN phase ELSE "failed"])]
    /\ UNCHANGED <<proc, disk, faults>>

\* retireReplacement: the record fails even if it was accepted, the successor
\* gets SIGTERM, later SIGKILL, and the predecessor waits until it is gone.
Retire(r) ==
    /\ At(r, "retiring")
    /\ handoff' = [handoff EXCEPT ![r].phase = "failed", ![r].ctl = "reaping"]
    /\ proc' = [proc EXCEPT ![r].life = IF @ = "up" THEN "terminating" ELSE @]
    /\ UNCHANGED <<disk, faults>>

\* Mutant: the predecessor does not wait for the end of the successor.
ReapedTooEarly(r) ==
    /\ At(r, "reaping")
    /\ handoff' = [handoff EXCEPT ![r] =
           IF @.flow = "settings" THEN [@ EXCEPT !.ctl = "restoring"]
           ELSE IF @.holds THEN [@ EXCEPT !.ctl = "resuming", !.call = Call("resume")]
           ELSE [@ EXCEPT !.ctl = "settled"]]
    /\ UNCHANGED <<proc, disk, faults>>

Reaped(r) ==
    /\ At(r, "reaping")
    /\ ~Running(r)
    /\ handoff' = [handoff EXCEPT ![r] =
           IF @.flow = "settings" THEN [@ EXCEPT !.ctl = "restoring"]
           ELSE IF @.holds THEN [@ EXCEPT !.ctl = "resuming", !.call = Call("resume")]
           ELSE [@ EXCEPT !.ctl = "settled"]]
    /\ UNCHANGED <<proc, disk, faults>>

\* resume is over; what it could not start stays remembered as quiesced.
Resumed(r) ==
    LET c == handoff[r].call
        P == proc[handoff[r].pred]
    IN  /\ At(r, "resuming")
        /\ Returned(c, P) \/ Threw(c, P)
        /\ handoff' = [handoff EXCEPT
               ![r].ctl = IF handoff[r].flow = "settings" THEN "retiring" ELSE "settled",
               ![r].holds = c.bad, ![r].call = NoCall]
        /\ UNCHANGED <<proc, disk, faults>>

Restore(r) ==
    /\ At(r, "restoring")
    /\ handoff' = [handoff EXCEPT ![r].ctl = "settled"]
    /\ disk' = handoff[r].previous
    /\ UNCHANGED <<proc, faults>>

-----------------------------------------------------------------------------
(* The successor.                                                          *)

\* Process r is at s in its startup.
Starts(r, s) == Running(r) /\ proc[r].pc = s

Ready(r) ==
    /\ Starts(r, "boot")
    /\ handoff[r].phase = "launching"
    /\ handoff' = [handoff EXCEPT ![r].phase = "ready"]
    /\ proc' = [proc EXCEPT ![r].pc = "waiting"]
    /\ UNCHANGED <<disk, faults>>

\* The error path of a successor: it quiesces everything.
Cleaning(P) == [P EXCEPT !.pc = "cleaning", !.call = Call("quiesce")]

\* The candidate is invalid, or the record has failed already.  A mission's
\* preflight is outside the error path.
BootFails(r) ==
    /\ Starts(r, "boot")
    /\ proc' = [proc EXCEPT ![r] = IF handoff[r].flow = "settings" THEN Cleaning(@)
                                   ELSE [@ EXCEPT !.pc = "exiting"]]
    /\ UNCHANGED <<handoff, disk, faults>>

TakeOver(r) ==
    /\ Starts(r, "waiting")
    /\ handoff[r].phase \in {"quiesced", "accepted"}
    /\ proc' = [proc EXCEPT ![r].pc = "activating", ![r].call = Call("activate")]
    /\ UNCHANGED <<handoff, disk, faults>>

\* Mutant: a successor that waited too long stays.
ReleaseFailsOnRecordOnly(r) ==
    /\ Starts(r, "waiting")
    /\ handoff[r].phase = "failed"
    /\ proc' = [proc EXCEPT ![r] = Cleaning(@)]
    /\ UNCHANGED <<handoff, disk, faults>>

\* The record failed, the predecessor exited or the deadline passed; or the
\* checks of the promoted generation failed.
ReleaseFails(r) ==
    /\ Starts(r, "waiting")
    /\ handoff' = [handoff EXCEPT ![r].phase = "failed"]
    /\ proc' = [proc EXCEPT ![r] = Cleaning(@)]
    /\ UNCHANGED <<disk, faults>>

\* One step of the coordinator call the successor is in.
SuccessorCall(r) ==
    /\ Starts(r, "activating") \/ Starts(r, "cleaning")
    /\ \E o \in Outcomes(proc[r].call, proc[r]) :
          /\ Pay(o.fault)
          /\ proc' = [proc EXCEPT ![r] = [o.proc EXCEPT !.call = o.call]]
    /\ UNCHANGED <<handoff, disk>>

ActivateFails(r) ==
    /\ Starts(r, "activating")
    /\ Threw(proc[r].call, proc[r])
    /\ proc' = [proc EXCEPT ![r] = Cleaning(@)]
    /\ UNCHANGED <<handoff, disk, faults>>

\* acknowledgeTakeover: refused unless the record is still quiesced.
Accept(r) ==
    /\ Starts(r, "activating")
    /\ Returned(proc[r].call, proc[r])
    /\ handoff' = [handoff EXCEPT ![r].phase = IF @ = "quiesced" THEN "accepted" ELSE @]
    /\ proc' = [proc EXCEPT ![r] = IF handoff[r].phase = "quiesced"
                                   THEN [@ EXCEPT !.pc = "owner", !.call = NoCall]
                                   ELSE Cleaning(@)]
    /\ UNCHANGED <<disk, faults>>

\* rejectTakeover, which a settings successor skips if its cleanup threw.
Reject(r) ==
    LET c == proc[r].call IN
    /\ Starts(r, "cleaning")
    /\ Returned(c, proc[r]) \/ Threw(c, proc[r])
    /\ handoff' = [handoff EXCEPT ![r].phase =
           IF @ \in {"ready", "quiesced"} /\ (handoff[r].flow = "settings" => ~c.bad)
           THEN "failed" ELSE @]
    /\ proc' = [proc EXCEPT ![r].pc = "exiting", ![r].call = NoCall]
    /\ UNCHANGED <<disk, faults>>

-----------------------------------------------------------------------------
(* The end of a process.                                                   *)

Ended(P, how) == [P EXCEPT !.life = how, !.active = {}]

Exit(p) ==
    /\ proc[p].life = "terminating" \/ Starts(p, "exiting")
    /\ proc' = [proc EXCEPT ![p] = Ended(@, "exited")]
    /\ UNCHANGED <<handoff, disk, faults>>

Crash(p) ==
    /\ Running(p)
    /\ Fault("crash")
    /\ proc' = [proc EXCEPT ![p] = Ended(@, "crashed")]
    /\ UNCHANGED <<handoff, disk>>

-----------------------------------------------------------------------------
Predecessor(r) ==
    \/ Spawn(r) \/ SpawnFails(r) \/ LaunchReady(r) \/ LaunchFails(r)
    \/ Proceed(r) \/ Withdraw(r) \/ PredecessorCall(r) \/ QuiesceFails(r)
    \/ Release(r) \/ Stop(r) \/ TakeoverFails(r)
    \/ Retire(r) \/ Reaped(r) \/ Resumed(r) \/ Restore(r)

Successor(r) ==
    \/ Ready(r) \/ BootFails(r) \/ TakeOver(r) \/ ReleaseFails(r)
    \/ SuccessorCall(r) \/ ActivateFails(r) \/ Accept(r) \/ Reject(r)

Next ==
    \/ \E r \in Handoffs, p \in Processes, f \in Flows : Begin(r, p, f)
    \/ \E r \in Handoffs : Predecessor(r) \/ Successor(r)
    \/ \E p \in Processes : Exit(p) \/ Crash(p)

Spec == Init /\ [][Next]_vars

-----------------------------------------------------------------------------
Coordination == [op : {"none", "quiesce", "restore", "activate", "undo", "resume"},
                 todo : SUBSET Participants, newly : SUBSET Participants,
                 bad : BOOLEAN]

HandoffRecord ==
    [phase : {"none", "launching", "ready", "quiesced", "accepted", "failed"},
     pred : Processes, flow : Flows \cup {"none"},
     ctl : {"none", "launching", "replying", "quiescing", "waiting",
            "resuming", "retiring", "reaping", "restoring", "settled"},
     holds : BOOLEAN, previous : Processes, call : Coordination]

ProcessRecord ==
    [life : {"unborn", "up", "terminating", "exited", "crashed"},
     pc : {"boot", "waiting", "activating", "cleaning", "exiting", "owner"},
     config : Processes, active : SUBSET Participants,
     quiesced : SUBSET Participants, activated : SUBSET Participants,
     call : Coordination]

\* The record, the coordinator maps and the progress of both sides.
TypeOK ==
    /\ handoff \in [Handoffs -> HandoffRecord]
    /\ proc \in [Processes -> ProcessRecord]
    /\ disk \in Processes
    /\ faults \in Nat

\* "A process-local listener or worker that must have a single active owner."
SingleOwner ==
    \A p, q \in Processes : p # q => proc[p].active \cap proc[q].active = {}

\* While a takeover stands accepted, its predecessor has nothing active, and
\* the successor has activated everything unless it has ended or begun to hand
\* over in its turn.
AcceptedOwnerComplete ==
    \A r \in Handoffs : handoff[r].phase = "accepted" =>
        /\ proc[handoff[r].pred].active = {}
        /\ \/ proc[r].active = Participants
           \/ ~Running(r)
           \/ \E q \in Handoffs : handoff[q].pred = r

\* Nothing is under way.
Quiet ==
    /\ \A r \in Handoffs : Settled(r)
    /\ \A p \in Processes : Running(p) => proc[p].life = "up" /\ proc[p].pc = "owner"

Crashed == \E p \in Processes : proc[p].life = "crashed"

\* However a handoff ended, unless a process crashed exactly one process is
\* left, and it owns every participant.
OwnerSurvives ==
    Quiet /\ ~Crashed =>
        \E p \in Processes : /\ proc[p].active = Participants
                             /\ \A q \in Processes \ {p} : ~Running(q)

\* Unless a process crashed, the settings on disk are in the end those the
\* surviving process runs with: a failed restart puts the previous ones back.
SettingsMatchOwner ==
    Quiet /\ ~Crashed =>
        \A p \in Processes : Running(p) => proc[p].config = disk

-----------------------------------------------------------------------------
\* Both sides go on: timers fire, participants answer, signals are delivered.
Fairness ==
    /\ \A r \in Handoffs : WF_vars(Predecessor(r)) /\ WF_vars(Successor(r))
    /\ \A p \in Processes : WF_vars(Exit(p))

FairSpec == Spec /\ Fairness

\* No process hangs between two owners: a launched process becomes the owner
\* or ends, and whoever requested it settles or ends.
NoLimbo ==
    \A r \in Handoffs :
        /\ Running(r) ~> (~Running(r) \/ proc[r].pc = "owner")
        /\ ~Settled(r) ~> Settled(r)

\* Handoffs come to an end, and when one has, the service is there.
ServiceRecovers == [](OwnerSurvives /\ SettingsMatchOwner) /\ NoLimbo

=============================================================================
