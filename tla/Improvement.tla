---------------------------- MODULE Improvement ----------------------------
(***************************************************************************)
(* Self-improvement (src/plugins/self-improvement): a run develops a       *)
(* candidate, promotes it through the generations plugin, records a        *)
(* mission and launches the new generation; the successor verifies it and  *)
(* takes over, or the mission is rolled back.  Candidates, handoffs,       *)
(* missions, the restart record and the finalizer that a stored reply      *)
(* carries are durable; runs and successors die with their process.        *)
(***************************************************************************)
EXTENDS Generations

\* No candidate has the name of the process that was there first.
ASSUME ImprovementAssumption == "plain" \notin Candidates

VARIABLES
    cand,     \* candidate records: status, promoted generation and its parent
    handoff,  \* generation handoffs
    mission,  \* missions.json
    record,   \* the restart record of the lifecycle plugin
    due,      \* a stored reply carries the handoff as its finalizer
    run,      \* what the predecessor does for the candidate
    by,       \* the process that does
    heir,     \* what the successor does
    server    \* the process that owns the service

own  == <<cand, handoff, mission>>
life == <<record, due, run, by, heir, server>>
improvementVars == <<repo, files, op, failures, own, life>>

Servers == Candidates \cup {"plain"}
Runner(c) == <<c, "run">>
Heir(c) == <<c, "heir">>

Developing == {"develop", "promote", "publish", "unpublish", "build", "announce", "launch"}
Handing    == {"deferred", "finalize", "wait", "retire", "undo", "settle", "close", "served"}
Active(c)  == run[c] \in Developing \cup Handing
Gone(c)    == cand[c].gen # 0 /\ cand[c].gen \notin Line(saved)

IsAt(c, s) == run[c] = s /\ ~Busy(Runner(c))
RunTo(c, s)   == run' = [run EXCEPT ![c] = s]
HeirAt(c, s) == heir[c] = s /\ ~Busy(Heir(c))
HeirTo(c, s) == heir' = [heir EXCEPT ![c] = s]
Open(a, o)   == op' = [op EXCEPT ![a] = o]

ImprovementInit ==
    /\ GenerationsInit
    /\ cand = [c \in Candidates |-> [status |-> "none", gen |-> 0, from |-> 0]]
    /\ handoff = [c \in Candidates |-> "none"]
    /\ mission = [c \in Candidates |-> "none"]
    /\ record = [c \in Candidates |-> "none"]
    /\ due = [c \in Candidates |-> FALSE]
    /\ run = [c \in Candidates |-> "none"]
    /\ by = [c \in Candidates |-> "plain"]
    /\ heir = [c \in Candidates |-> "none"]
    /\ server = "plain"

-----------------------------------------------------------------------------
(* selfImprove.                                                            *)

\* One run at a time in a process.  Bound: that includes the deferred handoff,
\* during which activeRun is already free.
StartRun(c) ==
    /\ server # "none" /\ run[c] = "none" /\ clean
    /\ \A d \in Candidates : by[d] = server => ~Active(d)
    /\ base' = [base EXCEPT ![c] = head]
    /\ cand' = [cand EXCEPT ![c].status = "created"]
    /\ by' = [by EXCEPT ![c] = server]
    /\ RunTo(c, "develop")
    /\ UNCHANGED <<head, clean, pins, files, op, failures, handoff, mission,
                   record, due, heir, server>>

\* The agent, the commit and the gates either produce a passed candidate ...
\* Timing: that takes minutes; by then a successor whose record failed has left,
\* so has a predecessor that was taken over from, and the finalizers that were
\* due when the process started have run.
Evaluated(c) ==
    /\ run[c] = "develop"
    /\ \A d \in Candidates :
          /\ heir[d] # "none" => record[d] # "failed"
          /\ Active(d) => by[d] = by[c]
          /\ due[d] => run[d] # "lost"
    /\ cand' = [cand EXCEPT ![c].status = "passed"]
    /\ RunTo(c, "promote") /\ Open(Runner(c), OpenPromotion(c))
    /\ UNCHANGED <<repo, files, failures, handoff, mission, record, due, by, heir, server>>

\* ... or the candidate is abandoned, as after a failed promotion.
Abandon(c) ==
    /\ \/ run[c] = "develop"
       \/ run[c] = "promote" /\ OpAt(Runner(c), "failed")
       \/ IsAt(c, "unpublish")
    /\ cand' = [cand EXCEPT ![c].status = "abandoned"]
    /\ RunTo(c, "over") /\ Open(Runner(c), IdleManager)
    /\ UNCHANGED <<repo, files, failures, handoff, mission, record, due, by, heir, server>>

\* The candidate and its handoff are saved together.
PublishPromotion(c) ==
    LET m == op[Runner(c)].mem
    IN  /\ run[c] = "promote" /\ OpAt(Runner(c), "done")
        /\ cand' = [cand EXCEPT ![c] = [status |-> "promoted", gen |-> m.active,
                                         from |-> m.gens[m.active].parent]]
        /\ handoff' = [handoff EXCEPT ![c] = "pending"]
        /\ RunTo(c, "build") /\ Open(Runner(c), IdleManager)
        /\ UNCHANGED <<repo, files, failures, mission, record, due, by, heir, server>>

\* When that save fails, the same generations manager rolls back to the parent.
PublishFails(c) ==
    LET m == op[Runner(c)].mem
    IN  /\ run[c] = "promote" /\ OpAt(Runner(c), "done")
        /\ Failure("io")
        /\ RunTo(c, "unpublish")
        /\ Open(Runner(c), Working("plan", m, NoCommit, m.gens[m.active].parent))
        /\ UNCHANGED <<repo, files, own, record, due, by, heir, server>>

\* A single-binary installation builds its executable here.  When that fails or
\* is cancelled the run ends: the generation is active, no mission was recorded.
BuildEnds(c) ==
    /\ run[c] = "build"
    /\ \/ RunTo(c, "announce") /\ UNCHANGED failures
       \/ RunTo(c, "over") /\ Failure("io")
    /\ UNCHANGED <<repo, files, op, own, record, due, by, heir, server>>

Announce(c) ==
    /\ run[c] = "announce"
    /\ mission' = [mission EXCEPT ![c] = "restarting"]
    /\ RunTo(c, "launch")
    /\ UNCHANGED <<repo, files, op, failures, cand, handoff, record, due, by, heir, server>>

AnnounceFails(c) ==
    /\ run[c] = "announce"
    /\ Failure("io")
    /\ RunTo(c, "undo") /\ Open(Runner(c), OpenRollback(cand[c].from))
    /\ UNCHANGED <<repo, files, own, record, due, by, heir, server>>

\* launchReplacement: the successor starts with the preflight of its mission.
Launch(c) ==
    /\ run[c] = "launch" /\ record[c] = "none"
    /\ record' = [record EXCEPT ![c] = "launching"]
    /\ HeirTo(c, "boot") /\ Open(Heir(c), OpenRecovery)
    /\ UNCHANGED <<repo, files, failures, own, due, run, by, server>>

Launched(c) ==
    /\ run[c] = "launch" /\ record[c] = "ready"
    /\ RunTo(c, "deferred")
    /\ UNCHANGED <<repo, files, op, failures, own, record, due, by, heir, server>>

\* The launch fails when the successor died or in time did not come up.  A
\* record that became ready meanwhile stays so, and nobody tells the successor.
LaunchFails(c) ==
    /\ run[c] = "launch" /\ record[c] \in {"launching", "ready"}
    /\ (heir[c] = "none" /\ UNCHANGED failures) \/ (heir[c] # "none" /\ Failure("timeout"))
    /\ record' = [record EXCEPT ![c] = IF @ = "ready" THEN @ ELSE "failed"]
    /\ RunTo(c, "undo") /\ Open(Runner(c), OpenRollback(cand[c].from))
    /\ UNCHANGED <<repo, files, own, due, by, heir, server>>

-----------------------------------------------------------------------------
(* finalizeHandoff.                                                        *)

\* The reply of the turn is stored with its finalizer before that runs.
Reply(c) ==
    /\ run[c] = "deferred"
    /\ due' = [due EXCEPT ![c] = TRUE]
    /\ RunTo(c, "finalize")
    /\ UNCHANGED <<repo, files, op, failures, own, record, by, heir, server>>

Release(c) ==
    /\ run[c] = "finalize" /\ record[c] \in {"ready", "quiesced", "accepted"}
    /\ record' = [record EXCEPT ![c] = IF @ = "ready" THEN "quiesced" ELSE @]
    /\ RunTo(c, "wait")
    /\ UNCHANGED <<repo, files, op, failures, own, due, by, heir, server>>

\* The operator declines, quiescing fails or the record has failed already.
ReleaseFails(c) ==
    /\ run[c] = "finalize"
    /\ (record[c] = "failed" /\ UNCHANGED failures) \/ (record[c] # "failed" /\ Failure("io"))
    /\ RunTo(c, "retire")
    /\ UNCHANGED <<repo, files, op, own, record, due, by, heir, server>>

\* The process of the successor is gone.
SuccessorDead(c) == heir[c] = "none" /\ server # c

\* Mutant: the wait for the takeover does not look whether the successor lives.
WaitBlindly(c) ==
    /\ run[c] = "wait" /\ record[c] # "accepted"
    /\ (record[c] = "failed" /\ UNCHANGED failures) \/ (record[c] # "failed" /\ Failure("timeout"))
    /\ record' = [record EXCEPT ![c] = "failed"]
    /\ RunTo(c, "retire")
    /\ UNCHANGED <<repo, files, op, own, due, by, heir, server>>

\* The takeover is refused, the successor died, or the wait times out or is
\* aborted.  A record that was accepted since it was read stays so, and the
\* wait fails all the same.
WaitFails(c) ==
    /\ run[c] = "wait"
    /\ \/ (record[c] = "failed" \/ SuccessorDead(c)) /\ UNCHANGED failures
       \/ record[c] # "failed" /\ ~SuccessorDead(c) /\ Failure("timeout")
    /\ record' = [record EXCEPT ![c] = IF @ = "accepted" THEN @ ELSE "failed"]
    /\ RunTo(c, "retire")
    /\ UNCHANGED <<repo, files, op, own, due, by, heir, server>>

\* Mutant: an accepted successor is not terminated.
RetireUnaccepted(c) ==
    /\ run[c] = "retire"
    /\ record' = [record EXCEPT ![c] = "failed"]
    /\ HeirTo(c, "none")
    /\ RunTo(c, "undo")
    /\ op' = [op EXCEPT ![Heir(c)] = IdleManager, ![Runner(c)] = OpenRollback(cand[c].from)]
    /\ UNCHANGED <<repo, files, failures, own, due, by, server>>

\* The successor is killed before anything is rolled back, also one that has
\* taken over, with what it runs; the predecessor has the service again, which
\* it resumes after the rollback.
Retire(c) ==
    /\ run[c] = "retire"
    /\ record' = [record EXCEPT ![c] = "failed"]
    /\ HeirTo(c, "none")
    /\ server' = by[c]
    /\ run' = [d \in Candidates |-> IF d = c THEN "undo"
                                    ELSE IF by[d] = c /\ Active(d) THEN "lost" ELSE run[d]]
    /\ op' = [a \in Actors |-> IF a = Runner(c) THEN OpenRollback(cand[c].from)
                               ELSE IF a = Heir(c) \/ (a[2] = "run" /\ by[a[1]] = c)
                               THEN IdleManager ELSE op[a]]
    /\ UNCHANGED <<repo, files, failures, own, due, by>>

\* The predecessor leaves after the takeover.
Served(c) ==
    /\ run[c] = "wait" /\ record[c] = "accepted"
    /\ due' = [due EXCEPT ![c] = FALSE]
    /\ RunTo(c, "over")
    /\ UNCHANGED <<repo, files, op, failures, own, record, by, heir, server>>

\* A finalizer that was not recorded as done runs again in the process that
\* owns the service now.  That process is not the predecessor of the record, so
\* releasing and retiring both throw, and the mission is rolled back.
Refinalize(c) ==
    /\ server # "none" /\ due[c] /\ run[c] = "lost" /\ mission[c] # "none"
    /\ \A d \in Candidates : Active(d) => by[d] # server
    /\ by' = [by EXCEPT ![c] = server]
    /\ RunTo(c, "undo") /\ Open(Runner(c), OpenRollback(cand[c].from))
    /\ UNCHANGED <<repo, files, failures, own, record, due, heir, server>>

-----------------------------------------------------------------------------
(* rollbackMission.  The generation goes first; the other records follow as *)
(* far as they can be written.                                              *)

SettledCandidate(c) ==
    cand' = [cand EXCEPT ![c].status = IF @ = "promoted" THEN "rolled-back" ELSE @]
\* Mutant: the handoff gets the status of the mission.
SettledAlike(c) ==
    handoff' = [handoff EXCEPT ![c] = IF @ \in {"completed", "none"} THEN @ ELSE "rolled-back"]
SettledHandoff(c) ==
    handoff' = [handoff EXCEPT ![c] = IF @ \in {"completed", "none"} THEN @ ELSE "failed"]
SettledMission(c) ==
    mission' = [mission EXCEPT ![c] = IF @ = "none" THEN @ ELSE "rolled-back"]

RunUndone(c) ==
    /\ run[c] = "undo" /\ OpAt(Runner(c), "done")
    /\ SettledCandidate(c) /\ SettledHandoff(c)
    /\ RunTo(c, "close") /\ Open(Runner(c), IdleManager)
    /\ UNCHANGED <<repo, files, failures, mission, record, due, by, heir, server>>

\* The rollback of the generation failed: nothing else is touched.
RunUndoFails(c) ==
    /\ run[c] = "undo" /\ OpAt(Runner(c), "failed")
    /\ RunTo(c, "stuck") /\ Open(Runner(c), IdleManager)
    /\ due' = [due EXCEPT ![c] = FALSE]
    /\ UNCHANGED <<repo, files, failures, own, record, by, heir, server>>

Close(c) ==
    /\ run[c] = "close"
    /\ SettledMission(c)
    /\ RunTo(c, "over")
    /\ due' = [due EXCEPT ![c] = FALSE]
    /\ UNCHANGED <<repo, files, op, failures, cand, handoff, record, by, heir, server>>

-----------------------------------------------------------------------------
(* The successor.                                                          *)

\* preflightGenerationResume, after it has recovered an interrupted rollback.
Preflighted(c) ==
    /\ OpAt(Heir(c), "done")
    /\ mission[c] \in {"restarting", "resuming"}
    /\ op[Heir(c)].mem.active = cand[c].gen
    /\ handoff[c] \in {"pending", "resuming"}

Boot(c) ==
    /\ HeirAt(c, "boot") /\ Preflighted(c) /\ record[c] = "launching"
    /\ record' = [record EXCEPT ![c] = "ready"]
    /\ HeirTo(c, "ready") /\ Open(Heir(c), IdleManager)
    /\ UNCHANGED <<repo, files, failures, own, due, run, by, server>>

\* The predecessor is gone or will not release: it is dead, or it gave the
\* launch up without a word, and the deadline of the successor passes.
Deserted(c) == run[c] \in {"undo", "close", "over", "stuck", "lost"}

\* A successor that fails outside resumeGeneration, or is not released in time,
\* rejects the takeover; one that fails before it is ready only exits.
GiveUp(c) ==
    /\ \/ HeirAt(c, "boot") /\ (~Preflighted(c) \/ record[c] = "failed") /\ UNCHANGED failures
       \/ heir[c] = "ready" /\ (record[c] = "failed" \/ Deserted(c)) /\ UNCHANGED failures
       \/ heir[c] = "ready" /\ run[c] \in {"deferred", "finalize"} /\ Failure("timeout")
       \/ HeirAt(c, "resume") /\ ~Preflighted(c) /\ UNCHANGED failures
    /\ record' = [record EXCEPT ![c] =
           IF heir[c] # "boot" /\ @ # "accepted" THEN "failed" ELSE @]
    /\ HeirTo(c, "none") /\ Open(Heir(c), IdleManager)
    /\ UNCHANGED <<repo, files, own, due, run, by, server>>

Released(c) ==
    /\ heir[c] = "ready" /\ record[c] = "quiesced"
    /\ HeirTo(c, "resume") /\ Open(Heir(c), OpenRecovery)
    /\ UNCHANGED <<repo, files, failures, own, record, due, run, by, server>>

\* resumeGeneration claims the handoff with its mission; its manager keeps the
\* state of now for the checkpoint after the gates.
Claim(c) ==
    /\ HeirAt(c, "resume") /\ Preflighted(c)
    /\ handoff' = [handoff EXCEPT ![c] = "resuming"]
    /\ mission' = [mission EXCEPT ![c] = "resuming"]
    /\ HeirTo(c, "verify")
    /\ Open(Heir(c), Opened("held", NoCommit, 0))
    /\ UNCHANGED <<repo, files, failures, cand, record, due, run, by, server>>

\* The gates pass and the checkpoint follows, or the mission is rolled back.
Gates(c) ==
    /\ heir[c] = "verify"
    /\ \/ HeirTo(c, "check") /\ Open(Heir(c), [op[Heir(c)] EXCEPT !.at = "checkpoint"])
       \/ HeirTo(c, "undo") /\ Open(Heir(c), OpenRollback(cand[c].from))
    /\ UNCHANGED <<repo, files, failures, own, record, due, run, by, server>>

CheckFails(c) ==
    /\ heir[c] = "check" /\ OpAt(Heir(c), "failed")
    /\ HeirTo(c, "undo") /\ Open(Heir(c), OpenRollback(cand[c].from))
    /\ UNCHANGED <<repo, files, failures, own, record, due, run, by, server>>

CompleteHandoff(c) ==
    /\ heir[c] = "check" /\ OpAt(Heir(c), "done") /\ cand[c].status = "promoted"
    /\ handoff' = [handoff EXCEPT ![c] = "completed"]
    /\ HeirTo(c, "complete") /\ Open(Heir(c), IdleManager)
    /\ UNCHANGED <<repo, files, failures, cand, mission, record, due, run, by, server>>

CompleteMission(c) ==
    /\ heir[c] = "complete"
    /\ mission' = [mission EXCEPT ![c] = "completed"]
    /\ HeirTo(c, "accept")
    /\ UNCHANGED <<repo, files, op, failures, cand, handoff, record, due, run, by, server>>

\* Writing either record can fail inside the try block.
CompletionFails(c) ==
    /\ heir[c] = "complete" \/ (heir[c] = "check" /\ OpAt(Heir(c), "done"))
    /\ Failure("io")
    /\ HeirTo(c, "undo") /\ Open(Heir(c), OpenRollback(cand[c].from))
    /\ UNCHANGED <<repo, files, own, record, due, run, by, server>>

Accept(c) ==
    /\ heir[c] = "accept" /\ record[c] = "quiesced"
    /\ record' = [record EXCEPT ![c] = "accepted"]
    /\ HeirTo(c, "none")
    /\ server' = c
    /\ UNCHANGED <<repo, files, op, failures, own, due, run, by>>

\* Activation fails, or the predecessor gave the takeover up: the successor
\* rejects and leaves the rollback to the predecessor.
AcceptFails(c) ==
    /\ heir[c] = "accept"
    /\ (record[c] = "failed" /\ UNCHANGED failures) \/ (record[c] # "failed" /\ Failure("io"))
    /\ record' = [record EXCEPT ![c] = "failed"]
    /\ HeirTo(c, "none")
    /\ UNCHANGED <<repo, files, op, own, due, run, by, server>>

HeirUndone(c) ==
    /\ heir[c] = "undo" /\ OpAt(Heir(c), "done")
    /\ SettledCandidate(c) /\ SettledHandoff(c)
    /\ HeirTo(c, "close") /\ Open(Heir(c), IdleManager)
    /\ UNCHANGED <<repo, files, failures, mission, record, due, run, by, server>>

\* Without a predecessor the successor launches the recovered generation.
HeirCloses(c) ==
    /\ heir[c] = "close"
    /\ SettledMission(c)
    /\ record' = [record EXCEPT ![c] = "failed"]
    /\ IF run[c] = "lost" THEN HeirTo(c, "replace") /\ Open(Heir(c), OpenRecovery)
                          ELSE HeirTo(c, "none") /\ UNCHANGED op
    /\ UNCHANGED <<repo, files, failures, cand, handoff, due, run, by, server>>

HeirUndoFails(c) ==
    /\ heir[c] = "undo" /\ OpAt(Heir(c), "failed")
    /\ record' = [record EXCEPT ![c] = "failed"]
    /\ HeirTo(c, "none") /\ Open(Heir(c), IdleManager)
    /\ UNCHANGED <<repo, files, failures, own, due, run, by, server>>

\* preflightRollbackRecovery in the replacement, which then takes over.
Replace(c) ==
    /\ HeirAt(c, "replace")
    /\ server' = IF OpAt(Heir(c), "done") /\ op[Heir(c)].mem.active = cand[c].from /\ server = "none"
                 THEN "plain" ELSE server
    /\ HeirTo(c, "none") /\ Open(Heir(c), IdleManager)
    /\ UNCHANGED <<repo, files, failures, own, record, due, run, by>>

-----------------------------------------------------------------------------
(* Processes die and are started.                                          *)

\* A process dies with its runs; a supervisor that stops the control group
\* takes the successors with it.  A predecessor may still die after the
\* takeover, before its finalizer is recorded as done.
ProcessDies(p) ==
    /\ \/ p = server /\ Failure("crash")
       \/ p # server /\ (\E c \in Candidates : by[c] = p /\ Active(c)) /\ Failure("late")
    /\ server' = IF server = p THEN "none" ELSE server
    /\ run' = [c \in Candidates |-> IF by[c] = p /\ Active(c) THEN "lost" ELSE run[c]]
    /\ \E dead \in {{}, Candidates} :
          /\ heir' = [c \in Candidates |-> IF c \in dead THEN "none" ELSE heir[c]]
          /\ op' = [a \in Actors |->
                IF (a[2] = "run" /\ by[a[1]] = p) \/ (a[2] = "heir" /\ a[1] \in dead)
                THEN IdleManager ELSE op[a]]
    /\ UNCHANGED <<repo, files, own, record, due, by>>

HeirCrashes(c) ==
    /\ heir[c] # "none"
    /\ Failure("crash")
    /\ HeirTo(c, "none") /\ Open(Heir(c), IdleManager)
    /\ UNCHANGED <<repo, files, own, record, due, run, by, server>>

\* The service is started again once no process is left.
Restart ==
    /\ server = "none" /\ \A c \in Candidates : heir[c] = "none" /\ ~Active(c)
    /\ server' = "plain"
    /\ UNCHANGED <<repo, files, op, failures, own, record, due, run, by, heir>>

-----------------------------------------------------------------------------
Promotion(c) ==
    \/ StartRun(c) \/ Evaluated(c) \/ Abandon(c)
    \/ PublishPromotion(c) \/ BuildEnds(c) \/ Announce(c)
    \/ Launch(c) \/ Launched(c) \/ LaunchFails(c)
Finalization(c) ==
    \/ Reply(c) \/ Release(c) \/ ReleaseFails(c) \/ WaitFails(c) \/ Retire(c)
    \/ Served(c) \/ Refinalize(c) \/ RunUndone(c) \/ RunUndoFails(c) \/ Close(c)
Succession(c) ==
    \/ Boot(c) \/ GiveUp(c) \/ Released(c) \/ Claim(c) \/ Gates(c) \/ CheckFails(c)
    \/ CompleteHandoff(c) \/ CompleteMission(c)
    \/ Accept(c) \/ AcceptFails(c) \/ HeirUndone(c) \/ HeirCloses(c) \/ HeirUndoFails(c)
    \/ Replace(c)
Managed(a) == Work(a) /\ UNCHANGED <<own, life>>
Broken(a)  == (WriteFails(a) \/ Torn(a)) /\ UNCHANGED <<own, life>>

ImprovementNext ==
    \/ \E c \in Candidates :
          \/ Promotion(c) \/ Finalization(c) \/ Succession(c)
          \/ PublishFails(c) \/ AnnounceFails(c) \/ CompletionFails(c) \/ HeirCrashes(c)
    \/ \E a \in Actors : Managed(a) \/ Broken(a)
    \/ \E p \in Servers : ProcessDies(p)
    \/ Restart

ImprovementSpec == ImprovementInit /\ [][ImprovementNext]_improvementVars

\* Every run, successor and manager that can go on does; a dead service is
\* started again.
ImprovementFairness ==
    /\ \A c \in Candidates :
          /\ WF_improvementVars(run[c] # "none" /\ Promotion(c))
          /\ WF_improvementVars(Finalization(c)) /\ WF_improvementVars(Succession(c))
    /\ \A a \in Actors : WF_improvementVars(Managed(a))
    /\ WF_improvementVars(Restart)
FairImprovementSpec == ImprovementSpec /\ ImprovementFairness

-----------------------------------------------------------------------------
(* Properties.                                                             *)

ImprovementTypeOK ==
    /\ GenerationsTypeOK
    /\ cand \in [Candidates -> [
           status : {"none", "created", "passed", "promoted", "abandoned", "rolled-back"},
           gen : 0 .. LastSlot, from : 0 .. LastSlot]]
    /\ handoff \in [Candidates -> {"none", "pending", "resuming", "completed", "failed"}]
    /\ mission \in [Candidates ->
           {"none", "restarting", "resuming", "completed", "rolled-back"}]
    /\ record \in [Candidates ->
           {"none", "launching", "ready", "quiesced", "accepted", "failed"}]
    /\ due \in [Candidates -> BOOLEAN]
    /\ run \in [Candidates -> Developing \cup Handing \cup {"none", "over", "stuck", "lost"}]
    /\ heir \in [Candidates -> {"none", "boot", "ready", "resume", "verify", "check",
                                 "complete", "accept", "undo", "close", "replace"}]
    /\ by \in [Candidates -> Servers] /\ server \in Servers \cup {"none"}

\* A generation that took the service over is active or an ancestor of the
\* active one, and its mission and its handoff say that it was verified.
Verified(c) ==
    cand[c].gen \in Line(saved) /\ mission[c] = "completed" /\ handoff[c] = "completed"
TakeoverHolds == server \in Candidates => Verified(server)

\* The same, but for a finalizer that runs again in the new process itself.
ServesVerified == server \in Candidates /\ by[server] # server => Verified(server)

\* A mission that is reported as rolled back is: its generation is neither
\* active nor an ancestor of the active one.
RolledBackGone == \A c \in Candidates : mission[c] = "rolled-back" => Gone(c)

\* What the records say about missions is so.
MissionsTruthful == ServesVerified /\ RolledBackGone

\* Every mission ends, unless the process that drove it died or the rollback
\* itself failed.
MissionSettles ==
    \A c \in Candidates :
        mission[c] = "restarting" ~>
            \/ mission[c] \in {"completed", "rolled-back"}
            \/ run[c] \in {"lost", "stuck"}

=============================================================================
