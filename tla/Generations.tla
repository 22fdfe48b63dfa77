---------------------------- MODULE Generations ----------------------------
(***************************************************************************)
(* The generations plugin (src/plugins/generations/runtime/src): which     *)
(* commit of FRIDAY's own repository is active, the refs that pin every    *)
(* generation, and the journalled rollback.  HEAD, the pins, the state     *)
(* file and the rollback journal are durable and change one at a time; a   *)
(* manager lives in a process and works from the state it read when it was *)
(* constructed.  A step stands for one durable write together with the     *)
(* reads that admit it.                                                    *)
(*                                                                         *)
(* Managers are opened by the run that promotes a candidate and by the     *)
(* successor process that resumes the promoted generation; Improvement.tla *)
(* says when.                                                              *)
(***************************************************************************)
EXTENDS Naturals, FiniteSets

CONSTANTS
    Candidates,   \* commits that candidates produce
    LastSlot,     \* bound: generation sequence numbers 1 .. LastSlot
    FailureKinds, \* subset of {"io", "torn", "cleanup", "crash", "timeout", "late"}
    MaxFailures   \* bound on the failures of a behaviour

ASSUME GenerationsAssumption ==
    /\ LastSlot \in Nat \ {0}
    /\ MaxFailures \in Nat /\ Candidates \cap {"root", "none"} = {}
    /\ FailureKinds \subseteq {"io", "torn", "cleanup", "crash", "timeout", "late"}

VARIABLES
    head,     \* the commit HEAD of the primary checkout is at
    clean,    \* git status reports no local changes
    base,     \* the parent of each commit, None for one nobody made yet
    pins,     \* refs/friday/generations/gen-N
    saved,    \* generations.json
    journal,  \* the rollback journal
    op,       \* what each manager is doing
    failures  \* failures so far

repo  == <<head, clean, base, pins>>
files == <<saved, journal>>

Root     == "root"
NoCommit == "none"
Commits  == Candidates \cup {Root}
Slots    == 1 .. LastSlot
Actors   == Candidates \X {"run", "heir"}

Blank         == [commit |-> NoCommit, parent |-> 0]
NoGenerations == [active |-> 0, next |-> 1, gens |-> [s \in Slots |-> Blank]]
NoJournal     == [from |-> 0, to |-> 0]

\* A manager: at is the step it is at, goal the generation to roll back to (0 for a
\* mere recovery), commit the commit to activate (NoCommit for a checkpoint).
Working(at, m, c, g) ==
    [at |-> at, mem |-> m, commit |-> c, slot |-> 0, goal |-> g, plan |-> NoJournal]
IdleManager == Working("idle", NoGenerations, NoCommit, 0)

-----------------------------------------------------------------------------
(* Reading the state.                                                      *)

Commit(s, g) == s.gens[g].commit
IsRecorded(s, c) == \E g \in Slots : Commit(s, g) = c
ActiveCommit(s) == IF s.active = 0 THEN NoCommit ELSE Commit(s, s.active)

\* The active generation and its ancestors: the least set with the one and with
\* the parents of its members.
Ancestral(s, S) == \A g \in S : s.gens[g].parent \in S \cup {0}
Line(s) ==
    {g \in Slots : \A S \in SUBSET Slots :
        Ancestral(s, S) /\ s.active \in S \cup {0} => g \in S}

Ancestry[c \in Commits] == {c} \cup IF base[c] = NoCommit THEN {} ELSE Ancestry[base[c]]

Pinned(s, g) == g \in Slots /\ Commit(s, g) # NoCommit /\ pins[g] = Commit(s, g)

\* The slots an allocation may return: a checkpoint wants a free ref, an
\* activation also takes the ref an interrupted attempt pinned to its target.
Allocatable(s, wanted) ==
    {g \in Slots : g >= s.next /\ s.gens[g] = Blank /\ pins[g] \in wanted}
First(S) == CHOOSE g \in S : \A h \in S : g <= h

Failure(kind) == kind \in FailureKinds /\ failures < MaxFailures /\ failures' = failures + 1

OpAt(a, s) == op[a].at = s
Goto(a, s) == op' = [op EXCEPT ![a].at = s]
Busy(a)    == op[a].at \notin {"idle", "held", "done", "failed"}

-----------------------------------------------------------------------------
(* Opening a manager, which reads the saved state.                         *)

Opened(at, c, g) == Working(at, saved, c, g)

\* promoteCandidate: a baseline generation is checkpointed when there is none.
OpenPromotion(c)  == Opened(IF saved.active = 0 THEN "checkpoint" ELSE "activate", c, 0)
OpenRollback(g)   == Opened("recover", NoCommit, g)
OpenRecovery      == Opened("recover", NoCommit, 0)

\* What follows a checkpoint, and what follows a recovery.
AfterCheckpoint(o) == IF o.commit = NoCommit THEN "done" ELSE "activate"
AfterRecovery(o)   == IF o.goal \in {0, o.mem.active} THEN "done" ELSE "plan"

GenerationsInit ==
    /\ head = Root /\ clean = TRUE
    /\ base = [c \in Commits |-> NoCommit]
    /\ pins = [g \in Slots |-> NoCommit]
    /\ saved = NoGenerations /\ journal = NoJournal
    /\ op = [a \in Actors |-> IdleManager]
    /\ failures = 0

-----------------------------------------------------------------------------
(* checkpointCurrent.                                                      *)

CheckpointAdmitted(m) ==
    /\ clean
    /\ m.active = 0 \/ Pinned(m, m.active)
    /\ \/ head = ActiveCommit(m)
       \/ /\ ~IsRecorded(m, head)
          /\ m.active # 0 => ActiveCommit(m) \in Ancestry[head]
          /\ Allocatable(m, {NoCommit}) # {}

Checkpoint(a) ==
    LET o == op[a]
        g == First(Allocatable(o.mem, {NoCommit}))
    IN  /\ OpAt(a, "checkpoint") /\ CheckpointAdmitted(o.mem)
        /\ IF head = ActiveCommit(o.mem)
           THEN Goto(a, AfterCheckpoint(o)) /\ UNCHANGED pins
           ELSE /\ pins' = [pins EXCEPT ![g] = head]
                /\ op' = [op EXCEPT ![a].at = "publish", ![a].slot = g]
        /\ UNCHANGED <<head, clean, base, files, failures>>

With(m, g, c) ==
    [active |-> g, next |-> g + 1,
     gens   |-> [m.gens EXCEPT ![g] = [commit |-> c, parent |-> m.active]]]

\* The checkpoint is published if HEAD is still where it was pinned.
PublishCheckpoint(a) ==
    LET o == op[a]
        m == With(o.mem, o.slot, pins[o.slot])
    IN  /\ OpAt(a, "publish") /\ clean /\ head = pins[o.slot]
        /\ saved' = m
        /\ op' = [op EXCEPT ![a].at = AfterCheckpoint(o), ![a].mem = m]
        /\ UNCHANGED <<repo, journal, failures>>

-----------------------------------------------------------------------------
(* activateDescendant.                                                     *)

AlreadyActive(m, c) ==
    /\ ActiveCommit(m) = c /\ head = c
    /\ m.gens[m.active].parent # 0
    /\ Commit(m, m.gens[m.active].parent) = base[c]

ActivationAdmitted(m, c) ==
    /\ clean /\ m.active # 0 /\ Pinned(m, m.active)
    /\ \/ AlreadyActive(m, c)
       \/ /\ ActiveCommit(m) = base[c]
          /\ ~IsRecorded(m, c)
          /\ ActiveCommit(m) \in Ancestry[c]
          /\ Allocatable(m, {NoCommit, c}) # {}
          /\ \/ head = ActiveCommit(m)
             \/ head = c /\ pins[First(Allocatable(m, {NoCommit, c}))] = c

Activate(a) ==
    LET o == op[a]
        g == First(Allocatable(o.mem, {NoCommit, o.commit}))
    IN  /\ OpAt(a, "activate") /\ ActivationAdmitted(o.mem, o.commit)
        /\ IF AlreadyActive(o.mem, o.commit)
           THEN Goto(a, "done") /\ UNCHANGED pins
           ELSE /\ pins' = [pins EXCEPT ![g] = o.commit]
                /\ op' = [op EXCEPT ![a].at = "forward", ![a].slot = g]
        /\ UNCHANGED <<head, clean, base, files, failures>>

Forward(a) ==
    LET o == op[a]
    IN  /\ OpAt(a, "forward")
        /\ head = ActiveCommit(o.mem) \/ (head = o.commit /\ pins[o.slot] = o.commit)
        /\ head' = o.commit
        /\ Goto(a, "record")
        /\ UNCHANGED <<clean, base, pins, files, failures>>

Record(a) ==
    LET o == op[a]
        m == With(o.mem, o.slot, o.commit)
    IN  /\ OpAt(a, "record") /\ clean /\ head = o.commit
        /\ saved' = m
        /\ op' = [op EXCEPT ![a].at = "done", ![a].mem = m]
        /\ UNCHANGED <<repo, journal, failures>>

\* The cleanup of a failed activation moves HEAD back and drops the pin; each
\* is tried whether or not the other succeeded.
Restore(a) ==
    LET o == op[a]
    IN  /\ OpAt(a, "restore")
        /\ head' = IF head = o.commit THEN ActiveCommit(o.mem) ELSE head
        /\ Goto(a, "unpin")
        /\ UNCHANGED <<clean, base, pins, files, failures>>

Unpin(a) ==
    /\ OpAt(a, "unpin")
    /\ pins' = [pins EXCEPT ![op[a].slot] = NoCommit]
    /\ Goto(a, "failed")
    /\ UNCHANGED <<head, clean, base, files, failures>>

-----------------------------------------------------------------------------
(* Rollback.                                                               *)

\* resumeRollbackTransaction: both ends are recorded and pinned, HEAD is at one
\* of them, and the active generation is one of them.
Resumable(m, p) ==
    /\ clean /\ Pinned(m, p.from) /\ Pinned(m, p.to)
    /\ \/ head = Commit(m, p.to) /\ m.active \in {p.from, p.to}
       \/ head = Commit(m, p.from) /\ m.active = p.from /\ p.to \in Line(m)

\* recoverInterruptedRollback.
Recover(a) ==
    LET o == op[a]
        m == o.mem
    IN  /\ OpAt(a, "recover")
        /\ journal # NoJournal => Resumable(m, journal)
        /\ op' = [op EXCEPT ![a].plan = journal, ![a].at =
              IF journal = NoJournal THEN AfterRecovery(o)
              ELSE IF head = Commit(m, journal.from) THEN "reset"
              ELSE IF m.active = journal.to THEN "unjournal" ELSE "move"]
        /\ UNCHANGED <<repo, files, failures>>

\* planRollback and the first half of executeRollback.
RollbackAdmitted(m, g) ==
    /\ clean /\ journal = NoJournal
    /\ m.active # 0 /\ g \in Line(m) \ {m.active}
    /\ Pinned(m, m.active) /\ Pinned(m, g)
    /\ head = ActiveCommit(m)

\* Mutant: HEAD is reset before the journal is written.
UnjournalledPlan(a) ==
    LET o == op[a]
        p == [from |-> o.mem.active, to |-> o.goal]
    IN  /\ OpAt(a, "plan") /\ RollbackAdmitted(o.mem, o.goal)
        /\ op' = [op EXCEPT ![a].at = "reset", ![a].plan = p]
        /\ UNCHANGED <<repo, files, failures>>

Plan(a) ==
    LET o == op[a]
        p == [from |-> o.mem.active, to |-> o.goal]
    IN  /\ OpAt(a, "plan") /\ RollbackAdmitted(o.mem, o.goal)
        /\ journal' = p
        /\ op' = [op EXCEPT ![a].at = "reset", ![a].plan = p]
        /\ UNCHANGED <<repo, saved, failures>>

Reset(a) ==
    LET o == op[a]
    IN  /\ OpAt(a, "reset")
        /\ head \in {Commit(o.mem, o.plan.from), Commit(o.mem, o.plan.to)}
        /\ head' = Commit(o.mem, o.plan.to)
        /\ Goto(a, "move")
        /\ UNCHANGED <<clean, base, pins, files, failures>>

\* The journal is rewritten before the active generation is.
Move(a) ==
    LET o == op[a]
        m == [o.mem EXCEPT !.active = o.plan.to]
    IN  /\ OpAt(a, "move") /\ head = Commit(o.mem, o.plan.to)
        /\ journal' = o.plan
        /\ saved' = m
        /\ op' = [op EXCEPT ![a].at = "unjournal", ![a].mem = m]
        /\ UNCHANGED <<repo, failures>>

Unjournal(a) ==
    /\ OpAt(a, "unjournal")
    /\ journal' = NoJournal
    /\ Goto(a, AfterRecovery(op[a]))
    /\ UNCHANGED <<repo, saved, failures>>

-----------------------------------------------------------------------------
(* Failures.                                                               *)

\* Where the error of each step leads.
OnError(o) ==
    CASE o.at = "publish"              -> "unpin"
      [] o.at \in {"forward", "record"} -> "restore"
      [] o.at = "restore"              -> "unpin"
      [] OTHER                         -> "failed"

\* The step finds the repository or the files in a state it does not accept.
Rejects(a) ==
    LET o == op[a]
    IN  \/ OpAt(a, "checkpoint") /\ ~CheckpointAdmitted(o.mem)
        \/ OpAt(a, "publish") /\ ~(clean /\ head = pins[o.slot])
        \/ OpAt(a, "activate") /\ ~ActivationAdmitted(o.mem, o.commit)
        \/ /\ OpAt(a, "forward")
           /\ head # ActiveCommit(o.mem)
           /\ ~(head = o.commit /\ pins[o.slot] = o.commit)
        \/ OpAt(a, "record") /\ ~(clean /\ head = o.commit)
        \/ OpAt(a, "recover") /\ journal # NoJournal /\ ~Resumable(o.mem, journal)
        \/ OpAt(a, "plan") /\ ~RollbackAdmitted(o.mem, o.goal)
        \/ /\ OpAt(a, "reset")
           /\ head \notin {Commit(o.mem, o.plan.from), Commit(o.mem, o.plan.to)}
        \/ OpAt(a, "move") /\ head # Commit(o.mem, o.plan.to)

Reject(a) ==
    /\ Rejects(a)
    /\ Goto(a, OnError(op[a]))
    /\ UNCHANGED <<repo, files, failures>>

\* git or the file system refuses the write.
WriteFails(a) ==
    /\ Busy(a) /\ ~Rejects(a)
    /\ Failure(IF op[a].at \in {"restore", "unpin"} THEN "cleanup" ELSE "io")
    /\ Goto(a, OnError(op[a]))
    /\ UNCHANGED <<repo, files>>

\* git is killed while it rewrites the working tree, before it moves HEAD.
Torn(a) ==
    /\ op[a].at \in {"forward", "reset"} /\ ~Rejects(a)
    /\ Failure("torn")
    /\ clean' = FALSE
    /\ Goto(a, OnError(op[a]))
    /\ UNCHANGED <<head, base, pins, files>>

Work(a) ==
    \/ Checkpoint(a) \/ PublishCheckpoint(a)
    \/ Activate(a) \/ Forward(a) \/ Record(a)
    \/ Restore(a) \/ Unpin(a)
    \/ Recover(a) \/ Plan(a) \/ Reset(a) \/ Move(a) \/ Unjournal(a)
    \/ Reject(a)

-----------------------------------------------------------------------------
(* Properties.                                                             *)

GenerationsTypeOK ==
    /\ head \in Commits /\ clean \in BOOLEAN
    /\ base \in [Commits -> Commits \cup {NoCommit}]
    /\ pins \in [Slots -> Commits \cup {NoCommit}]
    /\ saved.active \in 0 .. LastSlot /\ saved.next \in 1 .. LastSlot + 1
    /\ saved.gens \in [Slots -> [commit : Commits \cup {NoCommit}, parent : 0 .. LastSlot]]
    /\ journal \in [from : 0 .. LastSlot, to : 0 .. LastSlot]
    /\ failures \in 0 .. MaxFailures

\* HEAD and the recorded active generation differ only while something durable
\* says why: a rollback journal that names both commits, or the pin of an
\* activation that is not recorded yet.  A crash at any point leaves it so
\* (ADR-0022: "cancellation cannot leave HEAD and the durable active generation
\* pointer split").
HeadExplained ==
    saved.active # 0 /\ head # ActiveCommit(saved) =>
        \/ /\ journal # NoJournal
           /\ {Commit(saved, journal.from), Commit(saved, journal.to)}
              = {head, ActiveCommit(saved)}
        \/ \E g \in Slots : saved.gens[g] = Blank /\ pins[g] = head

\* Every recorded generation stays pinned: the cleanup of one attempt never
\* takes the ref another attempt published.
PinsHold ==
    \A g \in Slots : saved.gens[g] # Blank => pins[g] = Commit(saved, g)

\* The repository can be brought to the recorded state, and back along it.
RepositorySound == HeadExplained /\ PinsHold

\* A pending journal is about the active generation (ADR-0022:25: an
\* "interrupted rollback is recovered before a new promotion/resume decision").
JournalCurrent == journal # NoJournal => saved.active \in {journal.from, journal.to}

=============================================================================
