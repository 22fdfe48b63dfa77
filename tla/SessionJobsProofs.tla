--------------------------- MODULE SessionJobsProofs ---------------------------
(***************************************************************************)
(* What the registry of background jobs promises, for any number of jobs,  *)
(* sessions, processes and faults, when calls of clients do not overlap a  *)
(* handoff: work is admitted and done once, neither a request nor its      *)
(* report is lost, an outcome stays, and a session runs one job at a time. *)
(*                                                                         *)
(* The invariant is stated of a process P and a table D as values, so that *)
(* most of the argument is about operators and needs no primes.            *)
(***************************************************************************)
EXTENDS SessionJobs, TLAPS

Rows == Row \cup {NoRow}
Phases == {"unborn", "open", "quiescing", "failed", "paused", "retiring", "down"}
ProcState == [phase: Phases, jobs: [Jobs -> Rows], op: [Jobs -> Operation],
              tail: [Destinations -> Jobs \cup {0}], waits: SUBSET Jobs,
              caller: Jobs \cup {0}, marking: SUBSET Jobs]
Table == [Jobs -> Rows]

Reported == {"completed", "error"}
Same(row, other) == /\ row.status = other.status
                    /\ row.source = other.source
                    /\ row.session = other.session

\* A row of job j: an active one has its request and no report, a report is of
\* an outcome, what is not unsent was sent, and a session named like a job is
\* the one that job created.
RowOK(row, j, D, sent) ==
    /\ IsActive(row) => row.text /\ row.note = "none"
    /\ row.note # "none" => row.status \in Reported
    /\ row.status \in Reported /\ row.note # "unsent" => j \in sent
    /\ row.session \in Jobs => D[row.session].session = row.session

HeldRow(o, row) == IF o.own # NoRow THEN o.own ELSE row
Runs(o) == o.pc \in {"waiting", "executing"}
Reports(o) == o.pc \in {"sending", "finalizing", "deferred"}

\* What a process in phase ph does about job j, whose row in its registry is
\* row.  A run that is to have an outcome belongs to an active row and to an
\* open process; a delivery, to a row of the table with an outcome.
JobOK(ph, o, row, j, D, sent) ==
    /\ RowOK(row, j, D, sent) /\ RowOK(o.own, j, D, sent)
    /\ o.pc = "idle" => o = Idle
    /\ o.pc = "label" =>
           /\ ~o.queued /\ ph = "open" /\ o.own.status = "queued"
           /\ D[j] = NoRow /\ \A i \in Jobs : i < j => D[i] # NoRow
    /\ o.pc \notin {"idle", "label"} => D[j] # NoRow
    /\ Runs(o) =>
           /\ o.queued
           /\ ph \in {"open", "quiescing", "failed"}
           /\ ph # "open" \/ o.own # NoRow => o.aborted
           /\ ~o.aborted => IsActive(row)
    /\ o.pc = "deferred" => ~o.queued
    /\ o.pc # "waiting" => o.ahead = 0
    /\ o.pc \in {"finalizing", "deferred"} => j \in sent
    /\ Reports(o) => HeldRow(o, row).status \in Reported /\ Same(HeldRow(o, row), D[j])

OneLabel(P) == \A j, k \in Jobs : P.op[j].pc = "label" /\ P.op[k].pc = "label" => j = k

\* j has a place in the queue of session s.
Places(P, j, s) == P.op[j].queued /\ HeldRow(P.op[j], P.jobs[j]).session = s

\* A queue is in the order of the jobs' ids, and its tail is behind every run.
QueueOK(P) ==
    /\ \A s \in Destinations : P.tail[s] # 0 => Places(P, P.tail[s], s)
    /\ \A k \in Jobs : P.op[k].ahead # 0 =>
           /\ P.op[k].ahead < k
           /\ HeldRow(P.op[k], P.jobs[k]).session \in Destinations
           /\ Places(P, P.op[k].ahead, HeldRow(P.op[k], P.jobs[k]).session)
    /\ \A s \in Destinations, l \in Jobs :
           Runs(P.op[l]) /\ Places(P, l, s) => l <= P.tail[s]
    /\ \A s \in Destinations, l, k \in Jobs :
           Runs(P.op[l]) /\ Places(P, l, s) /\ Places(P, k, s) /\ l < k => l <= P.op[k].ahead

Acts(P) == P.phase \in {"open", "quiescing", "failed", "paused"}
Matches(P, D) == Acts(P) => \A j \in Jobs : Same(P.jobs[j], D[j])

\* What a process does, whether or not its registry is the table.
Inner(P, D, sent) ==
    /\ P \in ProcState
    /\ \A j \in Jobs : JobOK(P.phase, P.op[j], P.jobs[j], j, D, sent)
    /\ OneLabel(P)
    /\ QueueOK(P)
    /\ P.phase \in {"unborn", "down"} => P = [Unborn EXCEPT !.phase = P.phase]
    /\ ~Acts(P) => P.marking = {}

\* Ids are handed out in order, and a source has one job.
TableOK(D, sent) ==
    /\ D \in Table
    /\ \A j \in Jobs : RowOK(D[j], j, D, sent)
    /\ \A i, j \in Jobs : D[j] # NoRow /\ i < j => D[i] # NoRow
    /\ \A j, k \in Jobs : D[j] # NoRow /\ k # j => D[k].source # D[j].source

\* A job that is continued has no outcome and will have none.
SourceOK(i, D, procs) ==
    i \in Jobs => /\ D[i] # NoRow
                  /\ D[i].status \notin Reported
                  /\ \A q \in Processes : ~Runs(procs[q].op[i])
SourcesOK(D, procs) ==
    /\ \A k \in Jobs : SourceOK(D[k].source, D, procs)
    /\ \A p \in Processes, j \in Jobs : procs[p].op[j].pc = "label" =>
           /\ SourceOK(procs[p].op[j].own.source, D, procs)
           /\ \A k \in Jobs : D[k].source # procs[p].op[j].own.source

\* Processes follow one another, and one acts.
LineOK(procs) == \A p, q \in Processes : p < q =>
    (Acts(procs[p]) \/ procs[p].phase = "unborn" => procs[q].phase = "unborn")

ProcsOK(procs, D, sent) ==
    /\ procs \in [Processes -> ProcState]
    /\ \A p \in Processes : Inner(procs[p], D, sent) /\ Matches(procs[p], D)
    /\ LineOK(procs)
    /\ SourcesOK(D, procs)

IInv == /\ TableOK(disk, replied)
        /\ ProcsOK(proc, disk, replied)
        /\ resume \in [Jobs -> {"none", "asked", "done"}]
        /\ ask \subseteq Jobs /\ told \subseteq Jobs /\ replied \subseteq Jobs
        /\ faults \in 0 .. MaxFaults
        /\ \A j \in told : disk[j] # NoRow

\* What no step takes back from the table.
Extends(D, E) == \A j \in Jobs : D[j] # NoRow =>
    /\ E[j] # NoRow
    /\ E[j].source = D[j].source
    /\ D[j].session # New => E[j].session = D[j].session
    /\ D[j].status \in FinalStatus => E[j].status = D[j].status /\ E[j].session = D[j].session

------------------------------------------------------------------------------
\* Names: 0 is no job and no destination, and a job is no request.
LEMMA Names ==
    /\ 0 \notin Jobs /\ 0 \notin Destinations /\ New \notin Destinations
    /\ Jobs \subseteq Nat \ {0} /\ Jobs \subseteq Destinations
    /\ Requests \cap Jobs = {}
    /\ Sessions \cap Jobs = {}
BY ConstantsAssumption, NamesAssumption DEF Jobs, Destinations, New

\* A row is absent, or has one of the statuses.
LEMMA RowFacts ==
    ASSUME NEW row \in Rows
    PROVE  /\ row = NoRow <=> row.status = "none"
           /\ row # NoRow <=> row \in Row
           /\ row.status \in {"none"} \cup ActiveStatus \cup FinalStatus
           /\ IsActive(row) => row \in Row
           /\ row.status \in Reported => row \in Row
           /\ row.session \in Destinations \cup {New}
           /\ row.note \in {"none", "unsent", "sent"}
           /\ row.final \in BOOLEAN /\ row.text \in BOOLEAN
<1>1. CASE row = NoRow
  <2>1. NoRow \notin Row
    BY DEF Row, NoRow, ActiveStatus, FinalStatus
  <2> QED
    BY <1>1, <2>1 DEF NoRow, IsActive, ActiveStatus, FinalStatus, Reported
<1>2. CASE row \in Row
  BY <1>2 DEF Row, NoRow, ActiveStatus, FinalStatus, IsActive, Reported
<1> QED
  BY <1>1, <1>2 DEF Rows

\* The rows that stand for none satisfy what is asked of a row.
LEMMA NoRowFacts ==
    ASSUME NEW j, NEW D, NEW R
    PROVE  /\ NoRow \in Rows /\ RowOK(NoRow, j, D, R)
           /\ ~IsActive(NoRow) /\ NoRow.status = "none" /\ NoRow.source = New
           /\ NoRow.session = New
BY Names DEF Rows, NoRow, RowOK, IsActive, ActiveStatus, Reported, New

\* What is said of a job stays true while the table grows.
LEMMA GrowRow ==
    ASSUME NEW j \in Jobs, NEW row \in Rows, NEW D, NEW E, NEW R, NEW S,
           RowOK(row, j, D, R), Extends(D, E), R \subseteq S, D \in Table
    PROVE  RowOK(row, j, E, S)
<1>1. CASE row.session \in Jobs
  <2>1. D[row.session].session = row.session
    BY <1>1 DEF RowOK
  <2>2. D[row.session] # NoRow /\ D[row.session].session # New
    BY <1>1, <2>1, Names, NoRowFacts DEF New
  <2>3. E[row.session].session = row.session
    BY <1>1, <2>1, <2>2 DEF Extends
  <2> QED
    BY <2>3 DEF RowOK
<1>2. CASE row.session \notin Jobs
  BY <1>2 DEF RowOK
<1> QED
  BY <1>1, <1>2

LEMMA GrowJob ==
    ASSUME NEW ph, NEW o \in Operation, NEW row \in Rows, NEW j \in Jobs,
           NEW D \in Table, NEW E, NEW R, NEW S,
           JobOK(ph, o, row, j, D, R), Extends(D, E), R \subseteq S,
           o.pc = "label" => E[j] = NoRow
    PROVE  JobOK(ph, o, row, j, E, S)
<1>1. RowOK(row, j, E, S)
  BY GrowRow DEF JobOK
<1>2. o.own \in Rows
  BY DEF Operation, Rows
<1>3. RowOK(o.own, j, E, S)
  BY <1>2, GrowRow DEF JobOK
<1>4. ASSUME o.pc = "label"
      PROVE  \A i \in Jobs : i < j => E[i] # NoRow
  BY <1>4 DEF JobOK, Extends
<1>5. o.pc \notin {"idle", "label"} => E[j] # NoRow
  BY DEF JobOK, Extends
<1>6. ASSUME Reports(o)
      PROVE  Same(HeldRow(o, row), E[j])
  <2>1. HeldRow(o, row).status \in Reported /\ Same(HeldRow(o, row), D[j])
    BY <1>6 DEF JobOK
  <2>2. D[j].status \in FinalStatus /\ D[j] # NoRow
    BY <2>1, NoRowFacts DEF Same, Reported, FinalStatus
  <2> QED
    BY <2>1, <2>2 DEF Same, Extends
<1> QED
  BY <1>1, <1>3, <1>4, <1>5, <1>6 DEF JobOK

LEMMA Grow ==
    ASSUME NEW P, NEW D \in Table, NEW E, NEW R, NEW S,
           Inner(P, D, R), Extends(D, E), R \subseteq S,
           \A j \in Jobs : P.op[j].pc = "label" => E[j] = NoRow
    PROVE  Inner(P, E, S)
<1>1. ASSUME NEW j \in Jobs
      PROVE  JobOK(P.phase, P.op[j], P.jobs[j], j, E, S)
  <2>1. P.op[j] \in Operation /\ P.jobs[j] \in Rows
    BY DEF Inner, ProcState
  <2>2. JobOK(P.phase, P.op[j], P.jobs[j], j, D, R)
    BY DEF Inner
  <2> QED
    BY <2>1, <2>2, GrowJob
<1> QED
  BY <1>1 DEF Inner

------------------------------------------------------------------------------
\* A step that starts nothing: no row, run or label comes to be, and a report
\* belongs to a run that was under way.
Quiet(P, Q, D, E) == \A j \in Jobs :
    /\ D[j] = NoRow => E[j] = NoRow
    /\ Q.op[j].pc = "label" => Q.op[j] = P.op[j]
    /\ Runs(Q.op[j]) => Runs(P.op[j])
    /\ E[j].status \in Reported => D[j].status \in Reported \/ Runs(P.op[j])

\* The table grew by no row.
LEMMA TableStays ==
    ASSUME NEW D, NEW E \in Table, NEW R, NEW S,
           TableOK(D, R), Extends(D, E), R \subseteq S,
           \A j \in Jobs : D[j] = NoRow => E[j] = NoRow,
           \A j \in Jobs : RowOK(E[j], j, E, S)
    PROVE  TableOK(E, S)
<1>1. ASSUME NEW i \in Jobs, NEW j \in Jobs, E[j] # NoRow, i < j
      PROVE  E[i] # NoRow
  BY <1>1 DEF TableOK, Extends
<1>2. ASSUME NEW j \in Jobs, NEW k \in Jobs, E[j] # NoRow, k # j
      PROVE  E[k].source # E[j].source
  <2>1. D[j] # NoRow /\ D[k].source # D[j].source /\ E[j].source = D[j].source
    BY <1>2 DEF TableOK, Extends
  <2>2. CASE D[k] # NoRow
    BY <2>1, <2>2 DEF Extends
  <2>3. CASE D[k] = NoRow
    BY <2>1, <2>3
  <2> QED
    BY <2>2, <2>3
<1> QED
  BY <1>1, <1>2 DEF TableOK

\* The table with a row of j.
Put(D, j, row) == [D EXCEPT ![j] = row]

\* One row was written in place.
LEMMA RowStays ==
    ASSUME NEW D, NEW R, NEW S, NEW j \in Jobs, NEW row \in Row, NEW E,
           TableOK(D, R), R \subseteq S, E = Put(D, j, row),
           D[j] # NoRow, RowOK(row, j, E, S), Extends(D, E)
    PROVE  TableOK(E, S) /\ E \in Table
<1>1. D \in Table
  BY DEF TableOK
<1>2. E \in Table /\ E[j] = row /\ \A k \in Jobs \ {j} : E[k] = D[k]
  BY <1>1 DEF Table, Rows, Put
<1>3. ASSUME NEW k \in Jobs, k # j
      PROVE  RowOK(E[k], k, E, S)
  <2>1. D[k] \in Rows /\ RowOK(D[k], k, D, R)
    BY <1>1 DEF Table, TableOK
  <2> QED
    BY <1>1, <1>2, <1>3, <2>1, GrowRow
<1>4. \A k \in Jobs : RowOK(E[k], k, E, S)
  BY <1>2, <1>3
<1>5. \A k \in Jobs : D[k] = NoRow => E[k] = NoRow
  BY <1>2
<1> QED
  BY <1>2, <1>4, <1>5, TableStays

\* While one process acts, no other runs or reads a label.
LEMMA OneActs ==
    ASSUME NEW procs, NEW D, NEW R, ProcsOK(procs, D, R),
           NEW p \in Processes, NEW q \in Processes, p # q, Acts(procs[p])
    PROVE  /\ ~Acts(procs[q])
           /\ \A j \in Jobs : ~Runs(procs[q].op[j]) /\ procs[q].op[j].pc # "label"
<1>1. p < q \/ q < p
  BY ConstantsAssumption DEF Processes
<1>2. ~Acts(procs[q])
  BY <1>1 DEF ProcsOK, LineOK, Acts
<1>3. Inner(procs[q], D, R)
  BY DEF ProcsOK
<1> QED
  BY <1>2, <1>3 DEF Inner, JobOK, Acts

LEMMA LineStays ==
    ASSUME NEW procs, NEW new, LineOK(procs), NEW p \in Processes,
           \A q \in Processes \ {p} : new[q] = procs[q],
           Acts(new[p]) \/ new[p].phase = "unborn" => Acts(procs[p]),
           procs[p].phase # "unborn"
    PROVE  LineOK(new)
BY DEF LineOK

LEMMA QuietStep ==
    ASSUME NEW procs, NEW D, NEW R, NEW p \in Processes, NEW Q, NEW E, NEW S,
           TableOK(D, R), ProcsOK(procs, D, R),
           E \in Table, Extends(D, E), R \subseteq S,
           Inner(Q, E, S), Matches(Q, E),
           \/ \A q \in Processes \ {p} : ~Acts(procs[q])
           \/ \A j \in Jobs : Same(D[j], E[j]),
           LineOK([procs EXCEPT ![p] = Q]),
           Quiet(procs[p], Q, D, E)
    PROVE  ProcsOK([procs EXCEPT ![p] = Q], E, S)
<1> DEFINE new == [procs EXCEPT ![p] = Q]
<1>1. procs \in [Processes -> ProcState] /\ Q \in ProcState
  BY DEF ProcsOK, Inner
<1>2. /\ new \in [Processes -> ProcState]
      /\ new[p] = Q /\ \A q \in Processes \ {p} : new[q] = procs[q]
      /\ LineOK(new)
  BY <1>1
<1> HIDE DEF new
<1>3. D \in Table
  BY DEF TableOK
<1>4. ASSUME NEW q \in Processes
      PROVE  Inner(new[q], E, S) /\ Matches(new[q], E)
  <2>1. CASE q = p
    BY <2>1, <1>2
  <2>2. CASE q # p
    <3>1. new[q] = procs[q] /\ Inner(procs[q], D, R) /\ Matches(procs[q], D)
      BY <1>2, <2>2 DEF ProcsOK
    <3>2. \A j \in Jobs : procs[q].op[j].pc = "label" => E[j] = NoRow
      BY <3>1 DEF Inner, JobOK, Quiet
    <3>3. Inner(new[q], E, S)
      BY <1>3, <3>1, <3>2, Grow
    <3>4. CASE \A r \in Processes \ {p} : ~Acts(procs[r])
      BY <2>2, <3>1, <3>3, <3>4 DEF Matches
    <3>5. CASE \A j \in Jobs : Same(D[j], E[j])
      BY <3>1, <3>3, <3>5 DEF Matches, Same
    <3> QED
      BY <3>3, <3>4, <3>5, <3>1
  <2> QED
    BY <2>1, <2>2
<1>6. ASSUME NEW i, SourceOK(i, D, procs)
      PROVE  SourceOK(i, E, new)
  <2> SUFFICES ASSUME i \in Jobs
               PROVE  /\ E[i] # NoRow /\ E[i].status \notin Reported
                      /\ \A q \in Processes : ~Runs(new[q].op[i])
    BY DEF SourceOK
  <2>1. /\ D[i] # NoRow /\ D[i].status \notin Reported
        /\ \A q \in Processes : ~Runs(procs[q].op[i])
    BY <1>6 DEF SourceOK
  <2>2. \A q \in Processes : ~Runs(new[q].op[i])
    BY <2>1, <1>2 DEF Quiet
  <2> QED
    BY <2>1, <2>2 DEF Quiet, Extends
<1>7. \A k \in Jobs : E[k].source = D[k].source
  BY DEF Quiet, Extends
<1>8. \A q \in Processes, j \in Jobs :
          new[q].op[j].pc = "label" => procs[q].op[j] = new[q].op[j]
  BY <1>2 DEF Quiet
<1>9. SourcesOK(D, procs)
  BY DEF ProcsOK
<1>10. SourcesOK(E, new)
  <2>1. ASSUME NEW k \in Jobs
        PROVE  SourceOK(E[k].source, E, new)
    BY <1>6, <1>7, <1>9 DEF SourcesOK
  <2>2. ASSUME NEW q \in Processes, NEW j \in Jobs, new[q].op[j].pc = "label"
        PROVE  /\ SourceOK(new[q].op[j].own.source, E, new)
               /\ \A k \in Jobs : E[k].source # new[q].op[j].own.source
    BY <2>2, <1>6, <1>7, <1>8, <1>9 DEF SourcesOK
  <2> QED
    BY <2>1, <2>2 DEF SourcesOK
<1>11. ProcsOK(new, E, S)
  BY <1>2, <1>4, <1>10 DEF ProcsOK
<1> QED
  BY <1>11 DEF new

------------------------------------------------------------------------------
\* Operations that differ at most in what they wait for.
Alike(o, u) == /\ o.pc = u.pc /\ o.queued = u.queued
               /\ o.aborted = u.aborted /\ o.own = u.own

LEMMA IdleFacts ==
    /\ Idle \in Operation /\ Idle.pc = "idle" /\ Idle.queued = FALSE /\ Idle.aborted = FALSE
    /\ Idle.ahead = 0 /\ Idle.own = NoRow
BY DEF Idle, Operation

\* An operation is known by its fields.
LEMMA SameOperation ==
    ASSUME NEW o \in Operation, NEW u \in Operation, Alike(o, u), o.ahead = u.ahead
    PROVE  o = u
BY DEF Alike, Operation

LEMMA AlikeJob ==
    ASSUME NEW ph, NEW o \in Operation, NEW u \in Operation, NEW row, NEW j, NEW D, NEW R,
           JobOK(ph, o, row, j, D, R), Alike(o, u), u.ahead = o.ahead \/ u.ahead = 0
    PROVE  JobOK(ph, u, row, j, D, R)
<1>1. o.pc = "idle" => u = Idle
  <2> SUFFICES ASSUME o.pc = "idle"
               PROVE  u = Idle
    OBVIOUS
  <2>1. o = Idle
    BY DEF JobOK
  <2>2. u.ahead = o.ahead
    BY <2>1, IdleFacts
  <2> QED
    BY <2>1, <2>2, SameOperation
<1>2. HeldRow(u, row) = HeldRow(o, row)
  BY DEF Alike, HeldRow
<1>3. Runs(u) <=> Runs(o)
  BY DEF Alike, Runs
<1>4. Reports(u) <=> Reports(o)
  BY DEF Alike, Reports
<1> QED
  BY <1>1, <1>2, <1>3, <1>4 DEF JobOK, Alike

\* A step about job j: the others keep what they do.
LEMMA MoveOne ==
    ASSUME NEW P, NEW Q, NEW j \in Jobs, NEW D, NEW R, Inner(P, D, R),
           Q \in ProcState, Q.phase = P.phase,
           P.phase \notin {"unborn", "down"},
           ~Acts(Q) => Q.marking = {},
           \A k \in Jobs \ {j} : /\ Q.jobs[k] = P.jobs[k]
                                 /\ Alike(P.op[k], Q.op[k])
                                 /\ Q.op[k].ahead = P.op[k].ahead \/ Q.op[k].ahead = 0,
           JobOK(Q.phase, Q.op[j], Q.jobs[j], j, D, R),
           Q.op[j].pc # "label",
           QueueOK(Q)
    PROVE  Inner(Q, D, R)
<1>1. ASSUME NEW k \in Jobs, k # j
      PROVE  JobOK(Q.phase, Q.op[k], Q.jobs[k], k, D, R)
  <2>1. P.op[k] \in Operation /\ Q.op[k] \in Operation
    BY DEF Inner, ProcState
  <2>2. JobOK(P.phase, P.op[k], P.jobs[k], k, D, R)
    BY DEF Inner
  <2> QED
    BY <1>1, <2>1, <2>2, AlikeJob
<1>2. \A k \in Jobs : JobOK(Q.phase, Q.op[k], Q.jobs[k], k, D, R)
  BY <1>1
<1>3. OneLabel(Q)
  BY DEF OneLabel, Alike, Inner
<1> QED
  BY <1>2, <1>3 DEF Inner

\* Places are kept, and a place at the tail is given up only behind the runs.
LEMMA QueueStays ==
    ASSUME NEW P \in ProcState, NEW Q \in ProcState, QueueOK(P),
           \A k \in Jobs :
               /\ Q.op[k].queued = P.op[k].queued /\ Q.op[k].ahead = P.op[k].ahead
               /\ P.op[k].queued \/ P.op[k].ahead # 0 =>
                      HeldRow(Q.op[k], Q.jobs[k]).session = HeldRow(P.op[k], P.jobs[k]).session
               /\ Runs(Q.op[k]) => Runs(P.op[k]),
           \A s \in Destinations :
               \/ Q.tail[s] = P.tail[s]
               \/ Q.tail[s] = 0 /\ \A l \in Jobs : ~(Runs(Q.op[l]) /\ Places(P, l, s))
    PROVE  QueueOK(Q)
<1>1. ASSUME NEW k \in Jobs, NEW s
      PROVE  Places(Q, k, s) <=> Places(P, k, s)
  BY DEF Places
<1>2. P.tail \in [Destinations -> Jobs \cup {0}] /\ \A k \in Jobs : P.op[k].ahead \in Jobs \cup {0}
  BY DEF ProcState, Operation
<1>3. \A s \in Destinations : Q.tail[s] # 0 => Places(Q, Q.tail[s], s)
  <2> TAKE s \in Destinations
  <2> HAVE Q.tail[s] # 0
  <2>1. Q.tail[s] = P.tail[s] /\ P.tail[s] \in Jobs
    BY <1>2
  <2>2. Places(P, P.tail[s], s)
    BY <2>1, Names DEF QueueOK
  <2> QED
    BY <1>1, <2>1, <2>2
<1>4. \A k \in Jobs : Q.op[k].ahead # 0 =>
           /\ Q.op[k].ahead < k
           /\ HeldRow(Q.op[k], Q.jobs[k]).session \in Destinations
           /\ Places(Q, Q.op[k].ahead, HeldRow(Q.op[k], Q.jobs[k]).session)
  <2> TAKE k \in Jobs
  <2> HAVE Q.op[k].ahead # 0
  <2>1. /\ Q.op[k].ahead = P.op[k].ahead /\ P.op[k].ahead \in Jobs
        /\ HeldRow(Q.op[k], Q.jobs[k]).session = HeldRow(P.op[k], P.jobs[k]).session
    BY <1>2
  <2>2. /\ P.op[k].ahead < k
        /\ HeldRow(P.op[k], P.jobs[k]).session \in Destinations
        /\ Places(P, P.op[k].ahead, HeldRow(P.op[k], P.jobs[k]).session)
    BY <2>1, Names DEF QueueOK
  <2> QED
    BY <1>1, <2>1, <2>2
<1>5. \A s \in Destinations, l \in Jobs :
           Runs(Q.op[l]) /\ Places(Q, l, s) => l <= Q.tail[s]
  BY <1>1 DEF QueueOK
<1>6. \A s \in Destinations, l, k \in Jobs :
           Runs(Q.op[l]) /\ Places(Q, l, s) /\ Places(Q, k, s) /\ l < k => l <= Q.op[k].ahead
  BY <1>1 DEF QueueOK
<1> QED
  BY <1>3, <1>4, <1>5, <1>6 DEF QueueOK

\* A run whose turn it is has none of its session before it.
LEMMA FirstInQueue ==
    ASSUME NEW P \in ProcState, QueueOK(P), NEW j \in Jobs, P.op[j].ahead = 0,
           NEW s \in Destinations, Places(P, j, s), NEW l \in Jobs, l < j
    PROVE  ~(Runs(P.op[l]) /\ Places(P, l, s))
BY Names DEF QueueOK

\* The run of j ends.
LEMMA EndedFacts ==
    ASSUME NEW P \in ProcState, NEW j \in Jobs, NEW Q, Q = Ended(P, j)
    PROVE  /\ Q \in ProcState
           /\ Q.phase = P.phase /\ Q.jobs = P.jobs /\ Q.marking = P.marking
           /\ Q.op[j] = Idle
           /\ \A k \in Jobs \ {j} :
                  /\ Alike(P.op[k], Q.op[k])
                  /\ Q.op[k].ahead = IF P.op[k].ahead = j THEN 0 ELSE P.op[k].ahead
           /\ \A s \in Destinations : Q.tail[s] = IF P.tail[s] = j THEN 0 ELSE P.tail[s]
<1> DEFINE op == [k \in Jobs |-> CASE k = j -> Idle
                                   [] k # j /\ P.op[k].ahead = j -> [P.op[k] EXCEPT !.ahead = 0]
                                   [] OTHER -> P.op[k]]
           tail == [s \in Destinations |-> IF P.tail[s] = j THEN 0 ELSE P.tail[s]]
<1>1. ASSUME NEW k \in Jobs, k # j
      PROVE  /\ op[k] \in Operation
             /\ Alike(P.op[k], op[k])
             /\ op[k].ahead = IF P.op[k].ahead = j THEN 0 ELSE P.op[k].ahead
  <2>1. P.op[k] \in Operation
    BY DEF ProcState
  <2>2. CASE P.op[k].ahead = j
    <3>1. op[k] = [P.op[k] EXCEPT !.ahead = 0]
      BY <1>1, <2>2
    <3> QED
      BY <2>1, <2>2, <3>1 DEF Operation, Alike
  <2>3. CASE P.op[k].ahead # j
    <3>1. op[k] = P.op[k]
      BY <1>1, <2>3
    <3> QED
      BY <2>1, <2>3, <3>1 DEF Alike
  <2> QED
    BY <2>2, <2>3
<1>2. op[j] = Idle /\ Idle \in Operation
  BY IdleFacts
<1>3. op \in [Jobs -> Operation]
  BY <1>1, <1>2
<1>4. tail \in [Destinations -> Jobs \cup {0}]
  BY DEF ProcState
<1>5. Q = [P EXCEPT !.op = op, !.tail = tail]
  BY DEF Ended
<1>6. \A s \in Destinations : tail[s] = IF P.tail[s] = j THEN 0 ELSE P.tail[s]
  OBVIOUS
<1> HIDE DEF op, tail
<1>7. /\ Q \in ProcState /\ Q.phase = P.phase /\ Q.jobs = P.jobs /\ Q.marking = P.marking
      /\ Q.op = op /\ Q.tail = tail
  BY <1>3, <1>4, <1>5 DEF ProcState
<1> QED
  BY <1>1, <1>2, <1>6, <1>7

LEMMA EndedQueue ==
    ASSUME NEW P \in ProcState, QueueOK(P), NEW j \in Jobs, P.op[j].ahead = 0
    PROVE  QueueOK(Ended(P, j))
<1> DEFINE Q == Ended(P, j)
<1>2. /\ Q \in ProcState
      /\ Q.phase = P.phase /\ Q.jobs = P.jobs /\ Q.marking = P.marking
      /\ Q.op[j] = Idle
      /\ \A k \in Jobs \ {j} :
             /\ Alike(P.op[k], Q.op[k])
             /\ Q.op[k].ahead = IF P.op[k].ahead = j THEN 0 ELSE P.op[k].ahead
      /\ \A s \in Destinations : Q.tail[s] = IF P.tail[s] = j THEN 0 ELSE P.tail[s]
  BY EndedFacts
<1> HIDE DEF Q
<1>3. ASSUME NEW k \in Jobs, NEW s
      PROVE  Places(Q, k, s) <=> k # j /\ Places(P, k, s)
  BY <1>2, IdleFacts DEF Places, HeldRow, Alike
<1>4. ASSUME NEW k \in Jobs
      PROVE  Runs(Q.op[k]) <=> k # j /\ Runs(P.op[k])
  BY <1>2, IdleFacts DEF Runs, Alike
<1>5. P.tail \in [Destinations -> Jobs \cup {0}] /\ \A k \in Jobs : P.op[k].ahead \in Jobs \cup {0}
  BY DEF ProcState, Operation
<1>6. \A k \in Jobs \ {j} : HeldRow(Q.op[k], Q.jobs[k]) = HeldRow(P.op[k], P.jobs[k])
  BY <1>2 DEF HeldRow, Alike
<1>7. \A s \in Destinations : Q.tail[s] # 0 => Places(Q, Q.tail[s], s)
  <2> TAKE s \in Destinations
  <2> HAVE Q.tail[s] # 0
  <2>1. Q.tail[s] = P.tail[s] /\ P.tail[s] \in Jobs /\ P.tail[s] # j
    BY <1>2, <1>5
  <2>2. Places(P, P.tail[s], s)
    BY <2>1, Names DEF QueueOK
  <2> QED
    BY <1>3, <2>1, <2>2
<1>8. \A k \in Jobs : Q.op[k].ahead # 0 =>
           /\ Q.op[k].ahead < k
           /\ HeldRow(Q.op[k], Q.jobs[k]).session \in Destinations
           /\ Places(Q, Q.op[k].ahead, HeldRow(Q.op[k], Q.jobs[k]).session)
  <2> TAKE k \in Jobs
  <2> HAVE Q.op[k].ahead # 0
  <2>1. k # j /\ Q.op[k].ahead = P.op[k].ahead /\ P.op[k].ahead \in Jobs \ {j}
    BY <1>2, <1>5, IdleFacts
  <2>2. /\ P.op[k].ahead < k
        /\ HeldRow(P.op[k], P.jobs[k]).session \in Destinations
        /\ Places(P, P.op[k].ahead, HeldRow(P.op[k], P.jobs[k]).session)
    BY <2>1, Names DEF QueueOK
  <2> QED
    BY <1>3, <1>6, <2>1, <2>2
<1>9. \A s \in Destinations, l \in Jobs :
           Runs(Q.op[l]) /\ Places(Q, l, s) => l <= Q.tail[s]
  <2> TAKE s \in Destinations, l \in Jobs
  <2> HAVE Runs(Q.op[l]) /\ Places(Q, l, s)
  <2>1. l # j /\ Runs(P.op[l]) /\ Places(P, l, s) /\ l <= P.tail[s]
    BY <1>3, <1>4 DEF QueueOK
  <2>2. CASE P.tail[s] = j
    <3>1. Places(P, j, s) /\ l < j
      BY <2>1, <2>2, Names DEF QueueOK
    <3> QED
      BY <2>1, <3>1, FirstInQueue
  <2> QED
    BY <1>2, <2>1, <2>2
<1>10. \A s \in Destinations, l, k \in Jobs :
           Runs(Q.op[l]) /\ Places(Q, l, s) /\ Places(Q, k, s) /\ l < k => l <= Q.op[k].ahead
  <2> TAKE s \in Destinations, l, k \in Jobs
  <2> HAVE Runs(Q.op[l]) /\ Places(Q, l, s) /\ Places(Q, k, s) /\ l < k
  <2>1. /\ l # j /\ Runs(P.op[l]) /\ Places(P, l, s)
        /\ k # j /\ Places(P, k, s) /\ l <= P.op[k].ahead
    BY <1>3, <1>4 DEF QueueOK
  <2>2. CASE P.op[k].ahead = j
    <3>1. Places(P, j, s) /\ l < j
      BY <2>1, <2>2, Names DEF QueueOK, Places
    <3> QED
      BY <2>1, <3>1, FirstInQueue
  <2> QED
    BY <1>2, <2>1, <2>2
<1>11. QueueOK(Q)
  BY <1>7, <1>8, <1>9, <1>10 DEF QueueOK
<1> QED
  BY <1>11 DEF Q

LEMMA EndedMoves ==
    ASSUME NEW P, NEW D, NEW R, Inner(P, D, R), NEW j \in Jobs,
           P.op[j].ahead = 0, P.op[j].pc # "idle"
    PROVE  Inner(Ended(P, j), D, R)
<1> DEFINE Q == Ended(P, j)
<1>1. P \in ProcState /\ QueueOK(P)
  BY DEF Inner
<1>2. /\ Q \in ProcState
      /\ Q.phase = P.phase /\ Q.jobs = P.jobs /\ Q.marking = P.marking
      /\ Q.op[j] = Idle
      /\ \A k \in Jobs \ {j} :
             /\ Alike(P.op[k], Q.op[k])
             /\ Q.op[k].ahead = IF P.op[k].ahead = j THEN 0 ELSE P.op[k].ahead
  BY <1>1, EndedFacts
<1>11. QueueOK(Q)
  BY <1>1, EndedQueue
<1> HIDE DEF Q
<1>12. JobOK(Q.phase, Q.op[j], Q.jobs[j], j, D, R)
  <2>1. RowOK(P.jobs[j], j, D, R)
    BY DEF Inner, JobOK
  <2> QED
    BY <1>2, <2>1, IdleFacts, NoRowFacts DEF JobOK, Runs, Reports
<1>13. P.phase \notin {"unborn", "down"}
  BY IdleFacts DEF Inner, Unborn
<1>14. Acts(Q) <=> Acts(P)
  BY <1>2 DEF Acts
<1>15. Inner(Q, D, R)
  BY <1>2, <1>11, <1>12, <1>13, <1>14, MoveOne, IdleFacts DEF Inner
<1> QED
  BY <1>15 DEF Q

------------------------------------------------------------------------------
\* What the invariant says of one process.
LEMMA AtRest ==
    ASSUME IInv, NEW p \in Processes
    PROVE  /\ disk \in Table /\ TableOK(disk, replied) /\ ProcsOK(proc, disk, replied)
           /\ Inner(proc[p], disk, replied) /\ Matches(proc[p], disk)
           /\ proc[p] \in ProcState /\ QueueOK(proc[p])
           /\ \A j \in Jobs : /\ disk[j] \in Rows /\ RowOK(disk[j], j, disk, replied)
                              /\ proc[p].op[j] \in Operation /\ proc[p].jobs[j] \in Rows
                              /\ JobOK(proc[p].phase, proc[p].op[j], proc[p].jobs[j], j, disk, replied)
                              /\ proc[p].op[j].pc # "idle" => proc[p].phase \notin {"unborn", "down"}
<1>1. /\ disk \in Table /\ TableOK(disk, replied) /\ ProcsOK(proc, disk, replied)
      /\ Inner(proc[p], disk, replied) /\ Matches(proc[p], disk)
      /\ proc[p] \in ProcState /\ QueueOK(proc[p])
      /\ \A j \in Jobs : JobOK(proc[p].phase, proc[p].op[j], proc[p].jobs[j], j, disk, replied)
  BY DEF IInv, TableOK, ProcsOK, Inner
<1>2. \A j \in Jobs : disk[j] \in Rows /\ RowOK(disk[j], j, disk, replied)
  BY <1>1 DEF Table, TableOK
<1>3. \A j \in Jobs : proc[p].op[j] \in Operation /\ proc[p].jobs[j] \in Rows
  BY <1>1 DEF ProcState
<1>4. \A j \in Jobs : proc[p].op[j].pc # "idle" => proc[p].phase \notin {"unborn", "down"}
  BY <1>1, IdleFacts DEF Inner, Unborn
<1> QED
  BY <1>1, <1>2, <1>3, <1>4

\* The variables that hold no job state.
OthersOK == /\ resume \in [Jobs -> {"none", "asked", "done"}]
            /\ ask \subseteq Jobs /\ told \subseteq Jobs /\ replied \subseteq Jobs
            /\ faults \in 0 .. MaxFaults

\* Process p becomes Q.
Becomes(p, Q) == proc' = [proc EXCEPT ![p] = Q]

\* A step of one process that starts nothing.
LEMMA ProcessStep ==
    ASSUME IInv, NEW p \in Processes, NEW Q, Becomes(p, Q),
           OthersOK', replied \subseteq replied', told' = told,
           TableOK(disk', replied'), Extends(disk, disk'),
           Inner(Q, disk', replied'), Matches(Q, disk'),
           Acts(proc[p]) \/ \A j \in Jobs : Same(disk[j], disk'[j]),
           Acts(Q) \/ Q.phase = "unborn" => Acts(proc[p]),
           proc[p].phase # "unborn",
           Quiet(proc[p], Q, disk, disk')
    PROVE  IInv'
<1>1. disk' \in Table
  BY DEF TableOK
<1>2. ProcsOK(proc', disk', replied')
  <2>1. /\ TableOK(disk, replied) /\ ProcsOK(proc, disk, replied)
        /\ proc \in [Processes -> ProcState] /\ LineOK(proc)
    BY AtRest DEF ProcsOK
  <2>2. \/ \A q \in Processes \ {p} : ~Acts(proc[q])
        \/ \A j \in Jobs : Same(disk[j], disk'[j])
    BY <2>1, OneActs
  <2>3. LineOK([proc EXCEPT ![p] = Q])
    <3> DEFINE new == [proc EXCEPT ![p] = Q]
    <3>1. new[p] = Q /\ \A q \in Processes \ {p} : new[q] = proc[q]
      BY <2>1
    <3> HIDE DEF new
    <3>2. LineOK(new)
      BY <2>1, <3>1, LineStays
    <3> QED
      BY <3>2 DEF new
  <2>4. ProcsOK([proc EXCEPT ![p] = Q], disk', replied')
    BY <1>1, <2>1, <2>2, <2>3, QuietStep
  <2> QED
    BY <2>4 DEF Becomes
<1>3. \A j \in told' : disk'[j] # NoRow
  BY DEF IInv, Extends
<1> QED
  BY <1>2, <1>3 DEF IInv, OthersOK

\* What a step about job j may do to the process and to the row of j.
StepsAbout(P, Q, j) ==
    /\ Q \in ProcState /\ Q.phase = P.phase
    /\ P.phase \notin {"unborn", "down"}
    /\ ~Acts(Q) => Q.marking = {}
    /\ \A k \in Jobs \ {j} : /\ Q.jobs[k] = P.jobs[k]
                             /\ Alike(P.op[k], Q.op[k])
                             /\ Q.op[k].ahead = P.op[k].ahead \/ Q.op[k].ahead = 0
    /\ Q.op[j].pc # "label"
    /\ Runs(Q.op[j]) => Runs(P.op[j])
    /\ QueueOK(Q)

Writes(D, E, j, R) ==
    \/ E = D
    \/ /\ D[j] # NoRow
       /\ \E row \in Row : E = Put(D, j, row) /\ RowOK(row, j, E, R)

\* The table and the process agree about job j.
Agrees(P, Q, j, D, E, R) ==
    /\ Extends(D, E) /\ Writes(D, E, j, R)
    /\ JobOK(Q.phase, Q.op[j], Q.jobs[j], j, E, R)
    /\ Acts(P) => Same(Q.jobs[j], E[j])
    /\ Acts(P) \/ Same(D[j], E[j])
    /\ E[j].status \in Reported => D[j].status \in Reported \/ Runs(P.op[j])

LEMMA JobStep ==
    ASSUME IInv, NEW p \in Processes, NEW j \in Jobs, NEW Q, Becomes(p, Q),
           OthersOK', replied \subseteq replied', told' = told,
           StepsAbout(proc[p], Q, j),
           Agrees(proc[p], Q, j, disk, disk', replied')
    PROVE  IInv'
<1> DEFINE P == proc[p]
<1>1. /\ disk \in Table /\ TableOK(disk, replied)
      /\ Inner(P, disk, replied) /\ Matches(P, disk)
      /\ P \in ProcState
      /\ \A k \in Jobs : /\ disk[k] \in Rows /\ RowOK(disk[k], k, disk, replied)
                         /\ P.op[k] \in Operation
                         /\ JobOK(P.phase, P.op[k], P.jobs[k], k, disk, replied)
  BY AtRest
<1>0. /\ Extends(disk, disk') /\ Writes(disk, disk', j, replied')
      /\ JobOK(Q.phase, Q.op[j], Q.jobs[j], j, disk', replied')
      /\ Acts(P) => Same(Q.jobs[j], disk'[j])
      /\ Acts(P) \/ Same(disk[j], disk'[j])
      /\ disk'[j].status \in Reported => disk[j].status \in Reported \/ Runs(P.op[j])
  BY DEF Agrees
<1> HIDE DEF P
<1>2. \A k \in Jobs \ {j} : disk'[k] = disk[k]
  BY <1>0, <1>1 DEF Table, Writes, Put
<1>3. \A k \in Jobs : disk[k] = NoRow => disk'[k] = NoRow
  BY <1>0, <1>1 DEF Table, Writes, Put
<1>4. TableOK(disk', replied')
  <2>1. CASE disk' = disk
    <3>1. \A k \in Jobs : RowOK(disk'[k], k, disk', replied')
      BY <1>0, <1>1, <2>1, GrowRow
    <3> QED
      BY <1>0, <1>1, <1>3, <2>1, <3>1, TableStays
  <2>2. CASE disk' # disk
    <3>1. PICK row \in Row : /\ disk' = Put(disk, j, row)
                             /\ RowOK(row, j, disk', replied')
      BY <1>0, <2>2 DEF Writes
    <3>2. disk[j] # NoRow
      BY <1>0, <2>2 DEF Writes
    <3> QED
      BY <1>0, <1>1, <3>1, <3>2, RowStays
  <2> QED
    BY <1>0, <2>1, <2>2
<1>5. \A k \in Jobs : P.op[k].pc = "label" => disk'[k] = NoRow
  BY <1>0, <1>1, <1>3 DEF JobOK
<1>6. Inner(P, disk', replied')
  BY <1>0, <1>1, <1>5, Grow
<1>7. Inner(Q, disk', replied')
  BY <1>0, <1>6, MoveOne DEF StepsAbout, P
<1>8. Acts(Q) <=> Acts(P)
  BY <1>0 DEF StepsAbout, Acts, P
<1>9. Matches(Q, disk')
  <2>1. ASSUME NEW k \in Jobs, k # j, Acts(P)
        PROVE  Same(Q.jobs[k], disk'[k])
    BY <1>0, <1>1, <1>2, <2>1 DEF StepsAbout, Matches, P
  <2> QED
    BY <1>0, <1>8, <2>1 DEF Matches, P
<1>10. Quiet(P, Q, disk, disk')
  <2>1. ASSUME NEW k \in Jobs, Q.op[k].pc = "label"
        PROVE  Q.op[k] = P.op[k]
    <3>1. k # j /\ Alike(P.op[k], Q.op[k]) /\ P.op[k].pc = "label"
      BY <1>0, <2>1 DEF StepsAbout, P, Alike
    <3>2. P.op[k].ahead = 0 /\ Q.op[k].ahead = 0
      BY <1>0, <1>1, <3>1 DEF JobOK, StepsAbout, P
    <3>3. P.op[k] \in Operation /\ Q.op[k] \in Operation
      BY <1>0, <1>1 DEF StepsAbout, ProcState
    <3> QED
      BY <1>0, <3>1, <3>2, <3>3, SameOperation
  <2>2. ASSUME NEW k \in Jobs, Runs(Q.op[k])
        PROVE  Runs(P.op[k])
    BY <1>0, <2>2 DEF StepsAbout, P, Alike, Runs
  <2>3. ASSUME NEW k \in Jobs, disk'[k].status \in Reported
        PROVE  disk[k].status \in Reported \/ Runs(P.op[k])
    BY <1>0, <1>2, <2>3 DEF P
  <2> QED
    BY <1>0, <1>3, <2>1, <2>2, <2>3 DEF Quiet
<1>11. Acts(P) \/ \A k \in Jobs : Same(disk[k], disk'[k])
  BY <1>0, <1>2 DEF P, Same
<1>12. Q.phase # "unborn" /\ P.phase # "unborn"
  BY <1>0 DEF StepsAbout, P
<1> QED
  BY <1>0, <1>4, <1>7, <1>8, <1>9, <1>10, <1>11, <1>12, ProcessStep DEF P

------------------------------------------------------------------------------
\* An operation ends and the table stays.
LEMMA EndedStep ==
    ASSUME IInv, NEW p \in Processes, NEW j \in Jobs,
           proc[p].op[j].pc # "idle", proc[p].op[j].ahead = 0,
           Becomes(p, Ended(proc[p], j)),
           OthersOK', replied \subseteq replied', told' = told, disk' = disk
    PROVE  IInv'
<1> DEFINE P == proc[p]
           Q == Ended(P, j)
<1>1. /\ disk \in Table /\ TableOK(disk, replied)
      /\ Inner(P, disk, replied) /\ Matches(P, disk)
      /\ P \in ProcState
      /\ \A k \in Jobs : /\ disk[k] \in Rows
                         /\ P.op[k] \in Operation
                         /\ JobOK(P.phase, P.op[k], P.jobs[k], k, disk, replied)
      /\ P.phase \notin {"unborn", "down"}
  BY AtRest
<1>2. /\ Q \in ProcState
      /\ Q.phase = P.phase /\ Q.jobs = P.jobs /\ Q.marking = P.marking
      /\ Q.op[j] = Idle
      /\ \A k \in Jobs \ {j} :
             /\ Alike(P.op[k], Q.op[k])
             /\ Q.op[k].ahead = IF P.op[k].ahead = j THEN 0 ELSE P.op[k].ahead
  BY <1>1, EndedFacts
<1>3. Inner(Q, disk, replied)
  BY <1>1, EndedMoves
<1>4. QueueOK(Q) /\ JobOK(Q.phase, Q.op[j], Q.jobs[j], j, disk, replied)
  BY <1>3 DEF Inner
<1>5. Becomes(p, Q)
  OBVIOUS
<1> HIDE DEF Q
<1>6. Extends(disk, disk')
  BY DEF Extends
<1>7. JobOK(Q.phase, Q.op[j], Q.jobs[j], j, disk', replied')
  <2>1. Q.op[j] \in Operation /\ Q.jobs[j] \in Rows
    BY <1>2 DEF ProcState
  <2> QED
    BY <1>1, <1>2, <1>4, <1>6, <2>1, GrowJob, IdleFacts
<1>8. StepsAbout(P, Q, j)
  <2>1. ~Acts(Q) => Q.marking = {}
    BY <1>3 DEF Inner
  <2> QED
    BY <1>1, <1>2, <1>4, <2>1, IdleFacts DEF StepsAbout, Runs
<1>9. Writes(disk, disk', j, replied')
  BY DEF Writes
<1>10. Acts(P) => Same(Q.jobs[j], disk'[j])
  BY <1>1, <1>2 DEF Matches
<1>11. Same(disk[j], disk'[j])
  BY DEF Same
<1>12. Agrees(P, Q, j, disk, disk', replied')
  BY <1>6, <1>7, <1>9, <1>10, <1>11 DEF Agrees, Same
<1> QED
  BY <1>5, <1>8, <1>12, JobStep

\* A row is written in place: what the table and the others see of it.
LEMMA WriteFacts ==
    ASSUME NEW D \in Table, NEW j \in Jobs, NEW row \in Row, NEW E,
           E = Put(D, j, row), D[j] # NoRow,
           row.source = D[j].source,
           D[j].session # New => row.session = D[j].session,
           D[j].status \in FinalStatus => row.status = D[j].status /\ row.session = D[j].session
    PROVE  /\ E \in Table /\ E[j] = row /\ Extends(D, E)
           /\ row # NoRow
<1>1. E \in Table /\ E[j] = row /\ \A k \in Jobs \ {j} : E[k] = D[k]
  BY DEF Table, Rows, Put
<1>2. row # NoRow
  BY RowFacts DEF Rows
<1> QED
  BY <1>1, <1>2 DEF Extends

\* A process with a new row of j in its registry and a new operation on it.
Rewritten(P, j, row, o) == [P EXCEPT !.jobs[j] = row, !.op[j] = o]

LEMMA RewrittenFacts ==
    ASSUME NEW P \in ProcState, NEW j \in Jobs, NEW row \in Rows, NEW o \in Operation
    PROVE  /\ Rewritten(P, j, row, o) \in ProcState
           /\ Rewritten(P, j, row, o).phase = P.phase
           /\ Rewritten(P, j, row, o).tail = P.tail
           /\ Rewritten(P, j, row, o).marking = P.marking
           /\ Rewritten(P, j, row, o).jobs[j] = row /\ Rewritten(P, j, row, o).op[j] = o
           /\ \A k \in Jobs \ {j} : /\ Rewritten(P, j, row, o).jobs[k] = P.jobs[k]
                                   /\ Rewritten(P, j, row, o).op[k] = P.op[k]
<1> DEFINE jobs == [P.jobs EXCEPT ![j] = row]
           op == [P.op EXCEPT ![j] = o]
<1>1. jobs \in [Jobs -> Rows] /\ op \in [Jobs -> Operation]
  BY DEF ProcState
<1>2. /\ jobs[j] = row /\ op[j] = o
      /\ \A k \in Jobs \ {j} : jobs[k] = P.jobs[k] /\ op[k] = P.op[k]
  BY DEF ProcState
<1>3. Rewritten(P, j, row, o) = [P EXCEPT !.jobs = jobs, !.op = op]
  BY DEF Rewritten, ProcState
<1> HIDE DEF jobs, op
<1>4. /\ Rewritten(P, j, row, o) \in ProcState
      /\ Rewritten(P, j, row, o).phase = P.phase
      /\ Rewritten(P, j, row, o).tail = P.tail
      /\ Rewritten(P, j, row, o).marking = P.marking
      /\ Rewritten(P, j, row, o).jobs = jobs /\ Rewritten(P, j, row, o).op = op
  BY <1>1, <1>3 DEF ProcState
<1> QED
  BY <1>2, <1>4

Stages == {"idle", "label", "waiting", "executing", "sending", "finalizing", "deferred"}
LEMMA PcFacts ==
    ASSUME NEW o \in Operation, NEW pc \in Stages, NEW u, u = [o EXCEPT !.pc = pc]
    PROVE  /\ u \in Operation /\ u.pc = pc /\ u.queued = o.queued /\ u.aborted = o.aborted
           /\ u.ahead = o.ahead /\ u.own = o.own
BY DEF Operation, Stages

\* A run without an abort is one of an open process and of an active row.
LEMMA RunFacts ==
    ASSUME IInv, NEW p \in Processes, NEW j \in Jobs,
           Runs(proc[p].op[j]), ~proc[p].op[j].aborted
    PROVE  /\ proc[p].phase = "open" /\ Acts(proc[p]) /\ proc[p].op[j].own = NoRow
           /\ IsActive(proc[p].jobs[j]) /\ proc[p].jobs[j] \in Row
           /\ proc[p].jobs[j].text /\ proc[p].jobs[j].note = "none"
           /\ Held(proc[p], j) = proc[p].jobs[j]
           /\ disk[j] # NoRow /\ disk[j].status \notin FinalStatus
           /\ Same(proc[p].jobs[j], disk[j])
           /\ proc[p].op[j].queued
<1>1. /\ proc[p].phase = "open" /\ proc[p].op[j].own = NoRow /\ IsActive(proc[p].jobs[j])
      /\ disk[j] # NoRow /\ proc[p].op[j].queued
  BY AtRest DEF JobOK, Runs
<1>2. Acts(proc[p]) /\ Held(proc[p], j) = proc[p].jobs[j]
  BY <1>1 DEF Acts, Held
<1>3. Same(proc[p].jobs[j], disk[j])
  BY <1>2, AtRest DEF Matches
<1>4. proc[p].jobs[j] \in Row /\ proc[p].jobs[j].text /\ proc[p].jobs[j].note = "none"
  <2>1. proc[p].jobs[j] \in Rows /\ RowOK(proc[p].jobs[j], j, disk, replied)
    BY AtRest DEF JobOK
  <2> QED
    BY <1>1, <2>1, RowFacts DEF RowOK
<1>5. disk[j].status \notin FinalStatus
  BY <1>1, <1>3 DEF Same, IsActive, ActiveStatus, FinalStatus
<1> QED
  BY <1>1, <1>2, <1>3, <1>4, <1>5

\* What is asked of a row that replaces another.
LEMMA RewrittenOK ==
    ASSUME NEW j \in Jobs, NEW old \in Rows, NEW row, NEW D \in Table, NEW E, NEW R, NEW S,
           RowOK(old, j, D, R), Extends(D, E), R \subseteq S,
           row.session = old.session,
           IsActive(row) => row.text /\ row.note = "none",
           row.note # "none" => row.status \in Reported,
           row.status \in Reported /\ row.note # "unsent" => j \in S
    PROVE  RowOK(row, j, E, S)
<1>1. RowOK(old, j, E, S)
  BY GrowRow
<1> QED
  BY <1>1 DEF RowOK

\* What is asked of a run that goes on, and of a delivery.
LEMMA RunOK ==
    ASSUME NEW o, NEW row, NEW j, NEW D, NEW R,
           Runs(o), o.queued, ~o.aborted, o.own = NoRow, o.pc # "waiting" => o.ahead = 0,
           RowOK(row, j, D, R), IsActive(row), D[j] # NoRow
    PROVE  JobOK("open", o, row, j, D, R)
BY NoRowFacts DEF JobOK, Runs, Reports

LEMMA ReportOK ==
    ASSUME NEW ph, NEW o, NEW row, NEW j, NEW D, NEW R,
           Reports(o), o.ahead = 0, o.pc = "deferred" => ~o.queued,
           o.pc \in {"finalizing", "deferred"} => j \in R,
           RowOK(row, j, D, R), RowOK(o.own, j, D, R), D[j] # NoRow,
           HeldRow(o, row).status \in Reported, Same(HeldRow(o, row), D[j])
    PROVE  JobOK(ph, o, row, j, D, R)
BY DEF JobOK, Runs, Reports

LEMMA IdleOK ==
    ASSUME NEW ph, NEW row, NEW j, NEW D, NEW R, RowOK(row, j, D, R)
    PROVE  JobOK(ph, Idle, row, j, D, R)
BY NoRowFacts, IdleFacts DEF JobOK, Runs, Reports

\* A step of one job that leaves the queue as it is.
InPlace(P, Q, j) ==
    /\ Q \in ProcState
    /\ Q.phase = P.phase /\ P.phase \notin {"unborn", "down"}
    /\ Q.marking = P.marking \/ Acts(P)
    /\ Q.tail = P.tail
    /\ \A k \in Jobs \ {j} : Q.jobs[k] = P.jobs[k] /\ Q.op[k] = P.op[k]
    /\ Q.op[j].queued = P.op[j].queued /\ Q.op[j].ahead = P.op[j].ahead
    /\ P.op[j].queued \/ P.op[j].ahead # 0 =>
           HeldRow(Q.op[j], Q.jobs[j]).session = HeldRow(P.op[j], P.jobs[j]).session
    /\ Runs(Q.op[j]) => Runs(P.op[j])
    /\ Q.op[j].pc # "label"

LEMMA InPlaceStep ==
    ASSUME IInv, NEW p \in Processes, NEW j \in Jobs, NEW Q, Becomes(p, Q),
           OthersOK', replied \subseteq replied', told' = told,
           InPlace(proc[p], Q, j),
           Agrees(proc[p], Q, j, disk, disk', replied')
    PROVE  IInv'
<1>1. proc[p] \in ProcState /\ QueueOK(proc[p]) /\ Inner(proc[p], disk, replied)
  BY AtRest
<1>2. QueueOK(Q)
  BY <1>1, QueueStays DEF InPlace
<1>3. ~Acts(Q) => Q.marking = {}
  BY <1>1 DEF Inner, Acts, InPlace
<1>4. StepsAbout(proc[p], Q, j)
  BY <1>2, <1>3 DEF StepsAbout, Alike, InPlace
<1> QED
  BY <1>4, JobStep

LEMMA RewriteStep ==
    ASSUME IInv, NEW p \in Processes, NEW j \in Jobs,
           NEW row \in Rows, NEW o \in Operation,
           Becomes(p, Rewritten(proc[p], j, row, o)),
           OthersOK', replied \subseteq replied', told' = told,
           proc[p].phase \notin {"unborn", "down"},
           o.queued = proc[p].op[j].queued, o.ahead = proc[p].op[j].ahead,
           o.queued \/ o.ahead # 0 =>
               HeldRow(o, row).session = HeldRow(proc[p].op[j], proc[p].jobs[j]).session,
           Runs(o) => Runs(proc[p].op[j]), o.pc # "label",
           Extends(disk, disk'), Writes(disk, disk', j, replied'),
           JobOK(proc[p].phase, o, row, j, disk', replied'),
           Acts(proc[p]) => Same(row, disk'[j]),
           Acts(proc[p]) \/ Same(disk[j], disk'[j]),
           disk'[j].status \in Reported => disk[j].status \in Reported \/ Runs(proc[p].op[j])
    PROVE  IInv'
<1> DEFINE P == proc[p]
           Q == Rewritten(P, j, row, o)
<1>1. P \in ProcState
  BY AtRest
<1>2. /\ Q \in ProcState /\ Q.phase = P.phase /\ Q.tail = P.tail /\ Q.marking = P.marking
      /\ Q.jobs[j] = row /\ Q.op[j] = o
      /\ \A k \in Jobs \ {j} : Q.jobs[k] = P.jobs[k] /\ Q.op[k] = P.op[k]
  BY <1>1, RewrittenFacts
<1>3. Becomes(p, Q)
  OBVIOUS
<1> HIDE DEF Q
<1>4. InPlace(P, Q, j)
  BY <1>2 DEF InPlace
<1>5. Agrees(P, Q, j, disk, disk', replied')
  BY <1>2 DEF Agrees
<1> QED
  BY <1>3, <1>4, <1>5, InPlaceStep

\* The operation on j enters a stage; its row was assigned.
RowAfter(P, j, row) == IF P.op[j].own # NoRow THEN P.jobs[j] ELSE row
OpAfter(P, j, row, pc) ==
    IF P.op[j].own # NoRow THEN [P.op[j] EXCEPT !.own = row, !.pc = pc]
                           ELSE [P.op[j] EXCEPT !.pc = pc]

Staged(P, j, row, pc) == [Assigned(P, j, row) EXCEPT !.op[j].pc = pc]

LEMMA AssignedFacts ==
    ASSUME NEW P \in ProcState, NEW j \in Jobs, NEW row \in Row, NEW pc \in Stages
    PROVE  /\ RowAfter(P, j, row) \in Rows /\ OpAfter(P, j, row, pc) \in Operation
           /\ Staged(P, j, row, pc)
                  = Rewritten(P, j, RowAfter(P, j, row), OpAfter(P, j, row, pc))
           /\ OpAfter(P, j, row, pc).pc = pc
           /\ OpAfter(P, j, row, pc).queued = P.op[j].queued
           /\ OpAfter(P, j, row, pc).aborted = P.op[j].aborted
           /\ OpAfter(P, j, row, pc).ahead = P.op[j].ahead
           /\ OpAfter(P, j, row, pc).own = IF P.op[j].own # NoRow THEN row ELSE NoRow
           /\ HeldRow(OpAfter(P, j, row, pc), RowAfter(P, j, row)) = row
<1>1. P.op[j] \in Operation /\ P.jobs[j] \in Rows /\ row \in Rows /\ row # NoRow
  BY RowFacts DEF ProcState, Rows
<1>2. CASE P.op[j].own # NoRow
  <2>1. Assigned(P, j, row) = [P EXCEPT !.op[j].own = row]
    BY <1>2 DEF Assigned
  <2> DEFINE own == [P.op[j] EXCEPT !.own = row]
             o == [P.op[j] EXCEPT !.own = row, !.pc = pc]
             M == [P EXCEPT !.op[j].own = row]
  <2>2. M.op = [P.op EXCEPT ![j] = own]
    BY <1>1 DEF ProcState, Operation
  <2>3. [own EXCEPT !.pc = pc] = o /\ M.op[j] = own
    BY <1>1, <2>2 DEF ProcState, Operation
  <2>4. [M EXCEPT !.op[j].pc = pc] = [M EXCEPT !.op = [M.op EXCEPT ![j] = [M.op[j] EXCEPT !.pc = pc]]]
    BY DEF ProcState
  <2>5. [M.op EXCEPT ![j] = o] = [P.op EXCEPT ![j] = o]
    <3> HIDE DEF own, o, M
    <3> QED
      BY <2>2 DEF ProcState
  <2>6. \A f : [M EXCEPT !.op = f] = [P EXCEPT !.op = f]
    BY DEF ProcState
  <2>7. [P EXCEPT !.op = [P.op EXCEPT ![j] = o]] = Rewritten(P, j, P.jobs[j], o)
    <3> HIDE DEF o
    <3> QED
      BY <1>1 DEF ProcState, Rewritten
  <2>8. Staged(P, j, row, pc) = Rewritten(P, j, P.jobs[j], o)
    <3>1. Staged(P, j, row, pc) = [M EXCEPT !.op[j].pc = pc]
      BY <2>1 DEF Staged
    <3> HIDE DEF own, o, M
    <3> QED
      BY <3>1, <2>3, <2>4, <2>5, <2>6, <2>7
  <2> QED
    BY <1>1, <1>2, <2>8 DEF RowAfter, OpAfter, Operation, HeldRow, Stages
<1>3. CASE P.op[j].own = NoRow
  <2>1. Assigned(P, j, row) = [P EXCEPT !.jobs[j] = row]
    BY <1>3 DEF Assigned
  <2>2. Staged(P, j, row, pc) = Rewritten(P, j, row, [P.op[j] EXCEPT !.pc = pc])
    BY <2>1, <1>1 DEF ProcState, Rewritten, Staged
  <2> QED
    BY <1>1, <1>3, <2>2 DEF RowAfter, OpAfter, Operation, HeldRow, Stages
<1> QED
  BY <1>2, <1>3

LEMMA BeginKeeps ==
    ASSUME IInv, NEW p \in Processes, NEW j \in Jobs, Begin(p, j)
    PROVE  IInv' /\ Extends(disk, disk')
<1> DEFINE P == proc[p]
<1>1. P.op[j].pc = "waiting" /\ P.op[j].ahead = 0
  BY DEF Begin
<1>2. OthersOK' /\ replied \subseteq replied' /\ told' = told
  BY DEF Begin, OthersOK, IInv
<1>3. CASE P.op[j].aborted \/ Held(P, j).status = "cancelled"
  <2>1. Becomes(p, Ended(P, j)) /\ disk' = disk
    BY <1>3 DEF Begin, Becomes
  <2>2. IInv'
    BY <1>1, <1>2, <2>1, EndedStep
  <2> QED
    BY <2>1, <2>2 DEF Extends
<1>4. CASE ~(P.op[j].aborted \/ Held(P, j).status = "cancelled")
  <2> DEFINE row == [Held(P, j) EXCEPT !.status = "running"]
             o == OpAfter(P, j, row, "executing")
  <2>1. /\ P.phase = "open" /\ Acts(P) /\ P.op[j].own = NoRow
        /\ IsActive(P.jobs[j]) /\ P.jobs[j] \in Row
        /\ P.jobs[j].text /\ P.jobs[j].note = "none"
        /\ Held(P, j) = P.jobs[j]
        /\ disk[j] # NoRow /\ disk[j].status \notin FinalStatus
        /\ Same(P.jobs[j], disk[j])
        /\ P.op[j].queued
    BY <1>1, <1>4, RunFacts DEF Runs
  <2>2. disk' = Put(disk, j, row)
    BY <1>4 DEF Begin, Put
  <2>3. /\ P \in ProcState /\ disk \in Table /\ RowOK(P.jobs[j], j, disk, replied)
        /\ P.jobs[j] \in Rows
    BY AtRest DEF JobOK
  <2>4. /\ row \in Row /\ row.status = "running" /\ row.note = "none" /\ row.text
        /\ row.source = P.jobs[j].source /\ row.session = P.jobs[j].session
    BY <2>1 DEF Row, ActiveStatus
  <2>5. Becomes(p, Staged(P, j, row, "executing"))
    BY <1>4 DEF Begin, Becomes, Staged
  <2> HIDE DEF row
  <2>6. RowAfter(P, j, row) = row
    BY <2>1 DEF RowAfter
  <2>7. /\ o \in Operation /\ o.pc = "executing" /\ o.queued = P.op[j].queued
        /\ o.aborted = P.op[j].aborted /\ o.ahead = P.op[j].ahead /\ o.own = NoRow
        /\ HeldRow(o, row) = row
    <3>1. /\ o \in Operation /\ o.pc = "executing" /\ o.queued = P.op[j].queued
          /\ o.aborted = P.op[j].aborted /\ o.ahead = P.op[j].ahead
          /\ o.own = IF P.op[j].own # NoRow THEN row ELSE NoRow
          /\ HeldRow(o, RowAfter(P, j, row)) = row
      BY <2>3, <2>4, AssignedFacts DEF Stages
    <3> HIDE DEF o
    <3> QED
      BY <2>1, <2>6, <3>1
  <2>8. Becomes(p, Rewritten(P, j, row, o))
    BY <2>3, <2>4, <2>5, <2>6, AssignedFacts DEF Stages
  <2> HIDE DEF o
  <2>9. disk' \in Table /\ disk'[j] = row /\ Extends(disk, disk') /\ row # NoRow
    BY <2>1, <2>2, <2>3, <2>4, WriteFacts DEF Same
  <2>10. RowOK(row, j, disk', replied')
    BY <1>2, <2>3, <2>4, <2>9, RewrittenOK DEF IsActive, ActiveStatus, Reported
  <2>11. Runs(o) /\ IsActive(row) /\ row \in Rows /\ Runs(P.op[j])
    BY <1>1, <2>4, <2>7 DEF Runs, IsActive, ActiveStatus, Rows
  <2>12. JobOK(P.phase, o, row, j, disk', replied')
    BY <1>1, <1>4, <2>1, <2>7, <2>9, <2>10, <2>11, RunOK
  <2>13. HeldRow(o, row).session = HeldRow(P.op[j], P.jobs[j]).session
    BY <2>1, <2>4, <2>7 DEF HeldRow
  <2>14. Writes(disk, disk', j, replied')
    BY <2>1, <2>2, <2>4, <2>10 DEF Writes
  <2>15. Same(row, disk'[j]) /\ disk'[j].status \notin Reported
    BY <2>4, <2>9 DEF Same, Reported
  <2>16. IInv'
    BY <1>2, <2>1, <2>7, <2>8, <2>9, <2>11, <2>12, <2>13, <2>14, <2>15, RewriteStep
  <2> QED
    BY <2>9, <2>16
<1> QED
  BY <1>3, <1>4

\* An operation that delivers has a row with an outcome, the table's.
LEMMA ReportFacts ==
    ASSUME IInv, NEW p \in Processes, NEW j \in Jobs, Reports(proc[p].op[j])
    PROVE  /\ Held(proc[p], j) \in Row /\ Held(proc[p], j).status \in Reported
           /\ Held(proc[p], j) = HeldRow(proc[p].op[j], proc[p].jobs[j])
           /\ RowOK(Held(proc[p], j), j, disk, replied)
           /\ Same(Held(proc[p], j), disk[j]) /\ disk[j] # NoRow
           /\ disk[j].status \in Reported
           /\ proc[p].op[j].ahead = 0 /\ proc[p].phase \notin {"unborn", "down"}
           /\ proc[p].op[j].pc \in {"finalizing", "deferred"} => j \in replied
<1>1. /\ JobOK(proc[p].phase, proc[p].op[j], proc[p].jobs[j], j, disk, replied)
      /\ proc[p].op[j] \in Operation /\ proc[p].jobs[j] \in Rows
      /\ proc[p].op[j].pc # "idle" => proc[p].phase \notin {"unborn", "down"}
  BY AtRest
<1>2. Held(proc[p], j) = HeldRow(proc[p].op[j], proc[p].jobs[j])
  BY DEF Held, HeldRow
<1>3. /\ Held(proc[p], j).status \in Reported /\ Same(Held(proc[p], j), disk[j])
      /\ disk[j] # NoRow /\ proc[p].op[j].ahead = 0
      /\ proc[p].op[j].pc \in {"finalizing", "deferred"} => j \in replied
  BY <1>1, <1>2 DEF JobOK, Reports
<1>4. proc[p].op[j].own \in Rows
  BY <1>1 DEF Operation, Rows
<1>5. Held(proc[p], j) \in Rows /\ RowOK(Held(proc[p], j), j, disk, replied)
  BY <1>1, <1>2, <1>4 DEF HeldRow, JobOK
<1>6. Held(proc[p], j) \in Row
  BY <1>3, <1>5, RowFacts
<1>7. disk[j].status \in Reported
  BY <1>3 DEF Same
<1>8. proc[p].phase \notin {"unborn", "down"}
  BY <1>1 DEF Reports
<1> QED
  BY <1>2, <1>3, <1>5, <1>6, <1>7, <1>8

LEMMA AbandonedKeeps ==
    ASSUME IInv, NEW p \in Processes, NEW j \in Jobs, Reports(proc[p].op[j]),
           Abandoned(p, j), resume' = resume, told' = told, disk' = disk,
           replied \subseteq replied', replied' \subseteq Jobs, faults' \in 0 .. MaxFaults
    PROVE  IInv' /\ Extends(disk, disk')
<1>1. OthersOK'
  BY DEF OthersOK, IInv, Abandoned
<1>2. Becomes(p, Ended(proc[p], j))
  BY DEF Abandoned, Becomes
<1>3. proc[p].op[j].ahead = 0 /\ proc[p].op[j].pc # "idle"
  BY ReportFacts DEF Reports
<1>4. IInv'
  BY <1>1, <1>2, <1>3, EndedStep
<1> QED
  BY <1>4 DEF Extends

\* A new operation on j alone.
WithOp(P, j, o) == [P EXCEPT !.op[j] = o]

LEMMA StageFacts ==
    ASSUME NEW P \in ProcState, NEW j \in Jobs, NEW o \in Operation
    PROVE  WithOp(P, j, o) = Rewritten(P, j, P.jobs[j], o)
<1>1. [P.jobs EXCEPT ![j] = P.jobs[j]] = P.jobs
  BY DEF ProcState
<1>2. WithOp(P, j, o) = [P EXCEPT !.op = [P.op EXCEPT ![j] = o]]
  BY DEF ProcState, WithOp
<1>3. Rewritten(P, j, P.jobs[j], o)
        = [P EXCEPT !.jobs = [P.jobs EXCEPT ![j] = P.jobs[j]], !.op = [P.op EXCEPT ![j] = o]]
  BY DEF ProcState, Rewritten
<1>4. \A f, g : f = P.jobs => [P EXCEPT !.jobs = f, !.op = g] = [P EXCEPT !.op = g]
  BY DEF ProcState
<1> HIDE DEF Rewritten
<1> QED
  BY <1>1, <1>2, <1>3, <1>4

LEMMA SentKeeps ==
    ASSUME IInv, NEW p \in Processes, NEW j \in Jobs, Sent(p, j)
    PROVE  IInv' /\ Extends(disk, disk')
<1> DEFINE P == proc[p]
           row == [Held(P, j) EXCEPT !.note = "sent"]
<1>1. /\ P.op[j].pc = "sending" /\ Reports(P.op[j])
      /\ replied' = replied \cup {j} /\ resume' = resume /\ told' = told /\ faults' = faults
  BY DEF Sent, Reports
<1>2. /\ replied \subseteq replied' /\ replied' \subseteq Jobs /\ j \in replied'
      /\ faults' \in 0 .. MaxFaults
  BY <1>1 DEF IInv
<1>3. CASE P.phase # "open"
  <2>1. Abandoned(p, j) /\ disk' = disk
    BY <1>3 DEF Sent
  <2> QED
    BY <1>1, <1>2, <2>1, AbandonedKeeps
<1>4. CASE P.phase = "open"
  <2> DEFINE pc == IF row.final /\ ~P.op[j].queued THEN "deferred" ELSE "finalizing"
             o == OpAfter(P, j, row, pc)
             kept == RowAfter(P, j, row)
  <2>1. disk' = Put(disk, j, row) /\ Becomes(p, Staged(P, j, row, pc))
    BY <1>4 DEF Sent, Put, Becomes, Staged
  <2>2. OthersOK'
    BY <1>1, <1>2, <1>4 DEF OthersOK, IInv, Sent
  <2>3. /\ Held(P, j) \in Row /\ Held(P, j).status \in Reported
        /\ Held(P, j) = HeldRow(P.op[j], P.jobs[j])
        /\ RowOK(Held(P, j), j, disk, replied)
        /\ Same(Held(P, j), disk[j]) /\ disk[j] # NoRow
        /\ disk[j].status \in Reported
        /\ P.op[j].ahead = 0 /\ P.phase \notin {"unborn", "down"}
    BY <1>1, ReportFacts
  <2>4. /\ row \in Row /\ row.status = Held(P, j).status /\ row.note = "sent"
        /\ row.source = Held(P, j).source /\ row.session = Held(P, j).session
    BY <2>3 DEF Row
  <2>5. /\ P \in ProcState /\ disk \in Table /\ Acts(P) /\ Matches(P, disk)
        /\ P.jobs[j] \in Rows /\ P.op[j] \in Operation
        /\ RowOK(P.jobs[j], j, disk, replied) /\ RowOK(P.op[j].own, j, disk, replied)
    BY <1>4, AtRest DEF JobOK, Acts
  <2>6. pc \in Stages /\ pc \in {"deferred", "finalizing"} /\ (pc = "deferred" => ~P.op[j].queued)
    BY DEF Stages
  <2> HIDE DEF pc, row
  <2>7. /\ o \in Operation /\ o.pc = pc /\ o.queued = P.op[j].queued
        /\ o.ahead = P.op[j].ahead
        /\ o.own = IF P.op[j].own # NoRow THEN row ELSE NoRow
        /\ kept \in Rows /\ kept = (IF P.op[j].own # NoRow THEN P.jobs[j] ELSE row)
        /\ HeldRow(o, kept) = row
    BY <2>4, <2>5, <2>6, AssignedFacts DEF RowAfter
  <2>8. Becomes(p, Rewritten(P, j, kept, o))
    BY <2>1, <2>4, <2>5, <2>6, AssignedFacts
  <2> HIDE DEF o, kept
  <2>9. disk' \in Table /\ disk'[j] = row /\ Extends(disk, disk') /\ row # NoRow
    BY <2>1, <2>3, <2>4, <2>5, WriteFacts DEF Same
  <2>10. RowOK(row, j, disk', replied')
    <3>1. ~IsActive(row) /\ row.status \in Reported
      BY <2>3, <2>4 DEF IsActive, ActiveStatus, Reported
    <3>2. Held(P, j) \in Rows
      BY <2>3 DEF Rows
    <3> QED
      BY <1>2, <2>3, <2>4, <2>5, <2>9, <3>1, <3>2, RewrittenOK
  <2>11. RowOK(kept, j, disk', replied') /\ RowOK(o.own, j, disk', replied')
    <3>1. RowOK(P.jobs[j], j, disk', replied')
      BY <1>2, <2>5, <2>9, GrowRow
    <3> QED
      BY <2>7, <2>10, <3>1, NoRowFacts
  <2>12. Reports(o) /\ ~Runs(o) /\ o.pc # "label"
    BY <2>6, <2>7 DEF Reports, Runs
  <2>13. Same(HeldRow(o, kept), disk'[j]) /\ HeldRow(o, kept).status \in Reported
    BY <2>3, <2>4, <2>7, <2>9 DEF Same
  <2>14. JobOK(P.phase, o, kept, j, disk', replied')
    BY <1>2, <2>3, <2>6, <2>7, <2>9, <2>11, <2>12, <2>13, ReportOK
  <2>15. Same(kept, disk'[j])
    BY <2>3, <2>4, <2>5, <2>7, <2>9 DEF Matches, Same
  <2>16. Writes(disk, disk', j, replied')
    BY <2>1, <2>3, <2>4, <2>10 DEF Writes
  <2>17. HeldRow(o, kept).session = HeldRow(P.op[j], P.jobs[j]).session
    BY <2>3, <2>4, <2>7
  <2>18. IInv'
    BY <1>1, <1>2, <2>2, <2>3, <2>5, <2>7, <2>8, <2>9, <2>12, <2>14, <2>15, <2>16, <2>17, RewriteStep
  <2> QED
    BY <2>9, <2>18
<1> QED
  BY <1>3, <1>4

LEMMA DeferredKeeps ==
    ASSUME IInv, NEW p \in Processes, NEW j \in Jobs, Deferred(p, j)
    PROVE  IInv' /\ Extends(disk, disk')
<1> DEFINE P == proc[p]
           o == [P.op[j] EXCEPT !.pc = "finalizing"]
<1>1. P.op[j].pc = "deferred" /\ Reports(P.op[j]) /\ disk' = disk /\ replied' = replied
  BY DEF Deferred, Reports
<1>2. OthersOK' /\ replied \subseteq replied' /\ told' = told
  BY DEF Deferred, OthersOK, IInv
<1>3. Extends(disk, disk') /\ \A k \in Jobs : Same(disk[k], disk'[k])
  BY <1>1 DEF Extends, Same
<1>4. /\ P \in ProcState /\ P.op[j] \in Operation /\ P.jobs[j] \in Rows
      /\ JobOK(P.phase, P.op[j], P.jobs[j], j, disk, replied)
      /\ Matches(P, disk) /\ P.phase \notin {"unborn", "down"}
  BY <1>1, AtRest
<1>5. P.op[j].ahead = 0
  BY <1>1, ReportFacts
<1>6. CASE P.phase = "open" /\ Held(P, j).note # "none"
  <2>1. proc' = [proc EXCEPT ![p] = [P EXCEPT !.op[j].pc = "finalizing"]]
    BY <1>6 DEF Deferred
  <2>2. [P EXCEPT !.op[j].pc = "finalizing"] = WithOp(P, j, o)
    BY <1>4 DEF ProcState, WithOp
  <2>3. /\ o \in Operation /\ o.pc = "finalizing" /\ o.queued = P.op[j].queued
        /\ o.aborted = P.op[j].aborted /\ o.ahead = P.op[j].ahead /\ o.own = P.op[j].own
    BY <1>4, PcFacts DEF Stages
  <2> HIDE DEF o
  <2>4. Becomes(p, Rewritten(P, j, P.jobs[j], o))
    BY <1>4, <2>1, <2>2, <2>3, StageFacts DEF Becomes
  <2>5. HeldRow(o, P.jobs[j]) = HeldRow(P.op[j], P.jobs[j])
    BY <2>3 DEF HeldRow
  <2>6. JobOK(P.phase, o, P.jobs[j], j, disk', replied')
    BY <1>1, <1>4, <2>3, <2>5 DEF JobOK, Runs, Reports
  <2>7. Writes(disk, disk', j, replied') /\ ~Runs(o) /\ o.pc # "label"
    BY <1>1, <2>3 DEF Writes, Runs
  <2>8. Acts(P) => Same(P.jobs[j], disk'[j])
    BY <1>1, <1>4 DEF Matches
  <2>9. IInv'
    BY <1>1, <1>2, <1>3, <1>4, <2>3, <2>4, <2>5, <2>6, <2>7, <2>8, RewriteStep
  <2> QED
    BY <1>3, <2>9
<1>7. CASE ~(P.phase = "open" /\ Held(P, j).note # "none")
  <2>1. Becomes(p, Ended(P, j))
    BY <1>7 DEF Deferred, Becomes
  <2>2. IInv'
    BY <1>1, <1>2, <1>5, <2>1, EndedStep
  <2> QED
    BY <1>3, <2>2
<1> QED
  BY <1>6, <1>7

LEMMA AssignedAlone ==
    ASSUME NEW P \in ProcState, NEW j \in Jobs, NEW row \in Row
    PROVE  Assigned(P, j, row) = Rewritten(P, j, RowAfter(P, j, row), OpAfter(P, j, row, P.op[j].pc))
<1>1. P.op[j] \in Operation /\ P.jobs[j] \in Rows
  BY DEF ProcState
<1>2. CASE P.op[j].own # NoRow
  <2> DEFINE o == [P.op[j] EXCEPT !.own = row]
  <2>1. OpAfter(P, j, row, P.op[j].pc) = o /\ o \in Operation
    BY <1>1, <1>2 DEF OpAfter, Operation
  <2>2. Assigned(P, j, row) = WithOp(P, j, o)
    BY <1>1, <1>2 DEF Assigned, WithOp, ProcState
  <2>3. RowAfter(P, j, row) = P.jobs[j]
    BY <1>2 DEF RowAfter
  <2> HIDE DEF o
  <2> QED
    BY <2>1, <2>2, <2>3, StageFacts
<1>3. CASE P.op[j].own = NoRow
  <2>1. OpAfter(P, j, row, P.op[j].pc) = P.op[j]
    BY <1>1, <1>3 DEF OpAfter, Operation
  <2>2. RowAfter(P, j, row) = row
    BY <1>3 DEF RowAfter
  <2>3. Assigned(P, j, row) = Rewritten(P, j, row, P.op[j])
    BY <1>3 DEF Assigned, Rewritten, ProcState
  <2> QED
    BY <2>1, <2>2, <2>3
<1> QED
  BY <1>2, <1>3

LEMMA FinishKeeps ==
    ASSUME IInv, NEW p \in Processes, NEW j \in Jobs, Finish(p, j)
    PROVE  IInv' /\ Extends(disk, disk')
<1> DEFINE P == proc[p]
           row == [Held(P, j) EXCEPT !.note = "none", !.text = FALSE, !.final = FALSE]
           M == Assigned(P, j, row)
           Q == Ended(M, j)
           o == OpAfter(P, j, row, P.op[j].pc)
           kept == RowAfter(P, j, row)
<1>1. /\ P.op[j].pc = "finalizing" /\ Reports(P.op[j]) /\ P.op[j].pc \in Stages
      /\ replied' = replied /\ told' = told /\ replied \subseteq replied'
  BY DEF Finish, Reports, Stages
<1>2. disk' = Put(disk, j, row) /\ Becomes(p, Q)
  BY DEF Finish, Cleared, Put, Becomes
<1>3. OthersOK'
  BY DEF Finish, Cleared, OthersOK, IInv
<1>4. /\ Held(P, j) \in Row /\ Held(P, j).status \in Reported
      /\ Held(P, j) = HeldRow(P.op[j], P.jobs[j])
      /\ RowOK(Held(P, j), j, disk, replied)
      /\ Same(Held(P, j), disk[j]) /\ disk[j] # NoRow
      /\ disk[j].status \in Reported
      /\ P.op[j].ahead = 0 /\ P.phase \notin {"unborn", "down"}
      /\ j \in replied
  BY <1>1, ReportFacts
<1>5. /\ row \in Row /\ row.status = Held(P, j).status /\ row.note = "none"
      /\ row.source = Held(P, j).source /\ row.session = Held(P, j).session
  BY <1>4 DEF Row
<1> HIDE DEF row
<1>6. /\ P \in ProcState /\ disk \in Table /\ Matches(P, disk) /\ QueueOK(P)
      /\ P.jobs[j] \in Rows /\ P.op[j] \in Operation
      /\ RowOK(P.jobs[j], j, disk, replied)
      /\ ~Acts(P) => P.marking = {}
  BY AtRest DEF JobOK, Inner
<1>7. /\ o \in Operation /\ o.queued = P.op[j].queued /\ o.ahead = P.op[j].ahead
      /\ kept \in Rows /\ kept = (IF P.op[j].own # NoRow THEN P.jobs[j] ELSE row)
      /\ HeldRow(o, kept) = row /\ ~Runs(o)
  BY <1>1, <1>5, <1>6, AssignedFacts DEF RowAfter, Runs
<1>8. M = Rewritten(P, j, kept, o)
  BY <1>5, <1>6, AssignedAlone
<1> HIDE DEF o, kept
<1>9. /\ M \in ProcState /\ M.phase = P.phase /\ M.tail = P.tail /\ M.marking = P.marking
      /\ M.jobs[j] = kept /\ M.op[j] = o
      /\ \A k \in Jobs \ {j} : M.jobs[k] = P.jobs[k] /\ M.op[k] = P.op[k]
  BY <1>6, <1>7, <1>8, RewrittenFacts
<1> HIDE DEF M
<1>10. QueueOK(M)
  <2>1. \A k \in Jobs :
            /\ M.op[k].queued = P.op[k].queued /\ M.op[k].ahead = P.op[k].ahead
            /\ HeldRow(M.op[k], M.jobs[k]).session = HeldRow(P.op[k], P.jobs[k]).session
            /\ Runs(M.op[k]) => Runs(P.op[k])
    BY <1>4, <1>5, <1>7, <1>9
  <2> QED
    BY <1>6, <1>9, <2>1, QueueStays
<1>11. /\ Q \in ProcState
       /\ Q.phase = M.phase /\ Q.jobs = M.jobs /\ Q.marking = M.marking
       /\ Q.op[j] = Idle
       /\ \A k \in Jobs \ {j} :
              /\ Alike(M.op[k], Q.op[k])
              /\ Q.op[k].ahead = IF M.op[k].ahead = j THEN 0 ELSE M.op[k].ahead
  BY <1>9, EndedFacts
<1>12. QueueOK(Q)
  BY <1>4, <1>7, <1>9, <1>10, EndedQueue
<1> HIDE DEF Q
<1>13. disk' \in Table /\ disk'[j] = row /\ Extends(disk, disk') /\ row # NoRow
  BY <1>2, <1>4, <1>5, <1>6, WriteFacts DEF Same
<1>14. RowOK(row, j, disk', replied')
  <2>1. ~IsActive(row) /\ Held(P, j) \in Rows
    BY <1>4, <1>5 DEF IsActive, ActiveStatus, Reported, Rows
  <2> QED
    BY <1>1, <1>4, <1>5, <1>6, <1>13, <2>1, RewrittenOK
<1>15. RowOK(kept, j, disk', replied')
  BY <1>1, <1>6, <1>7, <1>13, <1>14, GrowRow
<1>16. JobOK(Q.phase, Q.op[j], Q.jobs[j], j, disk', replied')
  BY <1>9, <1>11, <1>15, IdleOK
<1>17. StepsAbout(P, Q, j)
  <2>1. ~Acts(Q) => Q.marking = {}
    BY <1>6, <1>9, <1>11 DEF Acts
  <2>2. \A k \in Jobs \ {j} : /\ Q.jobs[k] = P.jobs[k]
                              /\ Alike(P.op[k], Q.op[k])
                              /\ Q.op[k].ahead = P.op[k].ahead \/ Q.op[k].ahead = 0
    BY <1>9, <1>11
  <2>3. Q.op[j].pc # "label" /\ ~Runs(Q.op[j])
    BY <1>11, IdleFacts DEF Runs
  <2> QED
    BY <1>4, <1>9, <1>11, <1>12, <2>1, <2>2, <2>3 DEF StepsAbout
<1>18. Same(disk[j], disk'[j])
  BY <1>4, <1>5, <1>13 DEF Same
<1>19. Acts(P) => Same(Q.jobs[j], disk'[j])
  BY <1>6, <1>7, <1>9, <1>11, <1>13, <1>18 DEF Matches, Same
<1>20. Writes(disk, disk', j, replied')
  BY <1>2, <1>4, <1>5, <1>14 DEF Writes
<1>21. Agrees(P, Q, j, disk, disk', replied')
  BY <1>4, <1>13, <1>16, <1>18, <1>19, <1>20 DEF Agrees
<1>22. IInv'
  BY <1>1, <1>2, <1>3, <1>17, <1>21, JobStep
<1> QED
  BY <1>13, <1>22

LEMMA FailuresKeep ==
    ASSUME IInv, NEW p \in Processes, NEW j \in Jobs, SendFails(p, j) \/ FinalizerFails(p, j)
    PROVE  IInv' /\ Extends(disk, disk')
<1>1. /\ Reports(proc[p].op[j]) /\ Abandoned(p, j)
      /\ resume' = resume /\ told' = told /\ disk' = disk /\ replied' = replied
  BY DEF SendFails, FinalizerFails, Reports
<1>2. faults' \in 0 .. MaxFaults /\ replied' \subseteq Jobs
  BY <1>1, ConstantsAssumption DEF SendFails, FinalizerFails, Fault, IInv
<1> QED
  BY <1>1, <1>2, AbandonedKeeps

LEMMA DeliveringFacts ==
    ASSUME NEW P \in ProcState, NEW j \in Jobs
    PROVE  /\ Delivering(P, j) \in ProcState
           /\ Delivering(P, j).phase = P.phase /\ Delivering(P, j).jobs = P.jobs
           /\ Delivering(P, j).marking = P.marking
           /\ Delivering(P, j).op[j] \in Operation
           /\ Delivering(P, j).op[j].pc = "sending"
           /\ Delivering(P, j).op[j].queued = P.op[j].queued
           /\ Delivering(P, j).op[j].ahead = P.op[j].ahead
           /\ Delivering(P, j).op[j].own = P.op[j].own
           /\ \A k \in Jobs \ {j} : Delivering(P, j).op[k] = P.op[k]
           /\ \A s \in Destinations :
                  Delivering(P, j).tail[s] = IF s = j /\ P.tail[s] = j THEN 0 ELSE P.tail[s]
<1> DEFINE o == [P.op[j] EXCEPT !.pc = "sending"]
           op == [P.op EXCEPT ![j] = o]
           t == IF P.tail[j] = j THEN 0 ELSE P.tail[j]
           tail == [P.tail EXCEPT ![j] = t]
<1>1. j \in Destinations /\ P.op[j] \in Operation /\ P.tail \in [Destinations -> Jobs \cup {0}]
  BY Names DEF ProcState
<1>2. /\ o \in Operation /\ o.pc = "sending" /\ o.queued = P.op[j].queued
      /\ o.ahead = P.op[j].ahead /\ o.own = P.op[j].own
  BY <1>1, PcFacts DEF Stages
<1> HIDE DEF o
<1>3. /\ op \in [Jobs -> Operation] /\ op[j] = o
      /\ \A k \in Jobs \ {j} : op[k] = P.op[k]
  BY <1>2 DEF ProcState
<1>4. t \in Jobs \cup {0}
  BY <1>1
<1>5. /\ tail \in [Destinations -> Jobs \cup {0}]
      /\ \A s \in Destinations : tail[s] = IF s = j /\ P.tail[s] = j THEN 0 ELSE P.tail[s]
  BY <1>1, <1>4
<1>6. Delivering(P, j) = [P EXCEPT !.op = op, !.tail = tail]
  BY DEF Delivering, ProcState, o
<1> HIDE DEF op, tail
<1>7. /\ Delivering(P, j) \in ProcState
      /\ Delivering(P, j).phase = P.phase /\ Delivering(P, j).jobs = P.jobs
      /\ Delivering(P, j).marking = P.marking
      /\ Delivering(P, j).op = op /\ Delivering(P, j).tail = tail
  BY <1>3, <1>5, <1>6 DEF ProcState
<1> QED
  BY <1>2, <1>3, <1>5, <1>7

LEMMA SettleKeeps ==
    ASSUME IInv, NEW p \in Processes, NEW j \in Jobs, Settle(p, j)
    PROVE  IInv' /\ Extends(disk, disk')
<1> DEFINE P == proc[p]
<1>1. /\ P.op[j].pc = "executing" /\ Runs(P.op[j])
      /\ replied' = replied /\ told' = told /\ replied \subseteq replied'
  BY DEF Settle, Runs
<1>2. OthersOK'
  BY DEF Settle, OthersOK, IInv
<1>3. /\ P \in ProcState /\ disk \in Table /\ QueueOK(P)
      /\ P.jobs[j] \in Rows /\ P.op[j] \in Operation
      /\ RowOK(P.jobs[j], j, disk, replied)
      /\ JobOK(P.phase, P.op[j], P.jobs[j], j, disk, replied)
  BY AtRest DEF JobOK
<1>4. P.op[j].ahead = 0
  BY <1>1, <1>3 DEF JobOK
<1>5. CASE P.op[j].aborted \/ ~IsActive(Held(P, j))
  <2>1. Becomes(p, Ended(P, j)) /\ disk' = disk
    BY <1>5 DEF Settle, Becomes
  <2>2. IInv'
    BY <1>1, <1>2, <1>4, <2>1, EndedStep
  <2> QED
    BY <2>1, <2>2 DEF Extends
<1>6. CASE ~(P.op[j].aborted \/ ~IsActive(Held(P, j)))
  <2>1. /\ P.phase = "open" /\ Acts(P) /\ P.op[j].own = NoRow
        /\ IsActive(P.jobs[j]) /\ P.jobs[j] \in Row
        /\ Held(P, j) = P.jobs[j]
        /\ disk[j] # NoRow /\ disk[j].status \notin FinalStatus
        /\ Same(P.jobs[j], disk[j])
        /\ P.op[j].queued
    BY <1>1, <1>6, RunFacts
  <2>2. PICK outcome \in {"completed", "error"}, final \in BOOLEAN :
            LET new == [Held(P, j) EXCEPT !.status = outcome, !.note = "unsent",
                                          !.final = final, !.text = final]
            IN /\ disk' = [disk EXCEPT ![j] = new]
               /\ proc' = [proc EXCEPT ![p] = Delivering(Assigned(P, j, new), j)]
    BY <1>6, <2>1 DEF Settle
  <2> DEFINE row == [Held(P, j) EXCEPT !.status = outcome, !.note = "unsent",
                                       !.final = final, !.text = final]
             M == Rewritten(P, j, row, P.op[j])
             Q == Delivering(M, j)
  <2>3. /\ row \in Row /\ row.status = outcome /\ row.note = "unsent"
        /\ row.source = P.jobs[j].source /\ row.session = P.jobs[j].session
    BY <2>1 DEF Row, FinalStatus
  <2>4. disk' = Put(disk, j, row) /\ Becomes(p, Delivering(Assigned(P, j, row), j))
    BY <2>2 DEF Put, Becomes
  <2> HIDE DEF row
  <2>5. Assigned(P, j, row) = M
    BY <1>3, <2>1 DEF Assigned, Rewritten, ProcState
  <2>6. Becomes(p, Q)
    BY <2>4, <2>5
  <2>7. /\ M \in ProcState /\ M.phase = P.phase /\ M.tail = P.tail /\ M.marking = P.marking
        /\ M.jobs[j] = row /\ M.op[j] = P.op[j]
        /\ \A k \in Jobs \ {j} : M.jobs[k] = P.jobs[k] /\ M.op[k] = P.op[k]
    BY <1>3, <2>3, RewrittenFacts DEF Rows
  <2> HIDE DEF M
  <2>8. /\ Q \in ProcState /\ Q.phase = M.phase /\ Q.jobs = M.jobs /\ Q.marking = M.marking
        /\ Q.op[j] \in Operation /\ Q.op[j].pc = "sending" /\ Q.op[j].queued = M.op[j].queued
        /\ Q.op[j].ahead = M.op[j].ahead /\ Q.op[j].own = M.op[j].own
        /\ \A k \in Jobs \ {j} : Q.op[k] = M.op[k]
        /\ \A s \in Destinations : Q.tail[s] = IF s = j /\ M.tail[s] = j THEN 0 ELSE M.tail[s]
    BY <2>7, DeliveringFacts
  <2> HIDE DEF Q
  <2>9. Q.op[j].own = NoRow /\ Q.op[j].ahead = 0 /\ Reports(Q.op[j]) /\ ~Runs(Q.op[j])
    BY <1>4, <2>1, <2>7, <2>8 DEF Reports, Runs
  <2>10. HeldRow(Q.op[j], Q.jobs[j]) = row /\ HeldRow(P.op[j], P.jobs[j]) = P.jobs[j]
    BY <2>1, <2>7, <2>8, <2>9 DEF HeldRow
  <2>11. QueueOK(Q)
    <3>1. \A k \in Jobs :
              /\ Q.op[k].queued = P.op[k].queued /\ Q.op[k].ahead = P.op[k].ahead
              /\ HeldRow(Q.op[k], Q.jobs[k]).session = HeldRow(P.op[k], P.jobs[k]).session
              /\ Runs(Q.op[k]) => Runs(P.op[k])
      <4> TAKE k \in Jobs
      <4>1. CASE k = j
        BY <4>1, <2>3, <2>7, <2>8, <2>9, <2>10
      <4>2. CASE k # j
        BY <4>2, <2>7, <2>8
      <4> QED
        BY <4>1, <4>2
    <3>2. ASSUME NEW s \in Destinations, Q.tail[s] # P.tail[s]
          PROVE  Q.tail[s] = 0 /\ \A l \in Jobs : ~(Runs(Q.op[l]) /\ Places(P, l, s))
      <4>1. s = j /\ P.tail[s] = j /\ Q.tail[s] = 0 /\ j # 0
        BY <2>7, <2>8, <3>2, Names
      <4>2. Places(P, j, s)
        BY <1>3, <4>1 DEF QueueOK
      <4>3. ASSUME NEW l \in Jobs, Runs(Q.op[l]), Places(P, l, s)
            PROVE  FALSE
        <5>1. l # j /\ Runs(P.op[l])
          BY <2>9, <3>1, <4>3
        <5>2. l <= j
          BY <1>3, <4>1, <4>3, <5>1 DEF QueueOK
        <5>3. l < j
          BY <5>1, <5>2, Names
        <5> QED
          BY <1>3, <1>4, <4>2, <4>3, <5>1, <5>3, FirstInQueue
      <4> QED
        BY <4>1, <4>3
    <3> QED
      BY <1>3, <2>8, <3>1, <3>2, QueueStays
  <2>12. disk' \in Table /\ disk'[j] = row /\ Extends(disk, disk') /\ row # NoRow
    BY <1>3, <2>1, <2>3, <2>4, WriteFacts DEF Same
  <2>13. RowOK(row, j, disk', replied') /\ row.status \in Reported
    <3>1. ~IsActive(row) /\ row.status \in Reported
      BY <2>3 DEF IsActive, ActiveStatus, Reported
    <3> QED
      BY <1>1, <1>3, <2>3, <2>12, <3>1, RewrittenOK
  <2>14. JobOK(Q.phase, Q.op[j], Q.jobs[j], j, disk', replied')
    <3>1. RowOK(Q.op[j].own, j, disk', replied')
      BY <2>9, NoRowFacts
    <3>2. Q.jobs[j] = row /\ Same(HeldRow(Q.op[j], Q.jobs[j]), disk'[j])
      BY <2>7, <2>8, <2>10, <2>12 DEF Same
    <3> QED
      BY <2>8, <2>9, <2>10, <2>12, <2>13, <3>1, <3>2, ReportOK
  <2>15. StepsAbout(P, Q, j)
    <3>1. \A k \in Jobs \ {j} : /\ Q.jobs[k] = P.jobs[k]
                                /\ Alike(P.op[k], Q.op[k])
                                /\ Q.op[k].ahead = P.op[k].ahead
      BY <2>7, <2>8 DEF Alike
    <3>2. Acts(Q)
      BY <2>1, <2>7, <2>8 DEF Acts
    <3> QED
      BY <2>1, <2>7, <2>8, <2>9, <2>11, <3>1, <3>2 DEF StepsAbout
  <2>16. Writes(disk, disk', j, replied')
    BY <2>1, <2>3, <2>4, <2>13 DEF Writes
  <2>17. Agrees(P, Q, j, disk, disk', replied')
    <3>1. Same(Q.jobs[j], disk'[j])
      BY <2>7, <2>8, <2>12 DEF Same
    <3> QED
      BY <1>1, <2>1, <2>12, <2>14, <2>16, <3>1 DEF Agrees
  <2>18. IInv'
    BY <1>1, <1>2, <2>6, <2>15, <2>17, JobStep
  <2> QED
    BY <2>12, <2>18
<1> QED
  BY <1>5, <1>6

\* j's queue takes the session the run created, which no other has.
LEMMA BoundQueue ==
    ASSUME NEW P \in ProcState, NEW Q \in ProcState, NEW j \in Jobs, QueueOK(P),
           Q.op = P.op, P.op[j].ahead = 0, P.op[j].queued, P.op[j].own = NoRow,
           P.jobs[j].session = New, Q.jobs[j].session = j,
           \A k \in Jobs \ {j} : Q.jobs[k] = P.jobs[k],
           \A k \in Jobs : HeldRow(P.op[k], P.jobs[k]).session # j,
           \A s \in Destinations : Q.tail[s] = IF s = j THEN j ELSE P.tail[s]
    PROVE  QueueOK(Q)
<1>1. P.tail \in [Destinations -> Jobs \cup {0}] /\ \A k \in Jobs : P.op[k].ahead \in Jobs \cup {0}
  BY DEF ProcState, Operation
<1>2. HeldRow(P.op[j], P.jobs[j]).session = New /\ HeldRow(Q.op[j], Q.jobs[j]).session = j
  BY DEF HeldRow
<1>3. \A k \in Jobs \ {j} : HeldRow(Q.op[k], Q.jobs[k]) = HeldRow(P.op[k], P.jobs[k])
  BY DEF HeldRow
<1>4. ASSUME NEW s \in Destinations, NEW k \in Jobs
      PROVE  Places(Q, k, s) <=> IF k = j THEN s = j ELSE Places(P, k, s)
  BY <1>2, <1>3 DEF Places
<1>5. \A s \in Destinations : ~Places(P, j, s)
  BY <1>2, Names DEF Places
<1>6. \A k \in Jobs : ~Places(P, k, j)
  BY DEF Places
<1>7. \A s \in Destinations : Q.tail[s] # 0 => Places(Q, Q.tail[s], s)
  <2> TAKE s \in Destinations
  <2> HAVE Q.tail[s] # 0
  <2>1. CASE s = j
    BY <2>1, <1>4
  <2>2. CASE s # j
    <3>1. Q.tail[s] = P.tail[s] /\ P.tail[s] \in Jobs /\ Places(P, P.tail[s], s)
      BY <1>1, <2>2, Names DEF QueueOK
    <3> QED
      BY <1>4, <1>5, <3>1
  <2> QED
    BY <2>1, <2>2
<1>8. \A k \in Jobs : Q.op[k].ahead # 0 =>
           /\ Q.op[k].ahead < k
           /\ HeldRow(Q.op[k], Q.jobs[k]).session \in Destinations
           /\ Places(Q, Q.op[k].ahead, HeldRow(Q.op[k], Q.jobs[k]).session)
  <2> TAKE k \in Jobs
  <2> HAVE Q.op[k].ahead # 0
  <2>1. k # j /\ Q.op[k].ahead = P.op[k].ahead /\ P.op[k].ahead \in Jobs
    BY <1>1
  <2>2. /\ P.op[k].ahead < k
        /\ HeldRow(P.op[k], P.jobs[k]).session \in Destinations
        /\ Places(P, P.op[k].ahead, HeldRow(P.op[k], P.jobs[k]).session)
    BY <2>1, Names DEF QueueOK
  <2> QED
    BY <1>3, <1>4, <1>5, <2>1, <2>2
<1>9. \A s \in Destinations, l \in Jobs :
           Runs(Q.op[l]) /\ Places(Q, l, s) => l <= Q.tail[s]
  <2> TAKE s \in Destinations, l \in Jobs
  <2> HAVE Runs(Q.op[l]) /\ Places(Q, l, s)
  <2>1. CASE l = j
    <3>1. s = j
      BY <1>4, <2>1
    <3> QED
      BY <2>1, <3>1, Names
  <2>2. CASE l # j
    BY <1>4, <1>6, <2>2 DEF QueueOK
  <2> QED
    BY <2>1, <2>2
<1>10. \A s \in Destinations, l, k \in Jobs :
           Runs(Q.op[l]) /\ Places(Q, l, s) /\ Places(Q, k, s) /\ l < k => l <= Q.op[k].ahead
  <2> TAKE s \in Destinations, l, k \in Jobs
  <2> HAVE Runs(Q.op[l]) /\ Places(Q, l, s) /\ Places(Q, k, s) /\ l < k
  <2>1. CASE s = j
    <3>1. l = j /\ k = j
      BY <1>4, <1>6, <2>1
    <3> QED
      BY <3>1, Names
  <2>2. CASE s # j
    <3>1. l # j /\ k # j
      BY <1>4, <2>2
    <3> QED
      BY <1>4, <3>1 DEF QueueOK
  <2> QED
    BY <2>1, <2>2
<1> QED
  BY <1>7, <1>8, <1>9, <1>10 DEF QueueOK

LEMMA BindKeeps ==
    ASSUME IInv, NEW p \in Processes, NEW j \in Jobs, Bind(p, j)
    PROVE  IInv' /\ Extends(disk, disk')
<1> DEFINE P == proc[p]
           row == [Held(P, j) EXCEPT !.session = j]
           M == Rewritten(P, j, row, P.op[j])
           Q == [M EXCEPT !.tail[j] = j]
<1>1. /\ P.op[j].pc = "executing" /\ Runs(P.op[j]) /\ ~P.op[j].aborted
      /\ Held(P, j).session = New
      /\ replied' = replied /\ told' = told /\ replied \subseteq replied'
  BY DEF Bind, Runs
<1>2. OthersOK'
  BY DEF Bind, OthersOK, IInv
<1>3. /\ P \in ProcState /\ disk \in Table /\ QueueOK(P)
      /\ P.jobs[j] \in Rows /\ P.op[j] \in Operation
      /\ RowOK(P.jobs[j], j, disk, replied)
      /\ JobOK(P.phase, P.op[j], P.jobs[j], j, disk, replied)
  BY AtRest DEF JobOK
<1>4. P.op[j].ahead = 0
  BY <1>1, <1>3 DEF JobOK
<1>5. /\ P.phase = "open" /\ Acts(P) /\ P.op[j].own = NoRow
      /\ IsActive(P.jobs[j]) /\ P.jobs[j] \in Row
      /\ P.jobs[j].text /\ P.jobs[j].note = "none"
      /\ Held(P, j) = P.jobs[j]
      /\ disk[j] # NoRow /\ disk[j].status \notin FinalStatus
      /\ Same(P.jobs[j], disk[j])
      /\ P.op[j].queued
  BY <1>1, RunFacts
<1>6. /\ row \in Row /\ row.status = P.jobs[j].status /\ row.note = "none" /\ row.text
      /\ row.source = P.jobs[j].source /\ row.session = j
  BY <1>5, Names DEF Row
<1>7. disk' = Put(disk, j, row)
  BY DEF Bind, Put
<1>8. proc' = [proc EXCEPT ![p] = [Assigned(P, j, row) EXCEPT !.tail[j] = j]]
  BY DEF Bind
<1> HIDE DEF row
<1>9. Assigned(P, j, row) = M
  BY <1>3, <1>5 DEF Assigned, Rewritten, ProcState
<1>10. Becomes(p, Q)
  BY <1>8, <1>9 DEF Becomes
<1>11. /\ M \in ProcState /\ M.phase = P.phase /\ M.tail = P.tail /\ M.marking = P.marking
       /\ M.jobs[j] = row /\ M.op[j] = P.op[j]
       /\ \A k \in Jobs \ {j} : M.jobs[k] = P.jobs[k] /\ M.op[k] = P.op[k]
  BY <1>3, <1>6, RewrittenFacts DEF Rows
<1>12. M.op = P.op
  BY <1>3, <1>11 DEF ProcState
<1> HIDE DEF M
<1>13. /\ Q \in ProcState /\ Q.phase = M.phase /\ Q.jobs = M.jobs /\ Q.marking = M.marking
       /\ Q.op = M.op
       /\ \A s \in Destinations : Q.tail[s] = IF s = j THEN j ELSE M.tail[s]
  BY <1>11, Names DEF ProcState
<1> HIDE DEF Q
<1>14. disk' \in Table /\ disk'[j] = row /\ Extends(disk, disk') /\ row # NoRow
  BY <1>3, <1>5, <1>6, <1>7, <1>1, WriteFacts DEF Same
<1>15. RowOK(row, j, disk', replied')
  BY <1>3, <1>5, <1>6, <1>14 DEF RowOK, Reported, IsActive, ActiveStatus
<1>16. \A k \in Jobs : HeldRow(P.op[k], P.jobs[k]).session # j
  <2> TAKE k \in Jobs
  <2>1. disk[j].session # j
    BY <1>1, <1>5, Names DEF Same, New
  <2>2. RowOK(P.jobs[k], k, disk, replied) /\ RowOK(P.op[k].own, k, disk, replied)
    BY AtRest DEF JobOK
  <2> QED
    BY <2>1, <2>2 DEF RowOK, HeldRow
<1>17. QueueOK(Q)
  <2>1. /\ Q.op = P.op /\ P.jobs[j].session = New /\ Q.jobs[j].session = j
        /\ \A k \in Jobs \ {j} : Q.jobs[k] = P.jobs[k]
        /\ \A s \in Destinations : Q.tail[s] = IF s = j THEN j ELSE P.tail[s]
    BY <1>1, <1>5, <1>6, <1>11, <1>12, <1>13
  <2> QED
    BY <1>3, <1>4, <1>5, <1>13, <1>16, <2>1, BoundQueue
<1>18. JobOK(Q.phase, Q.op[j], Q.jobs[j], j, disk', replied')
  <2>1. IsActive(row)
    BY <1>5, <1>6 DEF IsActive
  <2> QED
    BY <1>1, <1>4, <1>5, <1>11, <1>13, <1>14, <1>15, <2>1, RunOK
<1>19. StepsAbout(P, Q, j)
  <2>1. \A k \in Jobs \ {j} : /\ Q.jobs[k] = P.jobs[k]
                              /\ Alike(P.op[k], Q.op[k])
                              /\ Q.op[k].ahead = P.op[k].ahead
    BY <1>11, <1>12, <1>13 DEF Alike
  <2>2. Acts(Q) /\ Q.op[j].pc # "label"
    BY <1>1, <1>5, <1>11, <1>13 DEF Acts
  <2> QED
    BY <1>1, <1>5, <1>11, <1>13, <1>17, <2>1, <2>2 DEF StepsAbout
<1>20. Writes(disk, disk', j, replied')
  BY <1>5, <1>6, <1>7, <1>15 DEF Writes
<1>21. Agrees(P, Q, j, disk, disk', replied')
  <2>1. Same(Q.jobs[j], disk'[j])
    BY <1>11, <1>13, <1>14 DEF Same
  <2> QED
    BY <1>1, <1>5, <1>14, <1>18, <1>20, <2>1 DEF Agrees
<1>22. IInv'
  BY <1>1, <1>2, <1>10, <1>19, <1>21, JobStep
<1> QED
  BY <1>14, <1>22

LEMMA DeliverEventKeeps ==
    ASSUME IInv, NEW p \in Processes, NEW j \in Jobs, DeliverEvent(p, j)
    PROVE  IInv' /\ Extends(disk, disk')
<1> DEFINE P == proc[p]
           row == P.jobs[j]
           pc == CASE row.note = "none" -> "idle" [] row.note = "unsent" -> "sending"
                   [] row.note = "sent" /\ row.final -> "deferred" [] OTHER -> "finalizing"
           o == [Idle EXCEPT !.pc = pc]
<1>1. /\ P.phase = "open" /\ P.op[j].pc = "idle" /\ disk' = disk
      /\ replied' = replied /\ told' = told /\ replied \subseteq replied'
  BY DEF DeliverEvent
<1>2. OthersOK'
  BY DEF DeliverEvent, OthersOK, IInv
<1>3. /\ P \in ProcState /\ Matches(P, disk) /\ row \in Rows
      /\ RowOK(row, j, disk, replied)
      /\ JobOK(P.phase, P.op[j], P.jobs[j], j, disk, replied)
  BY AtRest DEF JobOK
<1>4. proc' = [proc EXCEPT ![p].op[j] = o]
  BY DEF DeliverEvent
<1>5. /\ pc \in {"idle", "sending", "deferred", "finalizing"}
      /\ pc = "idle" <=> row.note = "none"
      /\ pc \in {"deferred", "finalizing"} => row.note # "unsent"
  OBVIOUS
<1> HIDE DEF pc
<1>6. /\ o \in Operation /\ o.pc = pc /\ o.queued = FALSE /\ o.ahead = 0 /\ o.own = NoRow
      /\ pc = "idle" => o = Idle
  <2>1. /\ o \in Operation /\ o.pc = pc /\ o.queued = Idle.queued /\ o.aborted = Idle.aborted
        /\ o.ahead = Idle.ahead /\ o.own = Idle.own
    BY <1>5, IdleFacts, PcFacts DEF Stages
  <2> HIDE DEF o
  <2>2. pc = "idle" => o = Idle
    BY <2>1, IdleFacts, SameOperation DEF Alike
  <2> QED
    BY <2>1, <2>2, IdleFacts
<1> HIDE DEF o
<1>7. Becomes(p, Rewritten(P, j, row, o))
  <2>1. WithOp(P, j, o) = Rewritten(P, j, row, o)
    BY <1>3, <1>6, StageFacts
  <2>2. proc' = [proc EXCEPT ![p] = WithOp(P, j, o)]
    BY <1>4 DEF WithOp
  <2> HIDE DEF row
  <2> QED
    BY <2>1, <2>2 DEF Becomes
<1>8. P.op[j] = Idle /\ Idle.queued = FALSE /\ Acts(P) /\ Same(row, disk[j])
  BY <1>1, <1>3, IdleFacts DEF JobOK, Acts, Matches
<1>9. HeldRow(o, row) = row
  BY <1>6 DEF HeldRow
<1>10. JobOK(P.phase, o, row, j, disk, replied)
  <2>1. CASE pc = "idle"
    BY <1>3, <1>6, <2>1, IdleOK
  <2>2. CASE pc # "idle"
    <3>1. row.status \in Reported
      BY <1>3, <1>5, <2>2 DEF RowOK
    <3>2. disk[j] # NoRow
      BY <1>8, <3>1, NoRowFacts DEF Same, Reported
    <3>3. pc \in {"finalizing", "deferred"} => j \in replied
      BY <1>3, <1>5, <3>1 DEF RowOK
    <3>4. Reports(o)
      BY <1>5, <1>6, <2>2 DEF Reports
    <3>5. RowOK(o.own, j, disk, replied)
      BY <1>6, NoRowFacts
    <3> HIDE DEF row
    <3> QED
      BY <1>3, <1>6, <1>8, <1>9, <3>1, <3>2, <3>3, <3>4, <3>5, ReportOK
  <2> QED
    BY <2>1, <2>2
<1>11. ~Runs(o) /\ o.pc # "label"
  BY <1>5, <1>6 DEF Runs
<1>12. Extends(disk, disk') /\ Writes(disk, disk', j, replied') /\ Same(disk[j], disk'[j])
  BY <1>1 DEF Extends, Writes, Same
<1> HIDE DEF row
<1>13. IInv'
  BY <1>1, <1>2, <1>3, <1>6, <1>7, <1>8, <1>10, <1>11, <1>12, IdleFacts, RewriteStep
<1> QED
  BY <1>12, <1>13

\* A job with an active row is not being reported on.
LEMMA ActiveFacts ==
    ASSUME IInv, NEW p \in Processes, NEW j \in Jobs, Acts(proc[p]), IsActive(proc[p].jobs[j])
    PROVE  /\ proc[p].jobs[j] \in Row /\ Same(proc[p].jobs[j], disk[j])
           /\ disk[j] # NoRow /\ disk[j].status \notin FinalStatus
           /\ Runs(proc[p].op[j]) \/ proc[p].op[j] = Idle
<1>1. /\ JobOK(proc[p].phase, proc[p].op[j], proc[p].jobs[j], j, disk, replied)
      /\ proc[p].op[j] \in Operation /\ proc[p].jobs[j] \in Rows
      /\ Same(proc[p].jobs[j], disk[j])
  BY AtRest DEF Matches
<1>2. proc[p].jobs[j] \in Row
  BY <1>1, RowFacts
<1>3. disk[j].status \in ActiveStatus
  BY <1>1 DEF Same, IsActive
<1>4. disk[j] # NoRow /\ disk[j].status \notin FinalStatus /\ disk[j].status \notin Reported
  BY <1>3, NoRowFacts DEF ActiveStatus, FinalStatus, Reported
<1>5. ~Reports(proc[p].op[j])
  BY <1>4, ReportFacts
<1>6. proc[p].op[j].pc # "label"
  BY <1>1, <1>4 DEF JobOK
<1>7. Runs(proc[p].op[j]) \/ proc[p].op[j].pc = "idle"
  BY <1>1, <1>5, <1>6 DEF Runs, Reports, Operation
<1> QED
  BY <1>1, <1>2, <1>4, <1>7 DEF JobOK

LEMMA CancelKeeps ==
    ASSUME IInv, ~Overlap, NEW p \in Processes, NEW j \in Jobs, Cancel(p, j)
    PROVE  IInv' /\ Extends(disk, disk')
<1> DEFINE P == proc[p]
           row == [P.jobs[j] EXCEPT !.status = "cancelled", !.text = FALSE]
           o == [P.op[j] EXCEPT !.aborted = IF HasRun(P, j) THEN TRUE ELSE @]
<1>1. /\ Acts(P) /\ IsActive(P.jobs[j])
      /\ replied' = replied /\ told' = told /\ replied \subseteq replied'
  BY DEF Cancel, Acts
<1>2. OthersOK'
  BY DEF Cancel, OthersOK, IInv
<1>3. disk' = Put(disk, j, row)
  BY DEF Cancel, Put
<1>4. proc' = [proc EXCEPT ![p].jobs[j] = row,
                           ![p].op[j].aborted = IF HasRun(P, j) THEN TRUE ELSE @]
  BY DEF Cancel
<1>5. /\ P.jobs[j] \in Row /\ Same(P.jobs[j], disk[j])
      /\ disk[j] # NoRow /\ disk[j].status \notin FinalStatus
      /\ Runs(P.op[j]) \/ P.op[j] = Idle
  BY <1>1, ActiveFacts
<1>6. /\ row \in Row /\ row.status = "cancelled" /\ row.note = P.jobs[j].note
      /\ row.source = P.jobs[j].source /\ row.session = P.jobs[j].session
  BY <1>5 DEF Row, FinalStatus
<1>7. /\ P \in ProcState /\ disk \in Table /\ P.op[j] \in Operation /\ P.jobs[j] \in Rows
      /\ RowOK(P.jobs[j], j, disk, replied)
      /\ JobOK(P.phase, P.op[j], P.jobs[j], j, disk, replied)
      /\ proc \in [Processes -> ProcState]
  BY AtRest DEF JobOK, ProcsOK
<1>8. /\ o \in Operation /\ o.pc = P.op[j].pc /\ o.queued = P.op[j].queued
      /\ o.aborted = (Runs(P.op[j]) \/ P.op[j].aborted)
      /\ o.ahead = P.op[j].ahead /\ o.own = P.op[j].own
  BY <1>7 DEF Operation, HasRun, Runs
<1>9. Becomes(p, Rewritten(P, j, row, o))
  <2>1. proc' = [proc EXCEPT ![p] = [[P EXCEPT !.jobs[j] = row]
                      EXCEPT !.op[j].aborted = IF HasRun(P, j) THEN TRUE ELSE @]]
    BY <1>4, <1>7
  <2> HIDE DEF row
  <2>2. [[P EXCEPT !.jobs[j] = row] EXCEPT !.op[j].aborted = IF HasRun(P, j) THEN TRUE ELSE @]
          = Rewritten(P, j, row, o)
    BY <1>7 DEF ProcState, Rewritten
  <2> QED
    BY <2>1, <2>2 DEF Becomes
<1> HIDE DEF row, o
<1>10. disk' \in Table /\ disk'[j] = row /\ Extends(disk, disk') /\ row # NoRow
  BY <1>3, <1>5, <1>6, <1>7, WriteFacts DEF Same
<1>11. RowOK(row, j, disk', replied') /\ row.status \notin Reported
  <2>1. ~IsActive(row) /\ row.status \notin Reported /\ row.note = "none"
    BY <1>1, <1>6, <1>7 DEF IsActive, ActiveStatus, Reported, RowOK
  <2> QED
    BY <1>1, <1>5, <1>6, <1>7, <1>10, <2>1, RewrittenOK
<1>12. JobOK(P.phase, o, row, j, disk', replied')
  <2>1. CASE Runs(P.op[j])
    <3>1. RowOK(o.own, j, disk', replied')
      <4>1. RowOK(P.op[j].own, j, disk, replied) /\ P.op[j].own \in Rows
        BY <1>7 DEF JobOK, Operation, Rows
      <4> QED
        BY <1>1, <1>7, <1>8, <1>10, <4>1, GrowRow
    <3>2. Runs(o) /\ o.aborted /\ o.queued /\ P.phase \in {"open", "quiescing", "failed"}
      BY <1>7, <1>8, <2>1 DEF Runs, JobOK
    <3>3. o.pc # "waiting" => o.ahead = 0
      BY <1>7, <1>8 DEF JobOK
    <3> QED
      BY <1>10, <1>11, <3>1, <3>2, <3>3 DEF JobOK, Runs, Reports
  <2>2. CASE P.op[j] = Idle
    <3>1. Runs(Idle) = FALSE
      BY IdleFacts DEF Runs
    <3>2. o = Idle
      BY <1>7, <1>8, <2>2, <3>1, IdleFacts, SameOperation DEF Alike
    <3> QED
      BY <1>11, <3>2, IdleOK
  <2> QED
    BY <1>5, <2>1, <2>2
<1>13. o.queued \/ o.ahead # 0 => HeldRow(o, row).session = HeldRow(P.op[j], P.jobs[j]).session
  BY <1>6, <1>8 DEF HeldRow
<1>14. (Runs(o) => Runs(P.op[j])) /\ o.pc # "label"
  <2>1. P.op[j].pc # "label"
    BY <1>5, IdleFacts DEF Runs
  <2> QED
    BY <1>8, <2>1 DEF Runs
<1>15. Writes(disk, disk', j, replied')
  BY <1>3, <1>5, <1>6, <1>11 DEF Writes
<1>16. Same(row, disk'[j]) /\ disk'[j].status \notin Reported /\ row \in Rows
  BY <1>6, <1>10, <1>11 DEF Same, Rows
<1>17. P.phase \notin {"unborn", "down"}
  BY <1>1 DEF Acts
<1>18. IInv'
  BY <1>1, <1>2, <1>8, <1>9, <1>10, <1>12, <1>13, <1>14, <1>15, <1>16, <1>17, RewriteStep
<1> QED
  BY <1>10, <1>18

\* Only what a process waits for or marks changes, or the phase of a process
\* that still acts and has no label and no run too many.
LEMMA AsideStep ==
    ASSUME IInv, NEW p \in Processes, NEW Q \in ProcState, Becomes(p, Q),
           OthersOK', replied' = replied, told' = told, disk' = disk,
           Acts(proc[p]), Acts(Q),
           Q.jobs = proc[p].jobs, Q.op = proc[p].op, Q.tail = proc[p].tail,
           Q.phase = proc[p].phase
           \/ /\ \A j \in Jobs : Q.op[j].pc # "label"
              /\ \A j \in Jobs : Runs(Q.op[j]) => Q.op[j].aborted /\ Q.phase # "paused"
    PROVE  IInv'
<1> DEFINE P == proc[p]
<1>1. /\ P \in ProcState /\ QueueOK(P) /\ Inner(P, disk, replied) /\ Matches(P, disk)
      /\ TableOK(disk, replied)
      /\ \A j \in Jobs : JobOK(P.phase, P.op[j], P.jobs[j], j, disk, replied)
  BY AtRest
<1>2. ASSUME NEW j \in Jobs
      PROVE  JobOK(Q.phase, Q.op[j], Q.jobs[j], j, disk, replied)
  <2>1. JobOK(P.phase, Q.op[j], Q.jobs[j], j, disk, replied)
    BY <1>1
  <2>2. CASE Q.phase = P.phase
    BY <2>1, <2>2
  <2>3. CASE Q.phase # P.phase
    <3>1. Q.op[j].pc # "label" /\ (Runs(Q.op[j]) => Q.op[j].aborted /\ Q.phase # "paused")
      BY <2>3
    <3>2. Q.phase \in {"open", "quiescing", "failed", "paused"}
      BY DEF Acts
    <3> QED
      BY <2>1, <3>1, <3>2 DEF JobOK
  <2> QED
    BY <2>2, <2>3
<1>3. QueueOK(Q)
  BY <1>1, QueueStays
<1>4. OneLabel(Q)
  BY <1>1 DEF OneLabel, Inner
<1>5. Inner(Q, disk, replied)
  BY <1>2, <1>3, <1>4 DEF Inner, Acts
<1>6. Matches(Q, disk)
  BY <1>1 DEF Matches
<1>7. Extends(disk, disk') /\ Quiet(P, Q, disk, disk')
  BY DEF Extends, Quiet
<1>8. P.phase # "unborn"
  BY DEF Acts
<1> QED
  BY <1>1, <1>5, <1>6, <1>7, <1>8, ProcessStep

LEMMA MarkingFacts ==
    ASSUME NEW P \in ProcState, NEW S \in SUBSET Jobs, NEW Q, Q = [P EXCEPT !.marking = S]
    PROVE  /\ Q \in ProcState /\ Q.phase = P.phase /\ Q.jobs = P.jobs /\ Q.op = P.op
           /\ Q.tail = P.tail /\ Q.marking = S
BY DEF ProcState

LEMMA MarkResumedKeeps ==
    ASSUME IInv, NEW p \in Processes, NEW j \in Jobs, MarkResumed(p, j)
    PROVE  IInv' /\ Extends(disk, disk')
<1> DEFINE P == proc[p]
           row == [P.jobs[j] EXCEPT !.status = "resumed", !.text = FALSE]
           S == P.marking \ {j}
           N == [P EXCEPT !.marking = S]
<1>1. /\ j \in P.marking
      /\ replied' = replied /\ told' = told /\ replied \subseteq replied'
  BY DEF MarkResumed
<1>2. OthersOK'
  BY DEF MarkResumed, OthersOK, IInv
<1>3. /\ P \in ProcState /\ disk \in Table /\ P.op[j] \in Operation /\ P.jobs[j] \in Rows
      /\ RowOK(P.jobs[j], j, disk, replied)
      /\ JobOK(P.phase, P.op[j], P.jobs[j], j, disk, replied)
      /\ proc \in [Processes -> ProcState] /\ Inner(P, disk, replied)
  BY AtRest DEF JobOK, ProcsOK
<1>4. Acts(P)
  BY <1>1, <1>3 DEF Inner
<1>5. /\ N \in ProcState /\ N.phase = P.phase /\ N.jobs = P.jobs /\ N.op = P.op
      /\ N.tail = P.tail
  <2>1. S \in SUBSET Jobs
    BY <1>3 DEF ProcState
  <2> QED
    BY <1>3, <2>1, MarkingFacts
<1>6. CASE proc' = [proc EXCEPT ![p].marking = @ \ {j}] /\ disk' = disk
  <2>1. Becomes(p, N)
    BY <1>3, <1>6 DEF Becomes
  <2> HIDE DEF N
  <2>2. Acts(N)
    BY <1>4, <1>5 DEF Acts
  <2>3. IInv'
    BY <1>1, <1>2, <1>4, <1>5, <1>6, <2>1, <2>2, AsideStep
  <2> QED
    BY <1>6, <2>3 DEF Extends
<1>7. CASE IsActive(P.jobs[j]) /\ ~HasRun(P, j)
  <2> DEFINE Q == Rewritten(N, j, row, P.op[j])
  <2>1. /\ disk' = Put(disk, j, row)
        /\ proc' = [[proc EXCEPT ![p].marking = @ \ {j}] EXCEPT ![p].jobs[j] = row]
    BY <1>7 DEF MarkResumed, Put
  <2>2. /\ P.jobs[j] \in Row /\ Same(P.jobs[j], disk[j])
        /\ disk[j] # NoRow /\ disk[j].status \notin FinalStatus
        /\ Runs(P.op[j]) \/ P.op[j] = Idle
    BY <1>4, <1>7, ActiveFacts
  <2>3. P.op[j] = Idle
    BY <1>7, <2>2 DEF HasRun, Runs
  <2>4. /\ row \in Row /\ row.status = "resumed" /\ row.note = P.jobs[j].note
        /\ row.source = P.jobs[j].source /\ row.session = P.jobs[j].session
    BY <2>2 DEF Row, FinalStatus
  <2> HIDE DEF row
  <2>5. proc' = [proc EXCEPT ![p] = [N EXCEPT !.jobs[j] = row]]
    BY <1>3, <2>1
  <2>6. [N EXCEPT !.jobs[j] = row] = Q
    <3> HIDE DEF N
    <3> QED
      BY <1>5 DEF ProcState, Rewritten
  <2>7. Becomes(p, Q)
    BY <2>5, <2>6 DEF Becomes
  <2> HIDE DEF N
  <2>8. /\ Q \in ProcState /\ Q.phase = N.phase /\ Q.tail = N.tail
        /\ Q.jobs[j] = row /\ Q.op[j] = P.op[j]
        /\ \A k \in Jobs \ {j} : Q.jobs[k] = N.jobs[k] /\ Q.op[k] = N.op[k]
    BY <1>3, <1>5, <2>4, RewrittenFacts DEF Rows
  <2> HIDE DEF Q
  <2>9. disk' \in Table /\ disk'[j] = row /\ Extends(disk, disk') /\ row # NoRow
    BY <1>3, <2>1, <2>2, <2>4, WriteFacts DEF Same
  <2>10. RowOK(row, j, disk', replied') /\ row.status \notin Reported
    <3>1. ~IsActive(row) /\ row.status \notin Reported /\ row.note = "none"
      BY <1>3, <1>7, <2>4 DEF IsActive, ActiveStatus, Reported, RowOK
    <3> QED
      BY <1>1, <1>3, <2>2, <2>4, <2>9, <3>1, RewrittenOK
  <2>11. InPlace(P, Q, j)
    BY <1>4, <1>5, <2>3, <2>8, IdleFacts DEF InPlace, Acts, Runs
  <2>12. Agrees(P, Q, j, disk, disk', replied')
    <3>1. JobOK(Q.phase, Q.op[j], Q.jobs[j], j, disk', replied')
      BY <2>3, <2>8, <2>10, IdleOK
    <3>2. Writes(disk, disk', j, replied')
      BY <2>1, <2>2, <2>4, <2>10 DEF Writes
    <3>3. Same(Q.jobs[j], disk'[j]) /\ disk'[j].status \notin Reported
      BY <2>8, <2>9, <2>10 DEF Same
    <3> QED
      BY <1>4, <2>9, <3>1, <3>2, <3>3 DEF Agrees
  <2>13. IInv'
    BY <1>1, <1>2, <2>7, <2>11, <2>12, InPlaceStep
  <2> QED
    BY <2>9, <2>13
<1>8. \/ proc' = [proc EXCEPT ![p].marking = @ \ {j}] /\ disk' = disk
      \/ IsActive(P.jobs[j]) /\ ~HasRun(P, j)
  BY DEF MarkResumed
<1> QED
  BY <1>6, <1>7, <1>8

------------------------------------------------------------------------------
\* New work: an id is claimed by the label of a start, or has its row.
LEMMA NewWork ==
    ASSUME NEW procs, NEW D, NEW R, NEW p \in Processes, NEW j \in Jobs, NEW Q, NEW E, NEW src,
           TableOK(D, R), ProcsOK(procs, D, R), E \in Table, Extends(D, E),
           Acts(procs[p]), Acts(Q), Inner(Q, E, R), Matches(Q, E),
           D[j] = NoRow, \A k \in Jobs \ {j} : E[k] = D[k],
           \A k \in Jobs \ {j} : /\ Q.op[k].pc # "label"
                                 /\ Runs(Q.op[k]) => Runs(procs[p].op[k]),
           SourceOK(src, D, procs), \A k \in Jobs : D[k].source # src,
           E[j] # NoRow => E[j].source = src /\ Q.op[j].pc # "label",
           Q.op[j].pc = "label" => Q.op[j].own.source = src
    PROVE  ProcsOK([procs EXCEPT ![p] = Q], E, R)
<1> DEFINE new == [procs EXCEPT ![p] = Q]
<1>1. procs \in [Processes -> ProcState] /\ Q \in ProcState /\ D \in Table
  BY DEF ProcsOK, Inner, TableOK
<1>2. /\ new \in [Processes -> ProcState]
      /\ new[p] = Q /\ \A q \in Processes \ {p} : new[q] = procs[q]
  BY <1>1
<1> HIDE DEF new
<1>3. ASSUME NEW q \in Processes, q # p
      PROVE  /\ Inner(procs[q], D, R) /\ ~Acts(procs[q])
             /\ \A k \in Jobs : ~Runs(procs[q].op[k]) /\ procs[q].op[k].pc # "label"
  BY <1>3, OneActs DEF ProcsOK
<1>4. ASSUME NEW q \in Processes
      PROVE  Inner(new[q], E, R) /\ Matches(new[q], E)
  <2>1. CASE q = p
    BY <2>1, <1>2
  <2>2. CASE q # p
    <3>1. new[q] = procs[q]
      BY <1>2, <2>2
    <3>2. Inner(procs[q], E, R)
      BY <1>1, <1>3, <2>2, Grow
    <3> QED
      BY <1>3, <2>2, <3>1, <3>2 DEF Matches
  <2> QED
    BY <2>1, <2>2
<1>5. LineOK(new)
  <2>1. LineOK(procs) /\ procs[p].phase # "unborn"
    BY DEF ProcsOK, Acts
  <2> QED
    BY <1>2, <2>1, LineStays
<1>6. ASSUME NEW i, SourceOK(i, D, procs)
      PROVE  SourceOK(i, E, new)
  <2> SUFFICES ASSUME i \in Jobs
               PROVE  /\ E[i] # NoRow /\ E[i].status \notin Reported
                      /\ \A q \in Processes : ~Runs(new[q].op[i])
    BY DEF SourceOK
  <2>1. /\ D[i] # NoRow /\ D[i].status \notin Reported
        /\ \A q \in Processes : ~Runs(procs[q].op[i])
    BY <1>6 DEF SourceOK
  <2>2. i # j /\ E[i] = D[i]
    BY <2>1
  <2>3. \A q \in Processes : ~Runs(new[q].op[i])
    BY <1>2, <2>1, <2>2
  <2> QED
    BY <2>1, <2>2, <2>3
<1>7. SourcesOK(D, procs)
  BY DEF ProcsOK
<1>8. SourcesOK(E, new)
  <2>1. ASSUME NEW k \in Jobs
        PROVE  SourceOK(E[k].source, E, new)
    <3>1. CASE k # j
      BY <3>1, <1>6, <1>7 DEF SourcesOK
    <3>2. CASE k = j /\ E[j] # NoRow
      BY <3>2, <1>6
    <3>3. CASE k = j /\ E[j] = NoRow
      BY <3>3, NoRowFacts, Names DEF SourceOK, New
    <3> QED
      BY <3>1, <3>2, <3>3
  <2>2. ASSUME NEW q \in Processes, NEW k \in Jobs, new[q].op[k].pc = "label"
        PROVE  /\ SourceOK(new[q].op[k].own.source, E, new)
               /\ \A l \in Jobs : E[l].source # new[q].op[k].own.source
    <3>1. q = p /\ k = j
      BY <1>2, <1>3, <2>2
    <3>2. new[q].op[k].own.source = src /\ E[j] = D[j]
      BY <1>2, <2>2, <3>1
    <3> QED
      BY <1>6, <3>2
  <2> QED
    BY <2>1, <2>2 DEF SourcesOK
<1>9. ProcsOK(new, E, R)
  BY <1>2, <1>4, <1>5, <1>8 DEF ProcsOK
<1> QED
  BY <1>9 DEF new

\* The id that comes next.
LEMMA NextIdFacts ==
    ASSUME IInv, NEW p \in Processes, proc[p].phase = "open",
           \A k \in Jobs : proc[p].op[k].pc # "label",
           NEW j \in Jobs, NextId(j)
    PROVE  /\ disk[j] = NoRow /\ \A i \in Jobs : i < j => disk[i] # NoRow
           /\ proc[p].op[j] = Idle
<1>1. disk[j] = NoRow /\ \A k \in Jobs : Unused(k) => j <= k
  BY DEF NextId, Unused
<1>2. \A q \in Processes, k \in Jobs : proc[q].op[k].pc # "label"
  <2> TAKE q \in Processes, k \in Jobs
  <2>1. Acts(proc[p]) /\ ProcsOK(proc, disk, replied)
    BY AtRest DEF Acts
  <2> QED
    BY <2>1, OneActs
<1>3. ASSUME NEW i \in Jobs, i < j
      PROVE  disk[i] # NoRow
  <2>1. ~Unused(i)
    BY <1>1, <1>3, Names
  <2> QED
    BY <1>2, <2>1 DEF Unused
<1>4. proc[p].op[j] = Idle
  BY <1>1, <1>2, AtRest DEF JobOK
<1> QED
  BY <1>1, <1>3, <1>4

\* The row of a new job.
NewRow(source, session) == [NoRow EXCEPT !.status = "queued", !.source = source,
                                         !.session = session, !.text = TRUE]

LEMMA NewRowFacts ==
    ASSUME NEW source \in Requests \cup Jobs, NEW session \in Destinations \cup {New}
    PROVE  /\ NewRow(source, session) \in Row
           /\ NewRow(source, session).status = "queued"
           /\ NewRow(source, session).note = "none" /\ NewRow(source, session).text
           /\ NewRow(source, session).source = source
           /\ NewRow(source, session).session = session
BY DEF NewRow, NoRow, Row, ActiveStatus

\* j joins the queue of its session behind everyone admitted before.
LEMMA AdmittedQueue ==
    ASSUME NEW P \in ProcState, NEW Q \in ProcState, NEW j \in Jobs, QueueOK(P),
           P.op[j].queued = FALSE, P.op[j].ahead = 0,
           \A k \in Jobs \ {j} : /\ Q.op[k] = P.op[k] /\ Q.jobs[k] = P.jobs[k]
                                 /\ P.op[k].queued => k < j,
           Q.op[j].queued, Q.op[j].own = NoRow,
           Q.jobs[j].session \in Destinations \cup {New},
           Q.op[j].ahead = IF Q.jobs[j].session = New THEN 0 ELSE P.tail[Q.jobs[j].session],
           \A s \in Destinations :
               Q.tail[s] = IF s = Q.jobs[j].session THEN j ELSE P.tail[s]
    PROVE  QueueOK(Q)
<1>1. P.tail \in [Destinations -> Jobs \cup {0}] /\ \A k \in Jobs : P.op[k].ahead \in Jobs \cup {0}
  BY DEF ProcState, Operation
<1>2. HeldRow(Q.op[j], Q.jobs[j]) = Q.jobs[j]
  BY DEF HeldRow
<1>3. ASSUME NEW s, NEW k \in Jobs
      PROVE  Places(Q, k, s) <=> IF k = j THEN s = Q.jobs[j].session ELSE Places(P, k, s)
  BY <1>2 DEF Places
<1>4. ASSUME NEW s, NEW k \in Jobs, Places(P, k, s)
      PROVE  k # j /\ k < j
  BY <1>4 DEF Places
<1>5. \A s \in Destinations : P.tail[s] # 0 => P.tail[s] \in Jobs /\ Places(P, P.tail[s], s)
  BY <1>1 DEF QueueOK
<1>6. \A s \in Destinations : Q.tail[s] # 0 => Places(Q, Q.tail[s], s)
  BY <1>3, <1>4, <1>5
<1>7. \A k \in Jobs : Q.op[k].ahead # 0 =>
           /\ Q.op[k].ahead < k
           /\ HeldRow(Q.op[k], Q.jobs[k]).session \in Destinations
           /\ Places(Q, Q.op[k].ahead, HeldRow(Q.op[k], Q.jobs[k]).session)
  <2> TAKE k \in Jobs
  <2> HAVE Q.op[k].ahead # 0
  <2>1. CASE k = j
    <3>1. Q.jobs[j].session \in Destinations /\ Q.op[k].ahead = P.tail[Q.jobs[j].session]
      BY <2>1
    <3>2. Q.op[k].ahead \in Jobs /\ Places(P, Q.op[k].ahead, Q.jobs[j].session)
      BY <1>5, <3>1
    <3> QED
      BY <1>2, <1>3, <1>4, <2>1, <3>1, <3>2
  <2>2. CASE k # j
    <3>1. /\ Q.op[k].ahead = P.op[k].ahead /\ P.op[k].ahead \in Jobs
          /\ HeldRow(Q.op[k], Q.jobs[k]) = HeldRow(P.op[k], P.jobs[k])
      BY <1>1, <2>2
    <3>2. /\ P.op[k].ahead < k
          /\ HeldRow(P.op[k], P.jobs[k]).session \in Destinations
          /\ Places(P, P.op[k].ahead, HeldRow(P.op[k], P.jobs[k]).session)
      BY <3>1 DEF QueueOK
    <3> QED
      BY <1>3, <1>4, <3>1, <3>2
  <2> QED
    BY <2>1, <2>2
<1>8. \A s \in Destinations, l \in Jobs :
           Runs(Q.op[l]) /\ Places(Q, l, s) => l <= Q.tail[s]
  <2> TAKE s \in Destinations, l \in Jobs
  <2> HAVE Runs(Q.op[l]) /\ Places(Q, l, s)
  <2>1. CASE l = j
    <3>1. Q.tail[s] = j
      BY <1>3, <2>1
    <3> QED
      BY <2>1, <3>1, Names
  <2>2. CASE l # j
    <3>1. Runs(P.op[l]) /\ Places(P, l, s)
      BY <1>3, <2>2
    <3>2. l <= P.tail[s] /\ l < j
      BY <1>4, <3>1 DEF QueueOK
    <3>3. l <= j
      BY <3>2, Names
    <3> QED
      BY <3>2, <3>3
  <2> QED
    BY <2>1, <2>2
<1>9. \A s \in Destinations, l, k \in Jobs :
           Runs(Q.op[l]) /\ Places(Q, l, s) /\ Places(Q, k, s) /\ l < k => l <= Q.op[k].ahead
  <2> TAKE s \in Destinations, l, k \in Jobs
  <2> HAVE Runs(Q.op[l]) /\ Places(Q, l, s) /\ Places(Q, k, s) /\ l < k
  <2>1. CASE l = j
    <3>1. k # j
      BY <2>1, Names
    <3>2. k < j
      BY <1>3, <1>4, <3>1
    <3> QED
      BY <2>1, <3>2, Names
  <2>2. CASE l # j /\ k = j
    <3>1. Runs(P.op[l]) /\ Places(P, l, s) /\ s = Q.jobs[j].session
      BY <1>3, <2>2
    <3>2. Q.op[j].ahead = P.tail[s]
      BY <3>1, Names
    <3>3. l <= P.tail[s]
      BY <3>1 DEF QueueOK
    <3> QED
      BY <2>2, <3>2, <3>3
  <2>3. CASE l # j /\ k # j
    <3>1. Runs(P.op[l]) /\ Places(P, l, s) /\ Places(P, k, s)
      BY <1>3, <2>3
    <3> QED
      BY <2>3, <3>1 DEF QueueOK
  <2> QED
    BY <2>1, <2>2, <2>3
<1> QED
  BY <1>6, <1>7, <1>8, <1>9 DEF QueueOK

Admitted(P, j, row, o, tail, marking) ==
    [Rewritten(P, j, row, o) EXCEPT !.tail = tail, !.marking = marking]

LEMMA AdmittedFacts ==
    ASSUME NEW P \in ProcState, NEW j \in Jobs, NEW row \in Row, NEW o \in Operation,
           NEW tail \in [Destinations -> Jobs \cup {0}], NEW marking \in SUBSET Jobs
    PROVE  /\ Admitted(P, j, row, o, tail, marking) \in ProcState
           /\ Admitted(P, j, row, o, tail, marking).phase = P.phase
           /\ Admitted(P, j, row, o, tail, marking).tail = tail
           /\ Admitted(P, j, row, o, tail, marking).marking = marking
           /\ Admitted(P, j, row, o, tail, marking).jobs[j] = row
           /\ Admitted(P, j, row, o, tail, marking).op[j] = o
           /\ \A k \in Jobs \ {j} :
                  /\ Admitted(P, j, row, o, tail, marking).jobs[k] = P.jobs[k]
                  /\ Admitted(P, j, row, o, tail, marking).op[k] = P.op[k]
<1> DEFINE M == Rewritten(P, j, row, o)
           Q == Admitted(P, j, row, o, tail, marking)
<1>1. /\ M \in ProcState /\ M.phase = P.phase
      /\ M.jobs[j] = row /\ M.op[j] = o
      /\ \A k \in Jobs \ {j} : M.jobs[k] = P.jobs[k] /\ M.op[k] = P.op[k]
  BY RewrittenFacts DEF Rows
<1>2. Q = [M EXCEPT !.tail = tail, !.marking = marking]
  BY DEF Admitted
<1> HIDE DEF M, Q
<1>3. /\ Q \in ProcState /\ Q.phase = M.phase /\ Q.jobs = M.jobs /\ Q.op = M.op
      /\ Q.tail = tail /\ Q.marking = marking
  BY <1>1, <1>2 DEF ProcState
<1>4. /\ Q.jobs[j] = row /\ Q.op[j] = o
      /\ \A k \in Jobs \ {j} : Q.jobs[k] = P.jobs[k] /\ Q.op[k] = P.op[k]
  BY <1>1, <1>3
<1> QED
  BY <1>1, <1>3, <1>4 DEF Q

LEMMA AdmissionKeeps ==
    ASSUME IInv, NEW p \in Processes, NEW j \in Jobs, NEW row \in Row,
           proc[p].phase = "open", proc[p].op[j].pc \in {"idle", "label"},
           \A k \in Jobs \ {j} : proc[p].op[k].pc # "label",
           disk[j] = NoRow, \A i \in Jobs : i < j => disk[i] # NoRow,
           row.status = "queued", RowOK(row, j, disk, replied),
           SourceOK(row.source, disk, proc), \A k \in Jobs : disk[k].source # row.source,
           Admission(p, j, row), resume' \in [Jobs -> {"none", "asked", "done"}],
           ask' \subseteq Jobs, replied' = replied, faults' \in 0 .. MaxFaults
    PROVE  IInv' /\ Extends(disk, disk')
<1> DEFINE P == proc[p]
           ahead == IF row.session = New THEN 0 ELSE P.tail[row.session]
           o == [Idle EXCEPT !.pc = "waiting", !.queued = TRUE, !.ahead = ahead]
           tail == [s \in Destinations |-> IF s = row.session THEN j ELSE P.tail[s]]
           marking == IF row.source \in Jobs THEN P.marking \cup {row.source} ELSE P.marking
           Q == Admitted(P, j, row, o, tail, marking)
<1>1. /\ P \in ProcState /\ QueueOK(P) /\ Matches(P, disk) /\ Inner(P, disk, replied)
      /\ disk \in Table /\ TableOK(disk, replied) /\ ProcsOK(proc, disk, replied)
      /\ P.op[j] \in Operation
      /\ JobOK(P.phase, P.op[j], P.jobs[j], j, disk, replied)
  BY AtRest
<1>2. disk' = Put(disk, j, row) /\ told' = told \cup {j}
  BY DEF Admission, Put
<1>3. proc' = [proc EXCEPT ![p] =
                [P EXCEPT !.jobs[j] = row, !.op[j] = o, !.tail = tail, !.marking = marking]]
  BY DEF Admission
<1>4. P.tail \in [Destinations -> Jobs \cup {0}] /\ P.marking \in SUBSET Jobs
  BY <1>1 DEF ProcState
<1>5. row.session \in Destinations \cup {New} /\ row \in Rows /\ row # NoRow
  BY RowFacts DEF Rows
<1>6. ahead \in Jobs \cup {0}
  BY <1>4, <1>5
<1>7. tail \in [Destinations -> Jobs \cup {0}] /\ marking \in SUBSET Jobs
  BY <1>4
<1>8. \A s \in Destinations : tail[s] = IF s = row.session THEN j ELSE P.tail[s]
  OBVIOUS
<1> HIDE DEF ahead, tail, marking
<1>9. /\ o \in Operation /\ o.pc = "waiting" /\ o.queued = TRUE /\ o.ahead = ahead
      /\ o.aborted = FALSE /\ o.own = NoRow
  BY <1>6 DEF Idle, Operation
<1> HIDE DEF o
<1>10. Becomes(p, Q)
  <2>1. [P EXCEPT !.jobs[j] = row, !.op[j] = o, !.tail = tail, !.marking = marking] = Q
    BY <1>1 DEF Admitted, Rewritten, ProcState
  <2> QED
    BY <1>3, <2>1 DEF Becomes
<1>11. /\ Q \in ProcState /\ Q.phase = P.phase /\ Q.tail = tail /\ Q.marking = marking
       /\ Q.jobs[j] = row /\ Q.op[j] = o
       /\ \A k \in Jobs \ {j} : Q.jobs[k] = P.jobs[k] /\ Q.op[k] = P.op[k]
  BY <1>1, <1>7, <1>9, AdmittedFacts
<1> HIDE DEF Q
<1>12. disk' \in Table /\ disk'[j] = row /\ \A k \in Jobs \ {j} : disk'[k] = disk[k]
  BY <1>1, <1>2, <1>5 DEF Table, Put
<1>13. Extends(disk, disk')
  BY <1>12 DEF Extends
<1>14. \A k \in Jobs : k # j => RowOK(disk'[k], k, disk', replied')
  BY <1>1, <1>12, <1>13, GrowRow DEF Table, TableOK
<1>15. RowOK(row, j, disk', replied')
  BY <1>1, <1>5, <1>13, GrowRow
<1>16. TableOK(disk', replied')
  <2>1. \A k \in Jobs : RowOK(disk'[k], k, disk', replied')
    BY <1>12, <1>14, <1>15
  <2>2. ASSUME NEW i \in Jobs, NEW k \in Jobs, disk'[k] # NoRow, i < k
        PROVE  disk'[i] # NoRow
    <3>1. CASE k = j
      BY <1>12, <1>13, <2>2, <3>1 DEF Extends
    <3>2. CASE k # j
      <4>1. disk[k] # NoRow /\ disk[i] # NoRow
        BY <1>1, <1>12, <2>2, <3>2 DEF TableOK
      <4> QED
        BY <1>13, <4>1 DEF Extends
    <3> QED
      BY <3>1, <3>2
  <2>3. ASSUME NEW i \in Jobs, NEW k \in Jobs, disk'[i] # NoRow, k # i
        PROVE  disk'[k].source # disk'[i].source
    <3>1. CASE i = j
      BY <1>12, <2>3, <3>1
    <3>2. CASE k = j
      BY <1>12, <2>3, <3>2
    <3>3. CASE i # j /\ k # j
      BY <1>1, <1>12, <2>3, <3>3 DEF TableOK
    <3> QED
      BY <3>1, <3>2, <3>3
  <2> QED
    BY <1>12, <2>1, <2>2, <2>3 DEF TableOK
<1>17. /\ Acts(P) /\ Acts(Q) /\ Q.phase = "open"
  BY <1>11 DEF Acts
<1>18. P.op[j].queued = FALSE /\ P.op[j].ahead = 0
  BY <1>1, IdleFacts DEF JobOK, Operation
<1>19. ASSUME NEW k \in Jobs, k # j, P.op[k].queued
       PROVE  k < j
  <2>1. JobOK(P.phase, P.op[k], P.jobs[k], k, disk, replied)
    BY <1>1 DEF Inner
  <2>2. disk[k] # NoRow
    BY <1>19, <2>1, IdleFacts DEF JobOK
  <2>3. ~(j < k)
    BY <1>1, <2>2 DEF TableOK
  <2> QED
    BY <1>19, <2>3, Names
<1>20. QueueOK(Q)
  <2>1. Q.jobs[j].session \in Destinations \cup {New}
    BY <1>5, <1>11
  <2>2. Q.op[j].ahead = IF Q.jobs[j].session = New THEN 0 ELSE P.tail[Q.jobs[j].session]
    BY <1>9, <1>11 DEF ahead
  <2>3. \A s \in Destinations : Q.tail[s] = IF s = Q.jobs[j].session THEN j ELSE P.tail[s]
    BY <1>8, <1>11
  <2> QED
    <3>1. \A k \in Jobs \ {j} : /\ Q.op[k] = P.op[k] /\ Q.jobs[k] = P.jobs[k]
                                /\ P.op[k].queued => k < j
      BY <1>11, <1>19
    <3>2. Q.op[j].queued /\ Q.op[j].own = NoRow
      BY <1>9, <1>11
    <3> QED
      BY <1>1, <1>11, <1>18, <2>1, <2>2, <2>3, <3>1, <3>2, AdmittedQueue
<1>21. ASSUME NEW k \in Jobs
       PROVE  JobOK(Q.phase, Q.op[k], Q.jobs[k], k, disk', replied')
  <2>1. CASE k = j
    <3>1. Runs(o) /\ IsActive(row)
      BY <1>9 DEF Runs, IsActive, ActiveStatus
    <3> QED
      BY <1>5, <1>9, <1>11, <1>12, <1>15, <1>17, <2>1, <3>1, RunOK
  <2>2. CASE k # j
    <3>1. /\ JobOK(P.phase, P.op[k], P.jobs[k], k, disk, replied)
          /\ P.op[k] \in Operation /\ P.jobs[k] \in Rows /\ P.op[k].pc # "label"
      BY <1>1, <2>2 DEF Inner, ProcState
    <3>2. JobOK(P.phase, P.op[k], P.jobs[k], k, disk', replied')
      BY <1>1, <1>13, <3>1, GrowJob
    <3> QED
      BY <1>11, <2>2, <3>2
  <2> QED
    BY <2>1, <2>2
<1>22. Inner(Q, disk', replied')
  <2>1. OneLabel(Q)
    BY <1>9, <1>11 DEF OneLabel
  <2> QED
    BY <1>11, <1>17, <1>20, <1>21, <2>1 DEF Inner
<1>23. Matches(Q, disk')
  <2> SUFFICES ASSUME NEW k \in Jobs
               PROVE  Same(Q.jobs[k], disk'[k])
    BY DEF Matches
  <2>1. CASE k = j
    BY <1>11, <1>12, <2>1 DEF Same
  <2>2. CASE k # j
    BY <1>1, <1>11, <1>12, <1>17, <2>2 DEF Matches
  <2> QED
    BY <2>1, <2>2
<1>24. ProcsOK(proc', disk', replied')
  <2>1. \A k \in Jobs \ {j} : Q.op[k].pc # "label" /\ (Runs(Q.op[k]) => Runs(P.op[k]))
    BY <1>11
  <2>2. Q.op[j].pc # "label"
    BY <1>9, <1>11
  <2>3. proc' = [proc EXCEPT ![p] = Q]
    BY <1>10 DEF Becomes
  <2>4. ProcsOK([proc EXCEPT ![p] = Q], disk', replied)
    BY <1>1, <1>12, <1>13, <1>17, <1>22, <1>23, <2>1, <2>2, NewWork
  <2> QED
    BY <2>3, <2>4
<1>25. \A k \in told' : disk'[k] # NoRow
  BY <1>2, <1>5, <1>12, <1>13 DEF IInv, Extends
<1>26. IInv'
  BY <1>2, <1>16, <1>24, <1>25 DEF IInv
<1> QED
  BY <1>13, <1>26

LEMMA StartKeeps ==
    ASSUME IInv, NEW p \in Processes, NEW source \in Requests \cup Jobs,
           NEW session \in Destinations \cup {New}, Start(p, source, session),
           session \in Jobs => disk[session].session = session,
           SourceOK(source, disk, proc),
           resume' \in [Jobs -> {"none", "asked", "done"}], ask' \subseteq Jobs,
           replied' = replied, faults' \in 0 .. MaxFaults
    PROVE  IInv' /\ Extends(disk, disk')
<1> DEFINE P == proc[p]
           row == NewRow(source, session)
<1>1. /\ P \in ProcState /\ QueueOK(P) /\ Matches(P, disk) /\ Inner(P, disk, replied)
      /\ disk \in Table /\ TableOK(disk, replied) /\ ProcsOK(proc, disk, replied)
      /\ \A k \in Jobs : JobOK(P.phase, P.op[k], P.jobs[k], k, disk, replied)
  BY AtRest
<1>2. /\ P.phase = "open" /\ \A k \in Jobs : P.op[k].pc # "label"
      /\ \A k \in Jobs : P.jobs[k].source # source
  BY DEF Start
<1>3. PICK j \in Jobs :
          /\ NextId(j)
          /\ IF session # New
             THEN /\ proc' = [proc EXCEPT ![p].op[j] = [Idle EXCEPT !.pc = "label", !.own = row]]
                  /\ UNCHANGED <<disk, told>>
             ELSE Admission(p, j, row)
  BY DEF Start, NewRow
<1>4. /\ disk[j] = NoRow /\ \A i \in Jobs : i < j => disk[i] # NoRow
      /\ P.op[j] = Idle
  BY <1>2, <1>3, NextIdFacts
<1>5. /\ row \in Row /\ row.status = "queued" /\ row.note = "none" /\ row.text
      /\ row.source = source /\ row.session = session
  BY NewRowFacts
<1> HIDE DEF row
<1>6. RowOK(row, j, disk, replied)
  BY <1>5 DEF RowOK, Reported
<1>7. Acts(P) /\ \A k \in Jobs : disk[k].source # source
  BY <1>1, <1>2 DEF Acts, Matches, Same
<1>8. CASE session = New
  <2>1. Admission(p, j, row)
    BY <1>3, <1>8
  <2>2. P.op[j].pc \in {"idle", "label"}
    BY <1>4, IdleFacts
  <2> QED
    BY <1>2, <1>4, <1>5, <1>6, <1>7, <2>1, <2>2, AdmissionKeeps
<1>9. CASE session # New
  <2> DEFINE o == [Idle EXCEPT !.pc = "label", !.own = row]
             Q == Rewritten(P, j, P.jobs[j], o)
  <2>1. proc' = [proc EXCEPT ![p].op[j] = o] /\ disk' = disk /\ told' = told
    BY <1>3, <1>9
  <2>2. /\ o \in Operation /\ o.pc = "label" /\ o.queued = FALSE /\ o.ahead = 0 /\ o.own = row
    BY <1>5 DEF Idle, Operation
  <2> HIDE DEF o
  <2>3. Becomes(p, Q)
    <3>1. WithOp(P, j, o) = Q
      BY <1>1, <2>2, StageFacts
    <3>2. proc' = [proc EXCEPT ![p] = WithOp(P, j, o)]
      BY <2>1 DEF WithOp
    <3> QED
      BY <3>1, <3>2 DEF Becomes
  <2>4. P.jobs[j] \in Rows
    BY <1>1 DEF ProcState
  <2>5. /\ Q \in ProcState /\ Q.phase = P.phase /\ Q.tail = P.tail /\ Q.marking = P.marking
        /\ Q.jobs[j] = P.jobs[j] /\ Q.op[j] = o
        /\ \A k \in Jobs \ {j} : Q.jobs[k] = P.jobs[k] /\ Q.op[k] = P.op[k]
    BY <1>1, <2>2, <2>4, RewrittenFacts
  <2> HIDE DEF Q
  <2>6. QueueOK(Q)
    <3>1. ASSUME NEW k \in Jobs
          PROVE  /\ Q.op[k].queued = P.op[k].queued /\ Q.op[k].ahead = P.op[k].ahead
                 /\ P.op[k].queued \/ P.op[k].ahead # 0 =>
                        HeldRow(Q.op[k], Q.jobs[k]).session = HeldRow(P.op[k], P.jobs[k]).session
                 /\ Runs(Q.op[k]) => Runs(P.op[k])
      <4>1. CASE k = j
        BY <4>1, <1>4, <2>2, <2>5, IdleFacts DEF Runs
      <4>2. CASE k # j
        BY <4>2, <2>5
      <4> QED
        BY <4>1, <4>2
    <3> QED
      BY <1>1, <2>5, <3>1, QueueStays
  <2>7. JobOK(Q.phase, Q.op[j], Q.jobs[j], j, disk, replied)
    <3>1. RowOK(P.jobs[j], j, disk, replied)
      BY <1>1 DEF JobOK
    <3> QED
      BY <1>2, <1>4, <1>5, <1>6, <2>2, <2>5, <3>1 DEF JobOK, Runs, Reports
  <2>8. Inner(Q, disk, replied)
    <3>1. \A k \in Jobs : JobOK(Q.phase, Q.op[k], Q.jobs[k], k, disk, replied)
      BY <1>1, <2>5, <2>7
    <3>2. OneLabel(Q)
      BY <1>2, <2>5 DEF OneLabel
    <3> QED
      BY <1>2, <2>5, <2>6, <3>1, <3>2 DEF Inner, Acts
  <2>9. Acts(Q) /\ Matches(Q, disk)
    <3>1. \A k \in Jobs : Q.jobs[k] = P.jobs[k]
      BY <2>5
    <3> QED
      BY <1>1, <1>7, <2>5, <3>1 DEF Matches, Acts
  <2>10. Extends(disk, disk)
    BY DEF Extends
  <2>11. ProcsOK([proc EXCEPT ![p] = Q], disk, replied)
    <3>1. \A k \in Jobs \ {j} : Q.op[k].pc # "label" /\ (Runs(Q.op[k]) => Runs(P.op[k]))
      BY <1>2, <2>5
    <3>2. Q.op[j].own.source = source
      BY <1>5, <2>2, <2>5
    <3> QED
      BY <1>1, <1>4, <1>7, <2>8, <2>9, <2>10, <3>1, <3>2, NewWork
  <2>12. IInv'
    BY <1>1, <2>1, <2>3, <2>11 DEF IInv, Becomes
  <2> QED
    BY <2>1, <2>10, <2>12
<1> QED
  BY <1>8, <1>9

LEMMA SubmitKeeps ==
    ASSUME IInv, NEW p \in Processes, NEW r \in Requests, NEW s \in Destinations \cup {New},
           Submit(p, r, s)
    PROVE  IInv' /\ Extends(disk, disk')
<1>1. Start(p, r, s) /\ resume' = resume /\ ask' = ask /\ replied' = replied /\ faults' = faults
  BY DEF Submit
<1>2. s \in Jobs => disk[s].session = s
  BY Names DEF Submit, New
<1>3. SourceOK(r, disk, proc)
  BY Names DEF SourceOK
<1> QED
  BY <1>1, <1>2, <1>3, StartKeeps DEF IInv

LEMMA LabelReadKeeps ==
    ASSUME IInv, NEW p \in Processes, NEW j \in Jobs, LabelRead(p, j)
    PROVE  IInv' /\ Extends(disk, disk')
<1> DEFINE P == proc[p]
           row == P.op[j].own
<1>1. /\ P.op[j].pc = "label"
      /\ resume' = resume /\ ask' = ask /\ replied' = replied /\ faults' = faults
  BY DEF LabelRead
<1>2. /\ P \in ProcState /\ Inner(P, disk, replied) /\ P.op[j] \in Operation /\ P.jobs[j] \in Rows
      /\ ProcsOK(proc, disk, replied) /\ RowOK(P.jobs[j], j, disk, replied)
      /\ JobOK(P.phase, P.op[j], P.jobs[j], j, disk, replied)
      /\ Matches(P, disk)
  BY AtRest DEF JobOK
<1>3. /\ P.op[j].queued = FALSE /\ P.phase = "open" /\ row.status = "queued" /\ P.op[j].ahead = 0
      /\ disk[j] = NoRow /\ \A i \in Jobs : i < j => disk[i] # NoRow
      /\ RowOK(row, j, disk, replied)
  BY <1>1, <1>2 DEF JobOK, Operation
<1>4. CASE Room(P)
  <2>1. row \in Row
    <3>1. row \in Rows
      BY <1>2 DEF Operation, Rows
    <3> QED
      BY <1>3, <3>1, NoRowFacts DEF Rows
  <2>2. Admission(p, j, row)
    BY <1>4 DEF LabelRead
  <2>3. \A k \in Jobs \ {j} : P.op[k].pc # "label"
    BY <1>1, <1>2 DEF Inner, OneLabel
  <2>4. SourceOK(row.source, disk, proc) /\ \A k \in Jobs : disk[k].source # row.source
    BY <1>1, <1>2 DEF ProcsOK, SourcesOK
  <2> QED
    BY <1>1, <1>3, <2>1, <2>2, <2>3, <2>4, AdmissionKeeps DEF IInv
<1>5. CASE ~Room(P)
  <2>1. proc' = [proc EXCEPT ![p].op[j] = Idle] /\ disk' = disk /\ told' = told
    BY <1>5 DEF LabelRead
  <2>2. Becomes(p, Rewritten(P, j, P.jobs[j], Idle))
    <3>1. WithOp(P, j, Idle) = Rewritten(P, j, P.jobs[j], Idle)
      BY <1>2, IdleFacts, StageFacts
    <3>2. proc' = [proc EXCEPT ![p] = WithOp(P, j, Idle)]
      BY <2>1 DEF WithOp
    <3> QED
      BY <3>1, <3>2 DEF Becomes
  <2>3. OthersOK' /\ replied \subseteq replied'
    BY <1>1, <2>1 DEF OthersOK, IInv
  <2>4. JobOK(P.phase, Idle, P.jobs[j], j, disk', replied')
    BY <1>1, <1>2, <2>1, IdleOK
  <2>5. Extends(disk, disk') /\ Writes(disk, disk', j, replied') /\ Same(disk[j], disk'[j])
    BY <2>1 DEF Extends, Writes, Same
  <2>6. Acts(P) => Same(P.jobs[j], disk'[j])
    BY <1>2, <2>1 DEF Matches
  <2>7. ~Runs(Idle) /\ Idle.pc # "label"
    BY IdleFacts DEF Runs
  <2>8. IInv'
    BY <1>2, <1>3, <2>1, <2>2, <2>3, <2>4, <2>5, <2>6, <2>7, IdleFacts, RewriteStep
  <2> QED
    BY <2>5, <2>8
<1> QED
  BY <1>4, <1>5

LEMMA ResumeEventKeeps ==
    ASSUME IInv, NEW p \in Processes, NEW j \in Jobs, ResumeEvent(p, j)
    PROVE  IInv' /\ Extends(disk, disk')
<1> DEFINE P == proc[p]
<1>1. /\ ask' = ask /\ replied' = replied /\ faults' = faults
      /\ ask' \subseteq Jobs /\ faults' \in 0 .. MaxFaults
  BY DEF ResumeEvent, IInv
<1>2. CASE /\ resume' = [resume EXCEPT ![j] = "done"]
           /\ UNCHANGED <<disk, proc, told>>
  <2>1. resume' \in [Jobs -> {"none", "asked", "done"}]
    BY <1>2 DEF IInv
  <2> QED
    BY <1>1, <1>2, <2>1 DEF IInv, Extends
<1>3. CASE /\ P.phase = "open"
           /\ proc' = [proc EXCEPT ![p].marking = @ \cup {j}]
           /\ UNCHANGED <<disk, resume, told>>
  <2> DEFINE S == P.marking \cup {j}
             Q == [P EXCEPT !.marking = S]
  <2>1. P \in ProcState /\ proc \in [Processes -> ProcState]
    BY AtRest DEF ProcsOK
  <2>2. S \in SUBSET Jobs
    BY <2>1 DEF ProcState
  <2>3. Becomes(p, Q)
    BY <1>3, <2>1 DEF Becomes
  <2>4. /\ Q \in ProcState /\ Q.phase = P.phase /\ Q.jobs = P.jobs /\ Q.op = P.op
        /\ Q.tail = P.tail
    BY <2>1, <2>2, MarkingFacts
  <2> HIDE DEF Q
  <2>5. OthersOK'
    BY <1>1, <1>3 DEF OthersOK, IInv
  <2>6. Acts(P) /\ Acts(Q)
    BY <1>3, <2>4 DEF Acts
  <2>7. IInv'
    BY <1>1, <1>3, <2>3, <2>4, <2>5, <2>6, AsideStep
  <2> QED
    BY <1>3, <2>7 DEF Extends
<1>4. CASE /\ j \in Resumable(P)
           /\ Start(p, j, P.jobs[j].session)
           /\ UNCHANGED resume
  <2>1. P.phase = "open" /\ Acts(P) /\ IsActive(P.jobs[j]) /\ ~Runs(P.op[j])
    BY <1>4 DEF Start, Acts, Resumable, HasRun, Runs
  <2>2. /\ P.jobs[j] \in Row /\ Same(P.jobs[j], disk[j])
        /\ disk[j] # NoRow /\ disk[j].status \notin FinalStatus
    BY <2>1, ActiveFacts
  <2>3. RowOK(P.jobs[j], j, disk, replied) /\ ProcsOK(proc, disk, replied)
    BY AtRest DEF JobOK
  <2>4. P.jobs[j].session \in Destinations \cup {New}
    BY <2>2 DEF Row
  <2>5. P.jobs[j].session \in Jobs => disk[P.jobs[j].session].session = P.jobs[j].session
    BY <2>3 DEF RowOK
  <2>6. SourceOK(j, disk, proc)
    <3>1. \A q \in Processes : ~Runs(proc[q].op[j])
      BY <2>1, <2>3, OneActs
    <3> QED
      BY <2>2, <3>1 DEF SourceOK, Reported, FinalStatus
  <2>7. resume' \in [Jobs -> {"none", "asked", "done"}]
    BY <1>4 DEF IInv
  <2> QED
    BY <1>1, <1>4, <2>4, <2>5, <2>6, <2>7, StartKeeps
<1> QED
  BY <1>2, <1>3, <1>4 DEF ResumeEvent

------------------------------------------------------------------------------
\* Recovery changes no more than the status of what was active.
LEMMA RecoveredFacts ==
    ASSUME NEW row \in Rows
    PROVE  /\ Recovered(row) \in Rows
           /\ Recovered(row) = NoRow <=> row = NoRow
           /\ Recovered(row).source = row.source /\ Recovered(row).session = row.session
           /\ Recovered(row).note = row.note /\ Recovered(row).text = row.text
           /\ IsActive(Recovered(row)) <=> IsActive(row)
           /\ ~IsActive(row) => Recovered(row) = row
           /\ Recovered(row).status \in Reported <=> row.status \in Reported
           /\ row.status \in FinalStatus => Recovered(row).status = row.status
<1>1. CASE IsActive(row)
  <2>1. row \in Row /\ row # NoRow
    BY <1>1, RowFacts
  <2>2. Recovered(row) = [row EXCEPT !.status = "queued"]
    BY <1>1 DEF Recovered
  <2>3. /\ Recovered(row) \in Row /\ Recovered(row).status = "queued"
        /\ Recovered(row).source = row.source /\ Recovered(row).session = row.session
        /\ Recovered(row).note = row.note /\ Recovered(row).text = row.text
    BY <2>1, <2>2 DEF Row, ActiveStatus
  <2>4. Recovered(row) \in Rows /\ Recovered(row) # NoRow
    BY <2>3, NoRowFacts DEF Rows
  <2>5. /\ IsActive(Recovered(row)) /\ Recovered(row).status \notin Reported
        /\ row.status \notin Reported /\ row.status \notin FinalStatus
    BY <1>1, <2>3 DEF IsActive, ActiveStatus, FinalStatus, Reported
  <2> QED
    BY <1>1, <2>1, <2>3, <2>4, <2>5
<1>2. CASE ~IsActive(row)
  BY <1>2 DEF Recovered
<1> QED
  BY <1>1, <1>2

LEMMA RecoveredOK ==
    ASSUME NEW row \in Rows, NEW j, NEW D, NEW R, RowOK(row, j, D, R)
    PROVE  RowOK(Recovered(row), j, D, R)
BY RecoveredFacts DEF RowOK

\* The process after activate().
Restarted(P, rows) ==
    [P EXCEPT !.phase = "open", !.caller = 0, !.waits = {}, !.jobs = rows,
              !.op = [j \in Jobs |-> IF P.op[j].pc = "idle" THEN Idle
                                     ELSE [P.op[j] EXCEPT !.own = Held(P, j)]]]

LEMMA RestartedFacts ==
    ASSUME NEW P \in ProcState, NEW rows \in Table
    PROVE  /\ Restarted(P, rows) \in ProcState
           /\ Restarted(P, rows).phase = "open" /\ Restarted(P, rows).jobs = rows
           /\ Restarted(P, rows).tail = P.tail
           /\ \A j \in Jobs :
                  /\ P.op[j].pc = "idle" => Restarted(P, rows).op[j] = Idle
                  /\ P.op[j].pc # "idle" =>
                         /\ Restarted(P, rows).op[j].pc = P.op[j].pc
                         /\ Restarted(P, rows).op[j].queued = P.op[j].queued
                         /\ Restarted(P, rows).op[j].aborted = P.op[j].aborted
                         /\ Restarted(P, rows).op[j].ahead = P.op[j].ahead
                         /\ Restarted(P, rows).op[j].own = Held(P, j)
<1> DEFINE op == [j \in Jobs |-> IF P.op[j].pc = "idle" THEN Idle
                                 ELSE [P.op[j] EXCEPT !.own = Held(P, j)]]
           Q == Restarted(P, rows)
<1>1. ASSUME NEW j \in Jobs
      PROVE  /\ op[j] \in Operation
             /\ P.op[j].pc = "idle" => op[j] = Idle
             /\ P.op[j].pc # "idle" =>
                    /\ op[j].pc = P.op[j].pc /\ op[j].queued = P.op[j].queued
                    /\ op[j].aborted = P.op[j].aborted /\ op[j].ahead = P.op[j].ahead
                    /\ op[j].own = Held(P, j)
  <2>1. P.op[j] \in Operation /\ P.jobs[j] \in Rows
    BY DEF ProcState
  <2>2. Held(P, j) \in Row \cup {NoRow}
    BY <2>1 DEF Held, Operation, Rows
  <2>3. CASE P.op[j].pc = "idle"
    BY <2>3, IdleFacts
  <2>4. CASE P.op[j].pc # "idle"
    <3>1. op[j] = [P.op[j] EXCEPT !.own = Held(P, j)]
      BY <2>4
    <3> HIDE DEF op
    <3> QED
      BY <2>1, <2>2, <2>4, <3>1 DEF Operation
  <2> QED
    BY <2>3, <2>4
<1>2. op \in [Jobs -> Operation]
  BY <1>1
<1>3. Q = [P EXCEPT !.phase = "open", !.caller = 0, !.waits = {}, !.jobs = rows, !.op = op]
  BY DEF Restarted
<1> HIDE DEF op, Q
<1>4. /\ Q \in ProcState /\ Q.phase = "open" /\ Q.jobs = rows /\ Q.tail = P.tail /\ Q.op = op
  BY <1>2, <1>3 DEF ProcState, Table, Phases
<1> QED
  BY <1>1, <1>4 DEF Q

\* activate() and open(): a stopped process takes the table as it recovers it.
LEMMA Activation ==
    ASSUME NEW procs, NEW D, NEW R, NEW p \in Processes, NEW E, NEW Q,
           TableOK(D, R), ProcsOK(procs, D, R),
           procs[p].phase \in {"failed", "paused", "unborn"},
           \A q \in Processes \ {p} : ~Acts(procs[q]),
           procs[p].phase = "unborn" =>
               \A q \in Processes : q < p => procs[q].phase # "unborn",
           E = [j \in Jobs |-> Recovered(D[j])], Q = Restarted(procs[p], E)
    PROVE  /\ E \in Table /\ Extends(D, E) /\ TableOK(E, R)
           /\ ProcsOK([procs EXCEPT ![p] = Q], E, R)
<1> DEFINE P == procs[p]
<1>1. D \in Table /\ \A j \in Jobs : D[j] \in Rows /\ RowOK(D[j], j, D, R)
  BY DEF TableOK, Table
<1>2. \A j \in Jobs : E[j] = Recovered(D[j])
  OBVIOUS
<1>3. E \in Table
  <2>1. \A j \in Jobs : Recovered(D[j]) \in Rows
    BY <1>1, RecoveredFacts
  <2> QED
    BY <2>1 DEF Table
<1>4. Extends(D, E) /\ \A j \in Jobs : D[j] = NoRow => E[j] = NoRow
  <2>1. ASSUME NEW j \in Jobs
        PROVE  /\ D[j] = NoRow <=> E[j] = NoRow
               /\ E[j].source = D[j].source /\ E[j].session = D[j].session
               /\ D[j].status \in FinalStatus => E[j].status = D[j].status
    <3>1. D[j] \in Rows /\ E[j] = Recovered(D[j])
      BY <1>1, <1>2
    <3> QED
      BY <3>1, RecoveredFacts
  <2> QED
    BY <2>1 DEF Extends
<1>5. TableOK(E, R)
  <2>1. \A j \in Jobs : RowOK(E[j], j, E, R)
    <3> TAKE j \in Jobs
    <3>1. RowOK(D[j], j, E, R)
      BY <1>1, <1>4, GrowRow
    <3> QED
      BY <1>1, <1>2, <3>1, RecoveredOK
  <2> QED
    BY <1>3, <1>4, <2>1, TableStays
<1>6. /\ Inner(P, D, R) /\ Matches(P, D) /\ P \in ProcState
      /\ \A j \in Jobs : JobOK(P.phase, P.op[j], P.jobs[j], j, D, R)
      /\ procs \in [Processes -> ProcState] /\ LineOK(procs)
  BY DEF ProcsOK, Inner
<1>7. \A j \in Jobs : P.op[j].pc # "label"
  BY <1>6 DEF JobOK
<1>8. Inner(P, E, R) /\ QueueOK(P)
  BY <1>1, <1>4, <1>6, <1>7, Grow DEF Inner
<1>9. /\ Q \in ProcState /\ Q.phase = "open" /\ Q.jobs = E /\ Q.tail = P.tail
      /\ \A j \in Jobs :
             /\ P.op[j].pc = "idle" => Q.op[j] = Idle
             /\ P.op[j].pc # "idle" =>
                    /\ Q.op[j].pc = P.op[j].pc /\ Q.op[j].queued = P.op[j].queued
                    /\ Q.op[j].aborted = P.op[j].aborted /\ Q.op[j].ahead = P.op[j].ahead
                    /\ Q.op[j].own = Held(P, j)
  BY <1>3, <1>6, RestartedFacts
<1>10. P.phase = "unborn" => \A j \in Jobs : P.op[j] = Idle
  BY <1>6 DEF Inner, Unborn
<1>11. ASSUME NEW j \in Jobs
       PROVE  /\ JobOK(Q.phase, Q.op[j], Q.jobs[j], j, E, R)
              /\ Q.op[j].queued = P.op[j].queued /\ Q.op[j].ahead = P.op[j].ahead
              /\ P.op[j].queued \/ P.op[j].ahead # 0 =>
                     HeldRow(Q.op[j], Q.jobs[j]).session = HeldRow(P.op[j], P.jobs[j]).session
              /\ Runs(Q.op[j]) => Runs(P.op[j])
              /\ Q.op[j].pc = P.op[j].pc
  <2>1. /\ JobOK(P.phase, P.op[j], P.jobs[j], j, D, R)
        /\ JobOK(P.phase, P.op[j], P.jobs[j], j, E, R)
        /\ RowOK(E[j], j, E, R) /\ P.op[j] \in Operation /\ P.jobs[j] \in Rows
    BY <1>5, <1>6, <1>8 DEF Inner, TableOK, ProcState
  <2>2. CASE P.op[j].pc = "idle"
    <3>1. Q.op[j] = Idle /\ P.op[j] = Idle
      BY <1>9, <2>1, <2>2 DEF JobOK
    <3> QED
      BY <1>9, <2>1, <3>1, IdleOK, IdleFacts
  <2>3. CASE P.op[j].pc # "idle"
    <3>1. Runs(P.op[j]) \/ Reports(P.op[j])
      BY <1>7, <2>1, <2>3 DEF Runs, Reports, Operation
    <3>2. Held(P, j) = HeldRow(P.op[j], P.jobs[j])
      BY DEF Held, HeldRow
    <3>3. Held(P, j) # NoRow
      <4>1. CASE Reports(P.op[j])
        <5>1. Held(P, j).status \in Reported
          BY <2>1, <3>2, <4>1 DEF JobOK
        <5> QED
          BY <5>1, NoRowFacts DEF Reported
      <4>2. CASE Runs(P.op[j]) /\ P.op[j].own = NoRow
        <5>1. Acts(P)
          BY <1>10, <2>3, IdleFacts DEF Acts
        <5>2. D[j] # NoRow /\ Same(P.jobs[j], D[j])
          BY <1>6, <2>1, <2>3, <5>1, <1>7 DEF JobOK, Matches
        <5>3. D[j].status # "none"
          BY <1>1, <5>2, RowFacts
        <5> QED
          BY <4>2, <5>2, <5>3, NoRowFacts DEF Same, Held
      <4>3. CASE P.op[j].own # NoRow
        BY <4>3 DEF Held
      <4> QED
        BY <3>1, <4>1, <4>2, <4>3
    <3>4. HeldRow(Q.op[j], Q.jobs[j]) = HeldRow(P.op[j], P.jobs[j])
      BY <1>9, <2>3, <3>2, <3>3 DEF HeldRow
    <3>5. /\ Q.op[j].pc = P.op[j].pc /\ Q.op[j].queued = P.op[j].queued
          /\ Q.op[j].aborted = P.op[j].aborted /\ Q.op[j].ahead = P.op[j].ahead
          /\ Q.op[j].own = Held(P, j)
      BY <1>9, <2>3
    <3>6. (Runs(Q.op[j]) <=> Runs(P.op[j])) /\ (Reports(Q.op[j]) <=> Reports(P.op[j]))
      BY <3>5 DEF Runs, Reports
    <3>7. RowOK(Q.op[j].own, j, E, R)
      BY <2>1, <3>2, <3>5 DEF JobOK, HeldRow
    <3>8. P.phase # "open"
      OBVIOUS
    <3>9. JobOK(Q.phase, Q.op[j], Q.jobs[j], j, E, R)
      <4>1. Runs(Q.op[j]) => Q.op[j].queued /\ Q.op[j].aborted
        BY <2>1, <3>5, <3>6, <3>8 DEF JobOK
      <4>2. Reports(Q.op[j]) => /\ HeldRow(Q.op[j], Q.jobs[j]).status \in Reported
                                /\ Same(HeldRow(Q.op[j], Q.jobs[j]), E[j])
        BY <2>1, <3>4, <3>6 DEF JobOK
      <4>3. /\ Q.op[j].pc \notin {"idle", "label"} /\ E[j] # NoRow
            /\ Q.op[j].pc = "deferred" => ~Q.op[j].queued
            /\ Q.op[j].pc # "waiting" => Q.op[j].ahead = 0
            /\ Q.op[j].pc \in {"finalizing", "deferred"} => j \in R
        BY <1>7, <2>1, <2>3, <3>5 DEF JobOK
      <4> QED
        BY <1>9, <2>1, <3>7, <4>1, <4>2, <4>3 DEF JobOK
    <3> QED
      BY <3>4, <3>5, <3>6, <3>9
  <2> QED
    BY <2>2, <2>3
<1>12. QueueOK(Q)
  <2>1. \A s \in Destinations : Q.tail[s] = P.tail[s]
    BY <1>9
  <2> QED
    BY <1>6, <1>8, <1>9, <1>11, <2>1, QueueStays
<1>13. Inner(Q, E, R)
  <2>1. OneLabel(Q)
    BY <1>7, <1>11 DEF OneLabel
  <2> QED
    BY <1>9, <1>11, <1>12, <2>1 DEF Inner, Acts
<1>14. Matches(Q, E)
  BY <1>9 DEF Matches, Same
<1>15. Quiet(P, Q, D, E)
  BY <1>1, <1>2, <1>4, <1>7, <1>11, RecoveredFacts DEF Quiet
<1>16. LineOK([procs EXCEPT ![p] = Q])
  <2> DEFINE new == [procs EXCEPT ![p] = Q]
  <2>1. new[p] = Q /\ \A q \in Processes \ {p} : new[q] = procs[q]
    BY <1>6
  <2> HIDE DEF new
  <2>2. ASSUME NEW q \in Processes, NEW r \in Processes, q < r,
               Acts(new[q]) \/ new[q].phase = "unborn"
        PROVE  new[r].phase = "unborn"
    <3>1. q # r
      BY <2>2, ConstantsAssumption DEF Processes
    <3>2. CASE q = p
      <4>1. procs[r].phase = "unborn"
        BY <1>6, <2>2, <3>2 DEF LineOK, Acts
      <4> QED
        BY <2>1, <3>1, <3>2, <4>1
    <3>3. CASE q # p
      <4>1. procs[q].phase = "unborn"
        BY <2>1, <2>2, <3>3
      <4>2. procs[r].phase = "unborn"
        BY <1>6, <2>2, <4>1 DEF LineOK
      <4>3. r # p
        BY <2>2, <4>1, <4>2
      <4> QED
        BY <2>1, <4>2, <4>3
    <3> QED
      BY <3>2, <3>3
  <2>3. LineOK(new)
    BY <2>2 DEF LineOK
  <2> QED
    BY <2>3 DEF new
<1>17. ProcsOK([procs EXCEPT ![p] = Q], E, R)
  BY <1>3, <1>4, <1>13, <1>14, <1>15, <1>16, QuietStep
<1> QED
  BY <1>3, <1>4, <1>5, <1>17

------------------------------------------------------------------------------
\* The process and the table while runs are told to stop.
Stopping(P, caller) ==
    LET runs == {j \in Jobs : HasRun(P, j)}
        paused == {j \in runs : IsActive(P.jobs[j])}
        rows == [j \in Jobs |-> IF j \in paused THEN Recovered(P.jobs[j]) ELSE P.jobs[j]]
    IN [P EXCEPT !.phase = "quiescing", !.caller = caller, !.jobs = rows,
                 !.waits = runs \cup {j \in Jobs : P.op[j].pc = "sending"},
                 !.op = [j \in Jobs |->
                            CASE j \in runs -> [P.op[j] EXCEPT !.aborted = TRUE]
                              [] P.op[j].pc = "deferred" -> Idle
                              [] OTHER -> P.op[j]]]

Stopped(P, D) ==
    [j \in Jobs |-> IF Runs(P.op[j]) /\ IsActive(P.jobs[j]) THEN Recovered(P.jobs[j]) ELSE D[j]]

\* Q is P with its runs aborted and what waits for a callback given up.
StopsAs(P, Q) ==
    /\ Q \in ProcState /\ Q.phase = "quiescing" /\ Q.tail = P.tail
    /\ Q.marking = P.marking
    /\ \A j \in Jobs :
           /\ Q.jobs[j] = IF Runs(P.op[j]) /\ IsActive(P.jobs[j])
                          THEN Recovered(P.jobs[j]) ELSE P.jobs[j]
           /\ Runs(P.op[j]) =>
                  /\ Q.op[j].pc = P.op[j].pc /\ Q.op[j].queued = P.op[j].queued
                  /\ Q.op[j].own = P.op[j].own /\ Q.op[j].aborted = TRUE
                  /\ Q.op[j].ahead = P.op[j].ahead
           /\ P.op[j].pc = "deferred" => Q.op[j] = Idle
           /\ ~Runs(P.op[j]) /\ P.op[j].pc # "deferred" => Q.op[j] = P.op[j]

LEMMA StoppingFacts ==
    ASSUME NEW P \in ProcState, NEW caller \in Jobs \cup {0}, NEW Q, Q = Stopping(P, caller)
    PROVE  StopsAs(P, Q)
<1> DEFINE runs == {j \in Jobs : HasRun(P, j)}
           paused == {j \in runs : IsActive(P.jobs[j])}
           rows == [j \in Jobs |-> IF j \in paused THEN Recovered(P.jobs[j]) ELSE P.jobs[j]]
           waits == runs \cup {j \in Jobs : P.op[j].pc = "sending"}
           op == [j \in Jobs |-> CASE j \in runs -> [P.op[j] EXCEPT !.aborted = TRUE]
                                   [] P.op[j].pc = "deferred" -> Idle
                                   [] OTHER -> P.op[j]]
<1>1. \A j \in Jobs : (j \in runs <=> Runs(P.op[j])) /\ P.jobs[j] \in Rows /\ P.op[j] \in Operation
  BY DEF HasRun, Runs, ProcState
<1>2. ASSUME NEW j \in Jobs
      PROVE  /\ rows[j] = IF Runs(P.op[j]) /\ IsActive(P.jobs[j])
                          THEN Recovered(P.jobs[j]) ELSE P.jobs[j]
             /\ rows[j] \in Rows
  <2>1. rows[j] = IF Runs(P.op[j]) /\ IsActive(P.jobs[j])
                  THEN Recovered(P.jobs[j]) ELSE P.jobs[j]
    BY <1>1
  <2>2. P.jobs[j] \in Rows /\ Recovered(P.jobs[j]) \in Rows
    BY <1>1, RecoveredFacts
  <2> HIDE DEF rows
  <2> QED
    BY <2>1, <2>2
<1>3. ASSUME NEW j \in Jobs
      PROVE  /\ op[j] \in Operation
             /\ Runs(P.op[j]) =>
                    /\ op[j].pc = P.op[j].pc /\ op[j].queued = P.op[j].queued
                    /\ op[j].own = P.op[j].own /\ op[j].aborted = TRUE
                    /\ op[j].ahead = P.op[j].ahead
             /\ P.op[j].pc = "deferred" => op[j] = Idle
             /\ ~Runs(P.op[j]) /\ P.op[j].pc # "deferred" => op[j] = P.op[j]
  <2>1. CASE Runs(P.op[j])
    <3>1. op[j] = [P.op[j] EXCEPT !.aborted = TRUE] /\ P.op[j].pc # "deferred"
      BY <1>1, <2>1 DEF Runs
    <3>2. P.op[j] \in Operation
      BY <1>1
    <3> HIDE DEF op
    <3> QED
      BY <2>1, <3>1, <3>2 DEF Operation
  <2>2. CASE P.op[j].pc = "deferred"
    <3>1. op[j] = Idle /\ ~Runs(P.op[j])
      BY <1>1, <2>2 DEF Runs
    <3> HIDE DEF op
    <3> QED
      BY <2>2, <3>1, IdleFacts
  <2>3. CASE ~Runs(P.op[j]) /\ P.op[j].pc # "deferred"
    <3>1. op[j] = P.op[j]
      BY <1>1, <2>3
    <3> HIDE DEF op
    <3> QED
      BY <1>1, <2>3, <3>1
  <2> QED
    BY <2>1, <2>2, <2>3
<1>4. rows \in [Jobs -> Rows] /\ op \in [Jobs -> Operation] /\ waits \in SUBSET Jobs
  BY <1>2, <1>3
<1>5. Q = [P EXCEPT !.phase = "quiescing", !.caller = caller, !.jobs = rows,
                    !.waits = waits, !.op = op]
  BY DEF Stopping
<1> HIDE DEF rows, op, waits
<1>6. /\ Q \in ProcState /\ Q.phase = "quiescing" /\ Q.tail = P.tail
      /\ Q.marking = P.marking /\ Q.jobs = rows /\ Q.op = op
  BY <1>4, <1>5 DEF ProcState, Phases
<1> HIDE DEF runs, paused
<1>7. \A j \in Jobs : Q.jobs[j] = IF Runs(P.op[j]) /\ IsActive(P.jobs[j])
                                   THEN Recovered(P.jobs[j]) ELSE P.jobs[j]
  BY <1>2, <1>6
<1> QED
  BY <1>3, <1>6, <1>7 DEF StopsAs

LEMMA QuiesceKeeps ==
    ASSUME IInv, ~Overlap, NEW p \in Processes, NEW caller \in Jobs \cup {0}, Quiesce(p, caller)
    PROVE  IInv' /\ Extends(disk, disk')
<1> DEFINE P == proc[p]
           Q == Stopping(P, caller)
<1>1. /\ Acts(P) /\ P.phase = "open" /\ \A j \in Jobs : P.op[j].pc # "label"
      /\ replied' = replied /\ told' = told
  BY DEF Quiesce, Acts
<1>2. OthersOK'
  BY DEF Quiesce, OthersOK, IInv
<1>3. Becomes(p, Q)
  BY DEF Quiesce, Stopping, Becomes
<1>4. disk' = Stopped(P, disk)
  BY DEF Quiesce, Stopped, HasRun, Runs
<1>5. /\ disk \in Table /\ TableOK(disk, replied) /\ Inner(P, disk, replied)
      /\ Matches(P, disk) /\ P \in ProcState /\ QueueOK(P)
      /\ \A j \in Jobs : /\ disk[j] \in Rows /\ RowOK(disk[j], j, disk, replied)
                         /\ P.op[j] \in Operation /\ P.jobs[j] \in Rows
                         /\ JobOK(P.phase, P.op[j], P.jobs[j], j, disk, replied)
  BY AtRest
<1>6. /\ Q \in ProcState /\ Q.phase = "quiescing" /\ Q.tail = P.tail
      /\ Q.marking = P.marking
      /\ \A j \in Jobs :
             /\ Q.jobs[j] = IF Runs(P.op[j]) /\ IsActive(P.jobs[j])
                            THEN Recovered(P.jobs[j]) ELSE P.jobs[j]
             /\ Runs(P.op[j]) =>
                    /\ Q.op[j].pc = P.op[j].pc /\ Q.op[j].queued = P.op[j].queued
                    /\ Q.op[j].own = P.op[j].own /\ Q.op[j].aborted = TRUE
                    /\ Q.op[j].ahead = P.op[j].ahead
             /\ P.op[j].pc = "deferred" => Q.op[j] = Idle
             /\ ~Runs(P.op[j]) /\ P.op[j].pc # "deferred" => Q.op[j] = P.op[j]
  <2> HIDE DEF P, Q
  <2>1. P \in ProcState /\ Q = Stopping(P, caller)
    BY <1>5 DEF Q
  <2>2. StopsAs(P, Q)
    BY <2>1, StoppingFacts
  <2> QED
    BY <2>2 DEF StopsAs
<1> HIDE DEF Q
<1>7. ASSUME NEW j \in Jobs
      PROVE  /\ disk'[j] = IF Runs(P.op[j]) /\ IsActive(P.jobs[j])
                           THEN Recovered(P.jobs[j]) ELSE disk[j]
             /\ Runs(P.op[j]) /\ IsActive(P.jobs[j]) =>
                    /\ Recovered(P.jobs[j]) \in Rows /\ Recovered(P.jobs[j]) # NoRow
                    /\ Recovered(P.jobs[j]).source = disk[j].source
                    /\ Recovered(P.jobs[j]).session = disk[j].session
                    /\ Recovered(P.jobs[j]).status \notin Reported
                    /\ disk[j] # NoRow /\ disk[j].status \notin FinalStatus
  <2>1. disk'[j] = IF Runs(P.op[j]) /\ IsActive(P.jobs[j])
                   THEN Recovered(P.jobs[j]) ELSE disk[j]
    BY <1>4 DEF Stopped
  <2>2. ASSUME IsActive(P.jobs[j])
        PROVE  /\ Recovered(P.jobs[j]) \in Rows /\ Recovered(P.jobs[j]) # NoRow
               /\ Recovered(P.jobs[j]).source = disk[j].source
               /\ Recovered(P.jobs[j]).session = disk[j].session
               /\ Recovered(P.jobs[j]).status \notin Reported
               /\ disk[j] # NoRow /\ disk[j].status \notin FinalStatus
    <3>1. /\ P.jobs[j] \in Row /\ Same(P.jobs[j], disk[j])
          /\ disk[j] # NoRow /\ disk[j].status \notin FinalStatus
      BY <1>1, <2>2, ActiveFacts
    <3>2. P.jobs[j].status \notin Reported /\ P.jobs[j] # NoRow
      BY <2>2, <3>1, RowFacts, NoRowFacts DEF Reported, IsActive, ActiveStatus
    <3> QED
      BY <1>5, <3>1, <3>2, RecoveredFacts DEF Same
  <2> QED
    BY <2>1, <2>2
<1>8. disk' \in Table
  <2>1. \A j \in Jobs : disk'[j] \in Rows
    BY <1>5, <1>7
  <2> QED
    BY <1>4, <2>1 DEF Table, Stopped
<1>9. Extends(disk, disk') /\ \A j \in Jobs : disk[j] = NoRow => disk'[j] = NoRow
  BY <1>7 DEF Extends
<1>10. ASSUME NEW j \in Jobs
       PROVE  /\ RowOK(disk'[j], j, disk', replied) /\ RowOK(Q.jobs[j], j, disk', replied)
              /\ Same(Q.jobs[j], disk'[j])
              /\ Q.jobs[j].session = P.jobs[j].session
  <2>1. RowOK(disk[j], j, disk', replied) /\ RowOK(P.jobs[j], j, disk', replied)
    BY <1>5, <1>9, GrowRow DEF JobOK
  <2>2. RowOK(Recovered(P.jobs[j]), j, disk', replied)
    BY <1>5, <2>1, RecoveredOK
  <2>3. Recovered(P.jobs[j]).session = P.jobs[j].session
    BY <1>5, RecoveredFacts
  <2>4. Same(P.jobs[j], disk[j])
    BY <1>1, <1>5 DEF Matches
  <2>5. CASE Runs(P.op[j]) /\ IsActive(P.jobs[j])
    <3>1. disk'[j] = Recovered(P.jobs[j]) /\ Q.jobs[j] = Recovered(P.jobs[j])
      BY <1>6, <1>7, <2>5
    <3> QED
      BY <2>2, <2>3, <3>1 DEF Same
  <2>6. CASE ~(Runs(P.op[j]) /\ IsActive(P.jobs[j]))
    <3>1. disk'[j] = disk[j] /\ Q.jobs[j] = P.jobs[j]
      BY <1>6, <1>7, <2>6
    <3> QED
      BY <2>1, <2>4, <3>1
  <2> QED
    BY <2>5, <2>6
<1>11. TableOK(disk', replied)
  BY <1>5, <1>8, <1>9, <1>10, TableStays
<1>12. Inner(P, disk', replied)
  BY <1>1, <1>5, <1>9, Grow
<1>13. ASSUME NEW j \in Jobs
       PROVE  /\ JobOK(Q.phase, Q.op[j], Q.jobs[j], j, disk', replied)
              /\ Q.op[j].queued = P.op[j].queued /\ Q.op[j].ahead = P.op[j].ahead
              /\ P.op[j].queued \/ P.op[j].ahead # 0 =>
                     HeldRow(Q.op[j], Q.jobs[j]).session = HeldRow(P.op[j], P.jobs[j]).session
              /\ Runs(Q.op[j]) => Runs(P.op[j])
              /\ Q.op[j].pc # "label"
  <2>1. /\ JobOK(P.phase, P.op[j], P.jobs[j], j, disk', replied)
        /\ RowOK(Q.jobs[j], j, disk', replied)
        /\ Q.jobs[j].session = P.jobs[j].session
    BY <1>10, <1>12 DEF Inner
  <2>2. CASE Runs(P.op[j])
    <3>1. /\ Q.op[j].pc = P.op[j].pc /\ Q.op[j].queued = P.op[j].queued
          /\ Q.op[j].own = P.op[j].own /\ Q.op[j].aborted = TRUE
          /\ Q.op[j].ahead = P.op[j].ahead
      BY <1>6, <2>2
    <3>2. Runs(Q.op[j]) /\ ~Reports(Q.op[j])
      BY <2>2, <3>1 DEF Runs, Reports
    <3>3. JobOK(Q.phase, Q.op[j], Q.jobs[j], j, disk', replied)
      <4>1. /\ RowOK(Q.op[j].own, j, disk', replied) /\ Q.op[j].queued
            /\ disk'[j] # NoRow
            /\ Q.op[j].pc # "waiting" => Q.op[j].ahead = 0
        BY <2>1, <2>2, <3>1 DEF JobOK, Runs
      <4> QED
        BY <1>6, <2>1, <3>1, <3>2, <4>1 DEF JobOK, Runs
    <3>4. HeldRow(Q.op[j], Q.jobs[j]).session = HeldRow(P.op[j], P.jobs[j]).session
      BY <2>1, <3>1 DEF HeldRow
    <3> QED
      BY <1>1, <2>2, <3>1, <3>3, <3>4
  <2>3. CASE P.op[j].pc = "deferred"
    <3>1. Q.op[j] = Idle
      BY <1>6, <2>3
    <3>2. P.op[j].queued = FALSE /\ P.op[j].ahead = 0
      BY <1>5, <2>1, <2>3 DEF JobOK, Operation
    <3> QED
      BY <2>1, <3>1, <3>2, IdleOK, IdleFacts DEF Runs
  <2>4. CASE ~Runs(P.op[j]) /\ P.op[j].pc # "deferred"
    <3>1. Q.op[j] = P.op[j] /\ Q.jobs[j] = P.jobs[j]
      BY <1>6, <2>4
    <3>2. JobOK(Q.phase, Q.op[j], Q.jobs[j], j, disk', replied)
      BY <1>1, <2>1, <2>4, <3>1 DEF JobOK
    <3> QED
      BY <1>1, <2>4, <3>1, <3>2
  <2> QED
    BY <2>2, <2>3, <2>4
<1>14. QueueOK(Q)
  BY <1>5, <1>6, <1>13, QueueStays
<1>15. Inner(Q, disk', replied)
  <2>1. OneLabel(Q)
    BY <1>13 DEF OneLabel
  <2> QED
    BY <1>6, <1>13, <1>14, <2>1 DEF Inner, Acts
<1>16. Matches(Q, disk')
  BY <1>10 DEF Matches
<1>17. Quiet(P, Q, disk, disk')
  BY <1>7, <1>9, <1>13 DEF Quiet
<1>18. P.phase # "unborn" /\ (Acts(Q) \/ Q.phase = "unborn" => Acts(P))
  BY <1>1
<1> QED
  BY <1>1, <1>2, <1>3, <1>9, <1>11, <1>15, <1>16, <1>17, <1>18, ProcessStep

LEMMA QuiesceReturnsKeeps ==
    ASSUME IInv, NEW p \in Processes, QuiesceReturns(p)
    PROVE  IInv' /\ Extends(disk, disk')
<1> DEFINE P == proc[p]
           phase == IF \E j \in Jobs : HasRun(P, j) THEN "failed" ELSE "paused"
           Q == [P EXCEPT !.waits = {}, !.phase = phase]
<1>1. /\ P.phase = "quiescing" /\ disk' = disk /\ replied' = replied /\ told' = told
  BY DEF QuiesceReturns
<1>2. OthersOK'
  BY DEF QuiesceReturns, OthersOK, IInv
<1>3. /\ P \in ProcState /\ proc \in [Processes -> ProcState]
      /\ \A j \in Jobs : JobOK(P.phase, P.op[j], P.jobs[j], j, disk, replied)
  BY AtRest DEF ProcsOK
<1>4. Becomes(p, Q)
  BY <1>3 DEF QuiesceReturns, Becomes
<1>5. phase \in {"failed", "paused"} /\ (phase = "paused" => \A j \in Jobs : ~Runs(P.op[j]))
  BY DEF HasRun, Runs
<1> HIDE DEF phase
<1>6. /\ Q \in ProcState /\ Q.phase = phase /\ Q.jobs = P.jobs /\ Q.op = P.op
      /\ Q.tail = P.tail
  BY <1>3, <1>5 DEF ProcState, Phases
<1> HIDE DEF Q
<1>7. Acts(P) /\ Acts(Q)
  BY <1>1, <1>5, <1>6 DEF Acts
<1>8. \A j \in Jobs : /\ Q.op[j].pc # "label"
                      /\ Runs(Q.op[j]) => Q.op[j].aborted /\ Q.phase # "paused"
  BY <1>1, <1>3, <1>5, <1>6 DEF JobOK
<1>9. IInv'
  BY <1>1, <1>2, <1>4, <1>6, <1>7, <1>8, AsideStep
<1> QED
  BY <1>1, <1>9 DEF Extends

LEMMA QuiesceTimesOutKeeps ==
    ASSUME IInv, NEW p \in Processes, QuiesceTimesOut(p)
    PROVE  IInv' /\ Extends(disk, disk')
<1> DEFINE P == proc[p]
           Q == [P EXCEPT !.waits = {}, !.phase = "failed"]
<1>1. /\ P.phase = "quiescing" /\ disk' = disk /\ replied' = replied /\ told' = told
  BY DEF QuiesceTimesOut
<1>2. OthersOK'
  BY ConstantsAssumption DEF QuiesceTimesOut, Fault, OthersOK, IInv
<1>3. /\ P \in ProcState /\ proc \in [Processes -> ProcState]
      /\ \A j \in Jobs : JobOK(P.phase, P.op[j], P.jobs[j], j, disk, replied)
  BY AtRest DEF ProcsOK
<1>4. Becomes(p, Q)
  BY <1>3 DEF QuiesceTimesOut, Becomes
<1>5. /\ Q \in ProcState /\ Q.phase = "failed" /\ Q.jobs = P.jobs /\ Q.op = P.op
      /\ Q.tail = P.tail
  BY <1>3 DEF ProcState, Phases
<1> HIDE DEF Q
<1>6. Acts(P) /\ Acts(Q)
  BY <1>1, <1>5 DEF Acts
<1>7. \A j \in Jobs : /\ Q.op[j].pc # "label"
                      /\ Runs(Q.op[j]) => Q.op[j].aborted /\ Q.phase # "paused"
  BY <1>1, <1>3, <1>5 DEF JobOK
<1>8. IInv'
  BY <1>1, <1>2, <1>4, <1>5, <1>6, <1>7, AsideStep
<1> QED
  BY <1>1, <1>8 DEF Extends

\* A process stops: it held nothing the table does not have.
LEMMA DownKeeps ==
    ASSUME IInv, NEW p \in Processes, Becomes(p, [Unborn EXCEPT !.phase = "down"]),
           OthersOK', disk' = disk, replied' = replied, told' = told,
           proc[p].phase # "unborn"
    PROVE  IInv' /\ Extends(disk, disk')
<1> DEFINE Q == [Unborn EXCEPT !.phase = "down"]
<1>1. TableOK(disk, replied)
  BY AtRest
<1>2. /\ Q.phase = "down" /\ Q.marking = {} /\ \A j \in Jobs : Q.op[j] = Idle /\ Q.jobs[j] = NoRow
      /\ \A s \in Destinations : Q.tail[s] = 0
  BY DEF Unborn
<1>3. Q \in ProcState
  BY IdleFacts, NoRowFacts DEF Unborn, ProcState, Phases
<1> HIDE DEF Q
<1>4. \A j \in Jobs : JobOK(Q.phase, Q.op[j], Q.jobs[j], j, disk, replied)
  BY <1>2, IdleOK, NoRowFacts
<1>5. QueueOK(Q)
  BY <1>2, IdleFacts DEF QueueOK, Runs
<1>6. OneLabel(Q)
  BY <1>2, IdleFacts DEF OneLabel
<1>7. Inner(Q, disk, replied)
  <2>1. Q = [Unborn EXCEPT !.phase = Q.phase]
    BY <1>2 DEF Q
  <2> QED
    BY <1>2, <1>3, <1>4, <1>5, <1>6, <2>1 DEF Inner
<1>8. ~Acts(Q) /\ Q.phase # "unborn"
  BY <1>2 DEF Acts
<1>9. Matches(Q, disk)
  BY <1>8 DEF Matches
<1>10. Extends(disk, disk') /\ Quiet(proc[p], Q, disk, disk')
  BY <1>2, IdleFacts DEF Extends, Quiet, Runs
<1>11. \A j \in Jobs : Same(disk[j], disk'[j])
  BY DEF Same
<1>12. Becomes(p, Q)
  BY DEF Q
<1>13. IInv'
  BY <1>1, <1>7, <1>8, <1>9, <1>10, <1>11, <1>12, ProcessStep
<1> QED
  BY <1>10, <1>13

LEMMA StopsKeep ==
    ASSUME IInv, NEW p \in Processes, Exit(p) \/ Crash(p)
    PROVE  IInv' /\ Extends(disk, disk')
<1>1. /\ Becomes(p, [Unborn EXCEPT !.phase = "down"])
      /\ disk' = disk /\ replied' = replied /\ told' = told /\ proc[p].phase # "unborn"
  BY DEF Exit, Crash, Becomes
<1>2. OthersOK'
  BY ConstantsAssumption DEF Exit, Crash, Fault, OthersOK, IInv
<1> QED
  BY <1>1, <1>2, DownKeeps

------------------------------------------------------------------------------
\* activate() of a process that stopped, or that starts when none acts.
LEMMA ActivatedKeeps ==
    ASSUME IInv, NEW p \in Processes, Activated(p, proc[p]),
           proc[p].phase \in {"failed", "paused", "unborn"},
           \A q \in Processes \ {p} : ~Acts(proc[q]),
           proc[p].phase = "unborn" =>
               \A q \in Processes : q < p => proc[q].phase # "unborn",
           replied' = replied, told' = told, faults' \in 0 .. MaxFaults
    PROVE  IInv' /\ Extends(disk, disk')
<1> DEFINE E == [j \in Jobs |-> Recovered(disk[j])]
           Q == Restarted(proc[p], E)
<1>1. disk' = E /\ Becomes(p, Q)
  BY DEF Activated, Restarted, Becomes
<1>2. TableOK(disk, replied) /\ ProcsOK(proc, disk, replied)
  BY AtRest
<1>3. /\ Extends(disk, E) /\ TableOK(E, replied)
      /\ ProcsOK([proc EXCEPT ![p] = Q], E, replied)
  BY <1>2, Activation
<1>4. OthersOK'
  <2>1. resume' \in [Jobs -> {"none", "asked", "done"}]
    BY DEF Activated, IInv
  <2>2. ask' \subseteq Jobs
    BY DEF Activated, IInv, Undelivered
  <2> QED
    BY <2>1, <2>2 DEF OthersOK, IInv
<1> HIDE DEF E, Q
<1>5. ProcsOK(proc', disk', replied') /\ TableOK(disk', replied') /\ Extends(disk, disk')
  BY <1>1, <1>3 DEF Becomes
<1>6. \A j \in told' : disk'[j] # NoRow
  BY <1>5 DEF IInv, Extends
<1> QED
  BY <1>4, <1>5, <1>6 DEF IInv, OthersOK

LEMMA ResumesKeep ==
    ASSUME IInv, NEW p \in Processes, Compensate(p) \/ HandoffFails(p)
    PROVE  IInv' /\ Extends(disk, disk')
<1>1. /\ proc[p].phase \in {"failed", "paused"} /\ Activated(p, proc[p])
      /\ replied' = replied /\ told' = told
  BY DEF Compensate, HandoffFails
<1>2. faults' \in 0 .. MaxFaults
  BY ConstantsAssumption DEF Compensate, HandoffFails, Fault, IInv
<1>3. \A q \in Processes \ {p} : ~Acts(proc[q])
  <2>1. Acts(proc[p]) /\ ProcsOK(proc, disk, replied)
    BY <1>1, AtRest DEF Acts
  <2> QED
    BY <2>1, OneActs
<1> QED
  BY <1>1, <1>2, <1>3, ActivatedKeeps

LEMMA BootKeeps ==
    ASSUME IInv, NEW q \in Processes, Boot(q)
    PROVE  IInv' /\ Extends(disk, disk')
<1>1. /\ q \in Processes \ {1} /\ proc[q].phase = "unborn" /\ proc[q - 1].phase = "down"
      /\ Activated(q, Unborn) /\ replied' = replied /\ told' = told /\ faults' = faults
  BY DEF Boot
<1>2. faults' \in 0 .. MaxFaults
  BY <1>1 DEF IInv
<1>3. Inner(proc[q], disk, replied) /\ LineOK(proc)
  BY AtRest DEF ProcsOK
<1>4. proc[q] = Unborn
  BY <1>1, <1>3 DEF Inner, Unborn
<1>5. q - 1 \in Processes /\ q - 1 < q /\ \A r \in Processes : r < q => r = q - 1 \/ r < q - 1
  BY <1>1, ConstantsAssumption DEF Processes
<1>6. \A r \in Processes : r < q => ~Acts(proc[r]) /\ proc[r].phase # "unborn"
  BY <1>1, <1>3, <1>5 DEF LineOK, Acts
<1>7. \A r \in Processes : q < r => ~Acts(proc[r])
  BY <1>1, <1>3 DEF LineOK, Acts
<1>8. \A r \in Processes \ {q} : r < q \/ q < r
  BY ConstantsAssumption DEF Processes
<1>9. \A r \in Processes \ {q} : ~Acts(proc[r])
  BY <1>6, <1>7, <1>8
<1>10. Activated(q, proc[q])
  BY <1>1, <1>4
<1> QED
  BY <1>1, <1>2, <1>6, <1>9, <1>10, ActivatedKeeps

\* The predecessor retires: it has no run, no label and nothing to mark.
LEMMA Retirement ==
    ASSUME IInv, NEW p \in Processes, proc[p].phase = "paused", proc[p].marking = {},
           NEW Q, Q = [proc[p] EXCEPT !.phase = "retiring", !.caller = 0],
           p + 1 \in Processes, proc[p + 1].phase = "unborn"
    PROVE  /\ ProcsOK([proc EXCEPT ![p] = Q], disk, replied)
           /\ \A r \in Processes : ~Acts([proc EXCEPT ![p] = Q][r])
           /\ \A r \in Processes : r < p + 1 => [proc EXCEPT ![p] = Q][r].phase # "unborn"
<1> DEFINE P == proc[p]
<1>1. /\ P \in ProcState /\ QueueOK(P) /\ Inner(P, disk, replied) /\ Matches(P, disk)
      /\ TableOK(disk, replied) /\ ProcsOK(proc, disk, replied) /\ disk \in Table
      /\ \A j \in Jobs : JobOK(P.phase, P.op[j], P.jobs[j], j, disk, replied)
      /\ proc \in [Processes -> ProcState] /\ LineOK(proc)
  BY AtRest DEF ProcsOK
<1>2. /\ Q \in ProcState /\ Q.phase = "retiring" /\ Q.jobs = P.jobs /\ Q.op = P.op
      /\ Q.tail = P.tail /\ Q.marking = {}
  BY <1>1 DEF ProcState, Phases
<1>3. \A j \in Jobs : JobOK(Q.phase, Q.op[j], Q.jobs[j], j, disk, replied)
  BY <1>1, <1>2 DEF JobOK
<1>4. QueueOK(Q)
  BY <1>1, <1>2, QueueStays
<1>5. OneLabel(Q)
  BY <1>1, <1>2 DEF OneLabel, Inner
<1>6. Inner(Q, disk, replied) /\ Matches(Q, disk)
  BY <1>2, <1>3, <1>4, <1>5 DEF Inner, Acts, Matches
<1>7. Quiet(P, Q, disk, disk) /\ Extends(disk, disk) /\ \A j \in Jobs : Same(disk[j], disk[j])
  BY <1>2 DEF Quiet, Extends, Same
<1> DEFINE new == [proc EXCEPT ![p] = Q]
<1>8. new[p] = Q /\ \A r \in Processes \ {p} : new[r] = proc[r]
  BY <1>1
<1> HIDE DEF new
<1>9. LineOK(new)
  <2>1. Acts(P) /\ P.phase # "unborn"
    BY DEF Acts
  <2>2. ~(Acts(Q) \/ Q.phase = "unborn")
    BY <1>2 DEF Acts
  <2> QED
    BY <1>1, <1>8, <2>1, <2>2, LineStays
<1>10. ProcsOK(new, disk, replied)
  <2>1. LineOK([proc EXCEPT ![p] = Q])
    BY <1>9 DEF new
  <2>2. ProcsOK([proc EXCEPT ![p] = Q], disk, replied)
    BY <1>1, <1>6, <1>7, <2>1, QuietStep
  <2> QED
    BY <2>2 DEF new
<1>11. \A r \in Processes : ~Acts(new[r])
  <2>1. Acts(P)
    BY DEF Acts
  <2>2. \A r \in Processes \ {p} : ~Acts(proc[r])
    BY <1>1, <2>1, OneActs
  <2>3. ~Acts(Q)
    BY <1>2 DEF Acts
  <2> QED
    BY <1>8, <2>2, <2>3
<1>12. ASSUME NEW r \in Processes, r < p + 1
       PROVE  new[r].phase # "unborn"
  <2>1. CASE r = p
    BY <1>2, <1>8, <2>1
  <2>2. CASE r # p
    <3>1. r < p
      BY <1>12, <2>2, ConstantsAssumption DEF Processes
    <3>2. proc[r].phase # "unborn"
      BY <1>1, <3>1 DEF LineOK
    <3> QED
      BY <1>8, <2>2, <3>2
  <2> QED
    BY <2>1, <2>2
<1> QED
  BY <1>10, <1>11, <1>12 DEF new

LEMMA SameProcess ==
    ASSUME NEW P \in ProcState, NEW Q \in ProcState, P.phase = Q.phase, P.jobs = Q.jobs,
           P.op = Q.op, P.tail = Q.tail, P.waits = Q.waits, P.caller = Q.caller,
           P.marking = Q.marking
    PROVE  P = Q
BY DEF ProcState

\* A process that starts has nothing to keep.
LEMMA RestartedUnborn ==
    ASSUME NEW rows \in Table
    PROVE  Restarted(Unborn, rows) = [Unborn EXCEPT !.phase = "open", !.jobs = rows]
<1> DEFINE op == [j \in Jobs |-> IF Unborn.op[j].pc = "idle" THEN Idle
                                 ELSE [Unborn.op[j] EXCEPT !.own = Held(Unborn, j)]]
           P == [Unborn EXCEPT !.phase = "open", !.caller = 0, !.waits = {}, !.jobs = rows,
                               !.op = op]
           Q == [Unborn EXCEPT !.phase = "open", !.jobs = rows]
<1>1. P = Restarted(Unborn, rows)
  BY DEF Restarted
<1>2. /\ Unborn \in ProcState /\ Unborn.op = [j \in Jobs |-> Idle]
      /\ Unborn.waits = {} /\ Unborn.caller = 0
  BY IdleFacts, NoRowFacts DEF Unborn, ProcState, Phases
<1>3. op = [j \in Jobs |-> Idle]
  BY <1>2, IdleFacts
<1>4. op = Unborn.op
  BY <1>2, <1>3
<1> HIDE DEF op
<1>5. /\ P \in ProcState /\ P.phase = "open" /\ P.jobs = rows /\ P.op = op
      /\ P.tail = Unborn.tail /\ P.waits = {} /\ P.caller = 0 /\ P.marking = Unborn.marking
  BY <1>2, <1>4 DEF ProcState, Phases, Table
<1>6. /\ Q \in ProcState /\ Q.phase = "open" /\ Q.jobs = rows /\ Q.op = Unborn.op
      /\ Q.tail = Unborn.tail /\ Q.waits = Unborn.waits /\ Q.caller = Unborn.caller
      /\ Q.marking = Unborn.marking
  BY <1>2 DEF ProcState, Phases, Table
<1> HIDE DEF P, Q
<1>7. P = Q
  BY <1>2, <1>4, <1>5, <1>6, SameProcess
<1> QED
  BY <1>1, <1>7 DEF Q

LEMMA TakeOverKeeps ==
    ASSUME IInv, NEW p \in Processes, NEW q \in Processes, TakeOver(p, q)
    PROVE  IInv' /\ Extends(disk, disk')
<1> DEFINE N == [proc[p] EXCEPT !.phase = "retiring", !.caller = 0]
           new == [proc EXCEPT ![p] = N]
           E == [j \in Jobs |-> Recovered(disk[j])]
           Q == [Unborn EXCEPT !.phase = "open", !.jobs = E]
<1>1. /\ q = p + 1 /\ proc[p].phase = "paused" /\ proc[q].phase = "unborn"
      /\ proc[p].marking = {} /\ replied' = replied /\ told' = told /\ faults' = faults
      /\ disk' = E
  BY DEF TakeOver
<1>2. /\ ProcsOK(new, disk, replied)
      /\ \A r \in Processes : ~Acts(new[r])
      /\ \A r \in Processes : r < p + 1 => new[r].phase # "unborn"
  BY <1>1, Retirement
<1>3. /\ TableOK(disk, replied) /\ proc \in [Processes -> ProcState]
      /\ Inner(proc[q], disk, replied)
  BY AtRest DEF ProcsOK
<1>4. q # p
  BY <1>1, ConstantsAssumption DEF Processes
<1>5. proc[q] = Unborn /\ new[q] = Unborn
  <2>1. proc[q] = Unborn
    BY <1>1, <1>3 DEF Inner, Unborn
  <2> QED
    BY <1>3, <1>4, <2>1
<1>6. proc' = [new EXCEPT ![q] = Q]
  <2>1. proc' = [proc EXCEPT ![p].phase = "retiring", ![p].caller = 0, ![q] = Q]
    BY DEF TakeOver
  <2> HIDE DEF Q
  <2> QED
    BY <1>3, <1>4, <2>1
<1>7. Restarted(Unborn, E) = Q
  <2>1. E \in Table
    BY <1>2, <1>3, RecoveredFacts DEF TableOK, Table
  <2> HIDE DEF E
  <2> QED
    BY <2>1, RestartedUnborn
<1> HIDE DEF Q, new, N
<1>8. /\ Extends(disk, E) /\ TableOK(E, replied)
      /\ ProcsOK([new EXCEPT ![q] = Q], E, replied)
  <2>1. Q = Restarted(new[q], E) /\ new[q].phase = "unborn"
    BY <1>5, <1>7 DEF Unborn
  <2> QED
    BY <1>1, <1>2, <1>3, <2>1, Activation
<1>9. OthersOK'
  <2>1. resume' \in [Jobs -> {"none", "asked", "done"}]
    BY DEF TakeOver, IInv
  <2>2. ask' \subseteq Jobs
    BY DEF TakeOver, IInv, Undelivered
  <2> QED
    BY <1>1, <2>1, <2>2 DEF OthersOK, IInv
<1> HIDE DEF E
<1>10. \A j \in told' : disk'[j] # NoRow
  BY <1>1, <1>8 DEF IInv, Extends
<1> QED
  BY <1>1, <1>6, <1>8, <1>9, <1>10 DEF IInv, OthersOK

------------------------------------------------------------------------------
LEMMA Starts ==
    ASSUME Init
    PROVE  IInv
<1>1. /\ disk = [j \in Jobs |-> NoRow]
      /\ proc = [p \in Processes |-> IF p = 1 THEN [Unborn EXCEPT !.phase = "open"] ELSE Unborn]
      /\ told = {} /\ replied = {}
  BY DEF Init
<1>2. disk \in Table /\ \A j \in Jobs : disk[j] = NoRow
  BY <1>1, NoRowFacts DEF Table
<1>3. TableOK(disk, replied)
  BY <1>2, NoRowFacts DEF TableOK
<1> DEFINE Q == [Unborn EXCEPT !.phase = "open"]
<1>4. /\ Unborn \in ProcState /\ Unborn.phase = "unborn" /\ Unborn.marking = {}
      /\ \A j \in Jobs : Unborn.op[j] = Idle /\ Unborn.jobs[j] = NoRow
      /\ \A s \in Destinations : Unborn.tail[s] = 0
  BY IdleFacts, NoRowFacts DEF Unborn, ProcState, Phases
<1>5. Q \in ProcState /\ Q.phase = "open" /\ Q.jobs = Unborn.jobs /\ Q.op = Unborn.op
      /\ Q.tail = Unborn.tail
  BY <1>4 DEF ProcState, Phases
<1> HIDE DEF Q
<1>6. /\ proc \in [Processes -> ProcState] /\ proc[1] = Q
      /\ \A p \in Processes \ {1} : proc[p] = Unborn
  BY <1>1, <1>4, <1>5, ConstantsAssumption DEF Processes, Q
<1>7. ASSUME NEW P \in {Unborn, Q}
      PROVE  Inner(P, disk, replied) /\ Matches(P, disk)
  <2>1. P \in ProcState /\ P.jobs = Unborn.jobs /\ P.op = Unborn.op /\ P.tail = Unborn.tail
    BY <1>4, <1>5
  <2>2. \A j \in Jobs : JobOK(P.phase, P.op[j], P.jobs[j], j, disk, replied)
    BY <1>4, <2>1, IdleOK, NoRowFacts
  <2>3. QueueOK(P)
    BY <1>4, <2>1, IdleFacts DEF QueueOK, Runs
  <2>4. OneLabel(P)
    BY <1>4, <2>1, IdleFacts DEF OneLabel
  <2>5. P.phase \in {"unborn", "down"} => P = [Unborn EXCEPT !.phase = P.phase]
    BY <1>4, <1>5 DEF Unborn
  <2>6. ~Acts(P) => P.marking = {}
    BY <1>4, <1>5 DEF Acts
  <2>7. Matches(P, disk)
    BY <1>2, <1>4, <2>1 DEF Matches, Same
  <2> QED
    BY <2>1, <2>2, <2>3, <2>4, <2>5, <2>6, <2>7 DEF Inner
<1>8. LineOK(proc)
  BY <1>4, <1>6, ConstantsAssumption DEF LineOK, Processes
<1>9. \A p \in Processes : proc[p].op = Unborn.op
  BY <1>5, <1>6
<1>10. SourcesOK(disk, proc)
  <2>1. \A k \in Jobs : disk[k].source \notin Jobs
    BY <1>2, NoRowFacts, Names DEF New
  <2>2. \A p \in Processes, j \in Jobs : proc[p].op[j].pc # "label"
    BY <1>4, <1>9, IdleFacts
  <2> QED
    BY <2>1, <2>2 DEF SourcesOK, SourceOK
<1>11. ProcsOK(proc, disk, replied)
  BY <1>6, <1>7, <1>8, <1>10 DEF ProcsOK
<1> QED
  BY <1>3, <1>11, ConstantsAssumption DEF Init, IInv

LEMMA Steps ==
    ASSUME IInv, ~Overlap, [Next]_vars
    PROVE  IInv' /\ Extends(disk, disk')
<1>1. CASE UNCHANGED vars
  BY <1>1 DEF vars, IInv, Extends
<1>2. ASSUME NEW p \in Processes, Moves(p)
      PROVE  IInv' /\ Extends(disk, disk')
  BY <1>2, QuiesceReturnsKeeps, ResumesKeep, StopsKeep, BootKeeps, TakeOverKeeps DEF Moves
<1>3. ASSUME NEW p \in Processes,
             OperatorQuiesces(p) \/ \E j \in Jobs : FinalizerQuiesces(p, j)
      PROVE  IInv' /\ Extends(disk, disk')
  <2>1. \E caller \in Jobs \cup {0} : Quiesce(p, caller)
    BY <1>3 DEF OperatorQuiesces, FinalizerQuiesces
  <2> QED
    BY <2>1, QuiesceKeeps
<1>4. ASSUME NEW p \in Processes, QuiesceTimesOut(p) \/ HandoffFails(p) \/ Crash(p)
      PROVE  IInv' /\ Extends(disk, disk')
  BY <1>4, QuiesceTimesOutKeeps, ResumesKeep, StopsKeep
<1>5. ASSUME NEW p \in Processes,
             \E r \in Requests, s \in Destinations \cup {New} : Submit(p, r, s)
      PROVE  IInv' /\ Extends(disk, disk')
  BY <1>5, SubmitKeeps
<1>6. ASSUME NEW p \in Processes, NEW j \in Jobs, Works(p, j)
      PROVE  IInv' /\ Extends(disk, disk')
  BY <1>6, LabelReadKeeps, BeginKeeps, BindKeeps, SettleKeeps, SentKeeps, FinishKeeps,
     DeferredKeeps, DeliverEventKeeps, ResumeEventKeeps, MarkResumedKeeps DEF Works
<1>7. ASSUME NEW p \in Processes, NEW j \in Jobs,
             Cancel(p, j) \/ SendFails(p, j) \/ FinalizerFails(p, j)
      PROVE  IInv' /\ Extends(disk, disk')
  BY <1>7, CancelKeeps, FailuresKeep
<1>8. CASE Next
  <2>1. PICK p \in Processes :
          \/ Moves(p)
          \/ OperatorQuiesces(p) \/ QuiesceTimesOut(p) \/ HandoffFails(p) \/ Crash(p)
          \/ \E r \in Requests, s \in Destinations \cup {New} : Submit(p, r, s)
          \/ \E j \in Jobs : \/ Works(p, j) \/ Cancel(p, j) \/ FinalizerQuiesces(p, j)
                             \/ SendFails(p, j) \/ FinalizerFails(p, j)
    BY <1>8 DEF Next
  <2> QED
    BY <2>1, <1>2, <1>3, <1>4, <1>5, <1>6, <1>7
<1> QED
  BY <1>1, <1>8

LEMMA Invariance ==
    ASSUME ~Overlap
    PROVE  Spec => []IInv
<1>1. Init => IInv
  BY Starts
<1>2. IInv /\ [Next]_vars => IInv'
  BY Steps
<1> QED
  BY <1>1, <1>2, PTL DEF Spec

------------------------------------------------------------------------------
\* The variables keep their types.
THEOREM TypeCorrect ==
    ASSUME ~Overlap
    PROVE  Spec => []TypeOK
<1>1. IInv => TypeOK
  BY DEF IInv, TableOK, Table, Rows, ProcsOK, ProcState, Phases, TypeOK
<1> QED
  BY <1>1, Invariance, PTL

\* Two runs of a process have an order, and two processes do not run jobs at
\* the same time: one session executes one job.
THEOREM SessionsAreSerial ==
    ASSUME ~Overlap
    PROVE  Spec => []SerialSessions
<1>1. ASSUME IInv
      PROVE  SerialSessions
  <2>1. ASSUME NEW p \in Processes, NEW q \in Processes, NEW j \in Jobs, NEW k \in Jobs,
               proc[p].op[j].pc = "executing", proc[q].op[k].pc = "executing"
        PROVE  p = q
    <3>1. /\ ProcsOK(proc, disk, replied)
          /\ JobOK(proc[p].phase, proc[p].op[j], proc[p].jobs[j], j, disk, replied)
      BY <1>1, AtRest
    <3>2. Acts(proc[p]) /\ Runs(proc[q].op[k])
      BY <2>1, <3>1 DEF JobOK, Runs, Acts
    <3> QED
      BY <3>1, <3>2, OneActs
  <2>2. ASSUME NEW p \in Processes, NEW j \in Jobs, NEW k \in Jobs, j < k,
               proc[p].op[j].pc = "executing", proc[p].op[k].pc = "executing",
               Held(proc[p], j).session # New
        PROVE  Held(proc[p], j).session # Held(proc[p], k).session
    <3> DEFINE P == proc[p]
               s == Held(P, j).session
    <3>1. /\ QueueOK(P) /\ P.op[j] \in Operation /\ P.jobs[j] \in Rows
          /\ JobOK(P.phase, P.op[j], P.jobs[j], j, disk, replied)
          /\ JobOK(P.phase, P.op[k], P.jobs[k], k, disk, replied)
      BY <1>1, AtRest
    <3>2. s \in Destinations
      <4>1. Held(P, j) \in Rows
        BY <3>1 DEF Held, Operation, Rows
      <4> QED
        BY <2>2, <4>1, RowFacts
    <3>3. Runs(P.op[j]) /\ Places(P, j, s) /\ P.op[k].queued /\ P.op[k].ahead = 0
      BY <2>2, <3>1 DEF JobOK, Runs, Places, Held, HeldRow
    <3>4. Held(P, k).session = s => Places(P, k, s)
      BY <3>3 DEF Places, Held, HeldRow
    <3>5. ~(j <= P.op[k].ahead)
      BY <3>3, Names
    <3> HIDE DEF s
    <3>6. ~Places(P, k, s)
      BY <2>2, <3>1, <3>2, <3>3, <3>5 DEF QueueOK
    <3> QED
      BY <3>4, <3>6 DEF s
  <2>3. ASSUME NEW p \in Processes, NEW j \in Jobs, NEW k \in Jobs, j # k,
               proc[p].op[j].pc = "executing", proc[p].op[k].pc = "executing"
        PROVE  \/ Held(proc[p], j).session = New
               \/ Held(proc[p], j).session # Held(proc[p], k).session
    <3>1. j < k \/ k < j
      BY <2>3, Names
    <3> QED
      BY <2>2, <2>3, <3>1
  <2> QED
    BY <2>1, <2>3 DEF SerialSessions
<1> QED
  BY <1>1, Invariance, PTL

\* A turn leads to one job and a job to one continuation, and what has an
\* outcome is not continued.
THEOREM WorkIsDoneOnce ==
    ASSUME ~Overlap
    PROVE  Spec => []WorkOnce
<1>1. ASSUME IInv
      PROVE  WorkOnce
  <2>1. OneJobPerSource
    BY <1>1 DEF IInv, TableOK, OneJobPerSource
  <2>2. WorkNotRepeated
    BY <1>1 DEF IInv, ProcsOK, SourcesOK, SourceOK, WorkNotRepeated, Reported
  <2> QED
    BY <2>1, <2>2 DEF WorkOnce
<1> QED
  BY <1>1, Invariance, PTL

\* An accepted job has its outcome or its request, and a report leaves the
\* table after it was sent.
THEOREM NothingIsLost ==
    ASSUME ~Overlap
    PROVE  Spec => []NothingLost
<1>1. ASSUME IInv
      PROVE  NothingLost
  <2>1. \A j \in Jobs : disk[j] \in Rows /\ RowOK(disk[j], j, disk, replied)
    BY <1>1 DEF IInv, TableOK, Table
  <2>2. AcceptedKept
    <3> SUFFICES ASSUME NEW j \in told
                 PROVE  disk[j].status \in FinalStatus \/ (IsActive(disk[j]) /\ disk[j].text)
      BY DEF AcceptedKept
    <3>1. j \in Jobs /\ disk[j] # NoRow
      BY <1>1 DEF IInv
    <3>2. disk[j].status \in ActiveStatus \cup FinalStatus
      BY <2>1, <3>1, RowFacts
    <3> QED
      BY <2>1, <3>1, <3>2 DEF RowOK, IsActive
  <2>3. ReportFirst
    BY <1>1, <2>1, AtRest DEF ReportFirst, RowOK, JobOK, Reported
  <2> QED
    BY <2>2, <2>3 DEF NothingLost
<1> QED
  BY <1>1, Invariance, PTL

\* No write takes an outcome back.
THEOREM OutcomesStay ==
    ASSUME ~Overlap
    PROVE  Spec => DoneStaysDone
<1>1. ASSUME IInv, [Next]_vars
      PROVE  [\A j \in Jobs : disk[j].status \in FinalStatus => disk'[j].status = disk[j].status]_vars
  <2>1. Extends(disk, disk')
    BY <1>1, Steps
  <2>2. \A j \in Jobs : disk[j].status \in FinalStatus => disk[j] # NoRow
    BY NoRowFacts DEF FinalStatus
  <2> QED
    BY <2>1, <2>2 DEF Extends
<1> QED
  BY <1>1, Invariance, PTL DEF Spec, DoneStaysDone
=============================================================================
