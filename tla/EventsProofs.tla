----------------------------- MODULE EventsProofs -----------------------------
(***************************************************************************)
(* The database of plugins/events is sound, and implements EventLog, for   *)
(* every number of producers, consumers, processes and events.             *)
(*                                                                         *)
(* The hypothesis Alone is the one of the model's constant: no other       *)
(* process registers or rewinds a consumer between the two halves of a     *)
(* compaction.  Without it a compaction deletes what a consumer still has  *)
(* to be given, and a running delivery with it.                            *)
(***************************************************************************)
EXTENDS Events, WellFoundedInduction, TLAPS, SequenceTheorems, FiniteSetTheorems

-----------------------------------------------------------------------------
(* Extrema.                                                                *)

\* A non-empty set of naturals has a minimum.
LEMMA MinOfNaturals ==
    ASSUME NEW S \in SUBSET Nat, S # {}
    PROVE  Min(S) \in S /\ \A y \in S : Min(S) <= y
<1> DEFINE R == OpToRel(<, Nat)
<1>1. IsWellFoundedOn(R, Nat)
  BY NatLessThanWellFounded
<1>2. \A x, y \in Nat : x < y => <<x, y>> \in R
  BY DEF OpToRel
<1> HIDE DEF R
<1>3. PICK x \in S : \A y \in S : <<y, x>> \notin R
  BY <1>1, WFMin
<1>4. \A y \in S : ~(y < x)
  BY <1>2, <1>3
<1>5. \A y \in S : x <= y
  BY <1>4
<1> QED
  BY <1>5 DEF Min

\* A non-empty set of naturals that is bounded above has a maximum: its least
\* upper bound.
LEMMA MaxOfBounded ==
    ASSUME NEW bound \in Nat, NEW S \in SUBSET (0 .. bound), S # {}
    PROVE  Max(S) \in S /\ \A y \in S : y <= Max(S)
<1> DEFINE Above == {u \in Nat : \A y \in S : y <= u}
           least == Min(Above)
<1>1. least \in Nat /\ (\A y \in S : y <= least) /\ \A u \in Above : least <= u
  <2>1. bound \in Above /\ Above \in SUBSET Nat
    OBVIOUS
  <2> QED
    BY <2>1, MinOfNaturals
<1> HIDE DEF least
<1>2. least \in S
  <2>1. SUFFICES ASSUME least \notin S
                 PROVE  FALSE
    OBVIOUS
  <2>2. \A y \in S : y \in Nat /\ y < least
    BY <1>1, <2>1
  <2>3. PICK z \in S : z \in Nat /\ z < least
    BY <2>2
  <2>4. least - 1 \in Nat /\ \A y \in S : y <= least - 1
    <3> HIDE DEF Above
    <3>1. least \in Nat
      BY <1>1
    <3> QED
      BY <2>2, <2>3, <3>1
  <2> QED
    BY <1>1, <2>4
<1> QED
  BY <1>1, <1>2 DEF Max

-----------------------------------------------------------------------------
(* The inductive invariant                                                 *)

\* What a delivery is of: an event of the log that its consumer wants; its row
\* goes with the row of the event.
DeliveriesOfLog ==
    \A c \in Consumers : \A k \in DOMAIN delivery[c] :
        /\ delivery[c][k].seq \in DOMAIN log
        /\ log[delivery[c][k].seq] \in Wanted[c]
        /\ delivery[c][k].status = "deleted" <=> delivery[c][k].seq <= gone

\* The next event of a consumer.
Next1(c, n) == n \in Due(c) /\ \A m \in Due(c) : n <= m

\* Whoever holds the lease holds the last delivery, of the next event.
LeaseIsNext ==
    \A c \in Consumers : consumer[c].lease # 0 =>
        /\ consumer[c].lease = Len(delivery[c])
        /\ Next1(c, delivery[c][consumer[c].lease].seq)

UnknownIsEmpty ==
    \A c \in Consumers : ~consumer[c].known =>
        consumer[c].cursor = 0 /\ consumer[c].lease = 0 /\ delivery[c] = <<>>

\* A handler is one of a registered consumer; a compaction goes no farther than
\* any consumer has come.
ProcessesBehind ==
    \A p \in Processes :
        /\ proc[p].cutoff <= Len(log)
        /\ \A c \in Consumers : consumer[c].known => proc[p].cutoff <= consumer[c].cursor
        /\ \A c \in proc[p].handlers : consumer[c].known

Tables == DeliveriesOfLog /\ LeaseIsNext /\ UnknownIsEmpty /\ ProcessesBehind

IInv == TypeOK /\ LeaseIsRunning /\ AttemptsNumbered /\ Tables

-----------------------------------------------------------------------------
(* Rows                                                                    *)

LEMMA TableShape ==
    ASSUME TypeOK, NEW c \in Consumers
    PROVE  /\ Len(delivery[c]) \in Nat /\ Len(run[c]) = Len(delivery[c])
           /\ DOMAIN delivery[c] = 1 .. Len(delivery[c])
           /\ DOMAIN run[c] = 1 .. Len(delivery[c])
           /\ delivery[c] \in Seq(Delivery) /\ run[c] \in Seq(Execution)
           /\ \A k \in 1 .. Len(delivery[c]) :
                 delivery[c][k] \in Delivery /\ run[c][k] \in Execution
<1>1. delivery[c] \in Seq(Delivery) /\ run[c] \in Seq(Execution)
  BY DEF TypeOK
<1>2. Len(run[c]) = Len(delivery[c])
  BY DEF TypeOK
<1> QED
  BY <1>1, <1>2, LenProperties, ElementOfSeq

\* The log, as far as it is kept.
LEMMA LogShape ==
    ASSUME TypeOK
    PROVE  /\ Len(log) \in Nat /\ DOMAIN log = 1 .. Len(log) /\ gone \in 0 .. Len(log)
           /\ Kept \subseteq DOMAIN log
           /\ \A c \in Consumers : Due(c) \subseteq 1 .. Len(log)
<1>1. Len(log) \in Nat /\ DOMAIN log = 1 .. Len(log)
  BY LenProperties DEF TypeOK
<1> QED
  BY <1>1 DEF TypeOK, Kept, Due

\* The rows that count as attempts at an event.
Tries(c, n) == {k \in DOMAIN delivery[c] :
                   delivery[c][k].seq = n /\ delivery[c][k].status # "deleted"}

LEMMA TriesFinite ==
    ASSUME TypeOK, NEW c \in Consumers, NEW n
    PROVE  /\ Attempts(c, n) = Cardinality(Tries(c, n))
           /\ IsFiniteSet(Tries(c, n))
           /\ Attempts(c, n) \in Nat
<1>1. Tries(c, n) \subseteq 1 .. Len(delivery[c])
  BY TableShape DEF Tries
<1>2. IsFiniteSet(1 .. Len(delivery[c]))
  BY TableShape, FS_Interval
<1>3. IsFiniteSet(Tries(c, n))
  BY <1>1, <1>2, FS_Subset
<1> QED
  BY <1>3, FS_CardinalityType DEF Attempts, Tries

\* The first of the events a consumer is still due.
LEMMA FirstDue ==
    ASSUME TypeOK, NEW c \in Consumers, Due(c) # {}
    PROVE  Next1(c, Min(Due(c))) /\ Min(Due(c)) \in Nat
<1>1. Due(c) \in SUBSET Nat
  BY LogShape
<1> QED
  BY <1>1, MinOfNaturals DEF Next1

LEMMA NextUnique ==
    ASSUME TypeOK, NEW c \in Consumers, NEW m, NEW n, Next1(c, m), Next1(c, n)
    PROVE  m = n
BY LogShape DEF Next1

-----------------------------------------------------------------------------
(* Steps that leave the tables as their readers know them                  *)

SameTables ==
    /\ UNCHANGED <<log, gone, delivery>>
    /\ \A c \in Consumers : /\ consumer'[c].known = consumer[c].known
                            /\ consumer'[c].cursor = consumer[c].cursor
                            /\ consumer'[c].lease = consumer[c].lease
    /\ UnknownIsEmpty' /\ ProcessesBehind'

LEMMA SameView ==
    ASSUME SameTables
    PROVE  UNCHANGED Log!vars
<1>1. \A c \in Consumers : Position(c)' = Position(c)
  BY DEF SameTables, Position
<1>2. \A c \in Consumers : Tried(c)' = Tried(c)
  BY DEF SameTables, Tried, Attempts
<1>3. \A c \in Consumers : Fate(c)' = Fate(c)
  <2> TAKE c \in Consumers
  <2>1. log' = log /\ delivery' = delivery /\ consumer'[c].cursor = consumer[c].cursor
    BY DEF SameTables
  <2>2. \A n : Ends(c, n)' = Ends(c, n)
    BY <2>1 DEF Ends
  <2> QED
    BY <2>1, <2>2 DEF Fate
<1> QED
  BY <1>1, <1>2, <1>3 DEF Log!vars, SameTables

LEMMA SameInv ==
    ASSUME IInv, TypeOK', SameTables
    PROVE  IInv'
<1>1. LeaseIsRunning'
  BY DEF IInv, SameTables, LeaseIsRunning, Owns
<1>2. AttemptsNumbered'
  BY DEF IInv, SameTables, AttemptsNumbered
<1>3. DeliveriesOfLog'
  BY DEF IInv, Tables, SameTables, DeliveriesOfLog
<1>4. LeaseIsNext'
  BY DEF IInv, Tables, SameTables, LeaseIsNext, Next1, Due, Kept
<1> QED
  BY <1>1, <1>2, <1>3, <1>4 DEF IInv, Tables, SameTables

\* Executions rewritten in place.
LEMMA Rewritten ==
    ASSUME TypeOK, NEW f \in [Consumers -> UNION {[1 .. n -> Execution] : n \in Nat}],
           \A c \in Consumers : f[c] \in [1 .. Len(run[c]) -> Execution]
    PROVE  /\ f \in [Consumers -> Seq(Execution)]
           /\ \A c \in Consumers : Len(f[c]) = Len(run[c]) /\ DOMAIN f[c] = DOMAIN run[c]
<1>1. f \in [Consumers -> Seq(Execution)]
  BY SeqDef
<1>2. ASSUME NEW c \in Consumers
      PROVE  Len(f[c]) = Len(run[c]) /\ DOMAIN f[c] = DOMAIN run[c]
  <2>1. DOMAIN f[c] = 1 .. Len(run[c])
    OBVIOUS
  <2>2. f[c] \in Seq(Execution) /\ Len(run[c]) \in Nat /\ DOMAIN run[c] = 1 .. Len(run[c])
    BY <1>1, TableShape
  <2> QED
    BY <2>1, <2>2, LenProperties
<1> QED
  BY <1>1, <1>2

\* TypeOK after a step that leaves log, gone and the deliveries alone.
LEMMA ControlType ==
    ASSUME TypeOK, UNCHANGED <<log, gone, delivery>>,
           faults' \in 0 .. MaxFaults,
           consumer' \in [Consumers -> Registration],
           \A c \in Consumers : consumer'[c].cursor <= Len(log),
           run' \in [Consumers -> Seq(Execution)],
           \A c \in Consumers : Len(run'[c]) = Len(run[c]),
           proc' \in [Processes -> Process]
    PROVE  TypeOK'
<1>1. \A c \in Consumers : DOMAIN run'[c] = DOMAIN run[c]
  <2> TAKE c \in Consumers
  <2>1. run'[c] \in Seq(Execution) /\ run[c] \in Seq(Execution)
    BY DEF TypeOK
  <2> QED
    BY <2>1, LenProperties
<1>2. Runs' = Runs
  BY <1>1 DEF Runs
<1>3. Process' = Process
  BY <1>2 DEF Process
<1> QED
  BY <1>3 DEF TypeOK, Registration, Delivery, Execution

LEMMA FaultType == ASSUME TypeOK, NEW kind, Fault(kind) PROVE faults' \in 0 .. MaxFaults
BY EventsAssumption DEF TypeOK, Fault

\* The processes keep their handlers, or lose some, and a cutoff only to none.
ProcKept ==
    /\ proc' \in [Processes -> Process]
    /\ \A p \in Processes : /\ proc'[p].cutoff \in {0, proc[p].cutoff}
                            /\ proc'[p].handlers \subseteq proc[p].handlers

\* A quiet step: the consumers' registrations and the executions are those of
\* before, but for the marks of the executions.
LEMMA QuietStep ==
    ASSUME IInv, UNCHANGED <<log, gone, consumer, delivery>>,
           faults' \in 0 .. MaxFaults,
           run' \in [Consumers -> Seq(Execution)],
           \A c \in Consumers : Len(run'[c]) = Len(run[c]),
           ProcKept
    PROVE  IInv' /\ UNCHANGED Log!vars
<1>1. TypeOK'
  BY ControlType DEF IInv, TypeOK, ProcKept
<1>2. UnknownIsEmpty'
  BY DEF IInv, Tables, UnknownIsEmpty
<1>3. ProcessesBehind'
  <2>1. Len(log) \in Nat /\ \A c \in Consumers : consumer[c].cursor \in Nat
    BY LogShape DEF IInv, TypeOK, Registration
  <2> QED
    BY <2>1 DEF IInv, Tables, ProcessesBehind, ProcKept
<1>4. SameTables
  BY <1>2, <1>3 DEF SameTables
<1> QED
  BY <1>1, <1>4, SameInv, SameView

LEMMA LifecycleStep ==
    ASSUME IInv, NEW p \in Processes,
           \/ Open(p) \/ StartWorker(p) \/ Stopped(p) \/ Stall(p) \/ Resume(p)
           \/ \E c \in Consumers : UnregisterConsumer(p, c)
    PROVE  IInv' /\ UNCHANGED Log!vars
<1>1. TypeOK /\ proc[p] \in Process
  BY DEF IInv, TypeOK
<1>2. /\ UNCHANGED <<log, gone, consumer, delivery, run>>
      /\ faults' \in 0 .. MaxFaults
  BY <1>1, FaultType DEF TypeOK, Open, StartWorker, Stopped, Stall, Resume, UnregisterConsumer
<1>3. ProcKept
  <2>1. CASE Open(p)
    BY <1>1, <2>1 DEF Open, Process, TypeOK, ProcKept
  <2>2. CASE StartWorker(p)
    BY <1>1, <2>2 DEF StartWorker, Process, TypeOK, ProcKept
  <2>3. CASE Stopped(p)
    BY <1>1, <2>3 DEF Stopped, Process, TypeOK, ProcKept
  <2>4. CASE Stall(p)
    BY <1>1, <2>4 DEF Stall, Process, TypeOK, ProcKept
  <2>5. CASE Resume(p)
    BY <1>1, <2>5 DEF Resume, Process, TypeOK, ProcKept
  <2>6. ASSUME NEW c \in Consumers, UnregisterConsumer(p, c)
        PROVE  ProcKept
    BY <1>1, <2>6 DEF UnregisterConsumer, Process, TypeOK, ProcKept
  <2> QED
    BY <2>1, <2>2, <2>3, <2>4, <2>5, <2>6
<1> QED
  BY <1>1, <1>2, <1>3, QuietStep DEF TypeOK

\* The executions of a process are marked, and so is the process.
LEMMA AbortStep ==
    ASSUME IInv, NEW p \in Processes,
           StopWorker(p) \/ Close(p) \/ Closed(p) \/ Crash(p)
    PROVE  IInv' /\ UNCHANGED Log!vars
<1>1. TypeOK /\ proc[p] \in Process
  BY DEF IInv, TypeOK
<1>2. UNCHANGED <<log, gone, consumer, delivery>> /\ faults' \in 0 .. MaxFaults
  BY <1>1, FaultType DEF TypeOK, StopWorker, Close, Closed, Crash, Ending
<1>3. ProcKept
  <2>1. CASE StopWorker(p)
    BY <1>1, <2>1 DEF StopWorker, Process, TypeOK, ProcKept
  <2>2. CASE Close(p)
    BY <1>1, <2>2 DEF Close, Process, TypeOK, ProcKept
  <2>3. CASE Closed(p) \/ Crash(p)
    <3>1. proc' = [proc EXCEPT ![p] = Down]
      BY <2>3 DEF Closed, Crash, Ending
    <3>2. Down \in Process
      BY DEF Down, Process
    <3> QED
      BY <1>1, <3>1, <3>2 DEF Down, TypeOK, ProcKept
  <2> QED
    BY <2>1, <2>2, <2>3
<1>4. /\ run' \in [Consumers -> Seq(Execution)]
      /\ \A c \in Consumers : Len(run'[c]) = Len(run[c])
  <2>1. \A c \in Consumers : run'[c] \in [1 .. Len(run[c]) -> Execution]
    <3> TAKE c \in Consumers
    <3>1. DOMAIN run[c] = 1 .. Len(run[c]) /\ \A k \in 1 .. Len(run[c]) : run[c][k] \in Execution
      BY <1>1, TableShape
    <3>2. CASE StopWorker(p)
      BY <3>1, <3>2 DEF StopWorker, Aborting, Execution
    <3>3. CASE Close(p)
      BY <3>1, <3>3 DEF Close, Aborting, Execution
    <3>4. CASE Closed(p) \/ Crash(p)
      <4>1. Ending(p)
        BY <3>4 DEF Closed, Crash
      <4>2. run'[c] = [k \in DOMAIN run[c] |-> IF run[c][k].active /\ run[c][k].proc = p
                          THEN [run[c][k] EXCEPT !.active = FALSE] ELSE run[c][k]]
        BY <4>1 DEF Ending, Aborting
      <4> QED
        BY <3>1, <4>2 DEF Execution
    <3> QED
      BY <3>2, <3>3, <3>4
  <2>2. DOMAIN run' = Consumers /\ run' = [c \in Consumers |-> run'[c]]
    BY DEF StopWorker, Close, Closed, Crash, Ending, Aborting
  <2>3. \A c \in Consumers : Len(run[c]) \in Nat
    BY <1>1, TableShape
  <2>4. run' \in [Consumers -> UNION {[1 .. n -> Execution] : n \in Nat}]
    BY <2>1, <2>2, <2>3
  <2> QED
    BY <1>1, <2>1, <2>4, Rewritten
<1> QED
  BY <1>1, <1>2, <1>3, <1>4, QuietStep DEF TypeOK

LEMMA HeartbeatStep ==
    ASSUME IInv, NEW c \in Consumers, NEW k \in DOMAIN run[c], Heartbeat(c, k)
    PROVE  IInv' /\ UNCHANGED Log!vars
<1> USE DEF Heartbeat
<1>1. TypeOK /\ consumer[c] \in Registration /\ k \in 1 .. Len(run[c]) /\ run[c] \in Seq(Execution)
  BY TableShape DEF IInv, TypeOK
<1>2. CASE Owns(c, k)
  <2>1. [consumer[c] EXCEPT !.left = LeaseTime] \in Registration
    <3>1. LeaseTime \in 0 .. LeaseTime
      BY EventsAssumption
    <3> QED
      BY <1>1, <3>1 DEF Registration
  <2>2. consumer' = [consumer EXCEPT ![c] = [consumer[c] EXCEPT !.left = LeaseTime]]
    BY <1>1, <1>2 DEF TypeOK
  <2>3. consumer' \in [Consumers -> Registration] /\ run' = run
    BY <1>1, <1>2, <2>1, <2>2 DEF TypeOK
  <2>4. \A d \in Consumers : /\ consumer'[d].known = consumer[d].known
                             /\ consumer'[d].cursor = consumer[d].cursor
                             /\ consumer'[d].lease = consumer[d].lease
    BY <1>1, <2>2 DEF TypeOK, Registration
  <2>5. TypeOK'
    BY <1>1, <2>3, <2>4, ControlType DEF TypeOK
  <2>6. UnknownIsEmpty'
    BY <2>4 DEF IInv, Tables, UnknownIsEmpty
  <2>7. ProcessesBehind'
    BY <2>4 DEF IInv, Tables, ProcessesBehind, TypeOK
  <2> QED
    BY <2>4, <2>5, <2>6, <2>7, SameInv, SameView DEF SameTables
<1>3. CASE ~Owns(c, k)
  <2>1. [run[c][k] EXCEPT !.lost = TRUE] \in Execution
    <3>1. run[c][k] \in Execution
      BY <1>1, ElementOfSeq
    <3> QED
      BY <3>1 DEF Execution
  <2>2. /\ [run[c] EXCEPT ![k] = [run[c][k] EXCEPT !.lost = TRUE]] \in Seq(Execution)
        /\ Len([run[c] EXCEPT ![k] = [run[c][k] EXCEPT !.lost = TRUE]]) = Len(run[c])
    BY <1>1, <2>1, ExceptSeq
  <2>3. run' = [run EXCEPT ![c] = [run[c] EXCEPT ![k] = [run[c][k] EXCEPT !.lost = TRUE]]]
    BY <1>1, <1>3 DEF TypeOK
  <2>4. ProcKept
    BY <1>1 DEF ProcKept, TypeOK
  <2> QED
    BY <1>1, <1>3, <2>2, <2>3, <2>4, QuietStep DEF TypeOK
<1> QED
  BY <1>2, <1>3

LEMMA AdvanceStep ==
    ASSUME IInv, Advance
    PROVE  IInv' /\ UNCHANGED Log!vars
<1>1. TypeOK
  BY DEF IInv
<1>2. \A c \in Consumers : consumer'[c] = [consumer[c] EXCEPT !.left = Less(@), !.wait = Less(@)]
  BY DEF Advance
<1>3. \A c \in Consumers : /\ consumer'[c].known = consumer[c].known
                           /\ consumer'[c].cursor = consumer[c].cursor
                           /\ consumer'[c].lease = consumer[c].lease
                           /\ consumer'[c] \in Registration
  <2> TAKE c \in Consumers
  <2>1. consumer[c] \in Registration
    BY <1>1 DEF TypeOK
  <2>2. Less(consumer[c].left) \in 0 .. LeaseTime /\ Less(consumer[c].wait) \in Nat
    BY <2>1, EventsAssumption DEF Less, Registration
  <2> QED
    BY <1>2, <2>1, <2>2 DEF Registration
<1>4. consumer' \in [Consumers -> Registration]
  BY <1>3 DEF Advance
<1>5. TypeOK'
  BY <1>1, <1>3, <1>4, ControlType DEF TypeOK, Advance
<1>6. UnknownIsEmpty'
  BY <1>3 DEF IInv, Tables, UnknownIsEmpty, Advance
<1>7. ProcessesBehind'
  <2>1. log' = log /\ proc' = proc
    BY DEF Advance
  <2>2. \A p \in Processes : proc[p].handlers \subseteq Consumers
    BY <1>1 DEF TypeOK, Process
  <2> QED
    BY <1>3, <2>1, <2>2 DEF IInv, Tables, ProcessesBehind
<1> QED
  BY <1>3, <1>5, <1>6, <1>7, SameInv, SameView DEF SameTables, Advance

\* A compaction reads the slowest cursor and begins.
LEMMA CompactReadsStep ==
    ASSUME IInv, NEW p \in Processes, NEW n \in Kept, CompactReads(p, n)
    PROVE  IInv' /\ UNCHANGED Log!vars
<1> DEFINE cursors == {consumer[c].cursor : c \in {d \in Consumers : consumer[d].known}}
           all == {Len(log)} \cup cursors
<1>1. TypeOK /\ proc[p] \in Process /\ n \in Nat
  BY LogShape DEF IInv, TypeOK, Kept
<1>2. all \in SUBSET Nat /\ all # {}
  BY <1>1, LogShape DEF TypeOK, Registration
<1>3. Slowest \in Nat /\ \A y \in all : Slowest <= y
  BY <1>2, MinOfNaturals DEF Slowest
<1>4. n <= Len(log) /\ \A c \in Consumers : consumer[c].known => n <= consumer[c].cursor
  <2>1. n <= Slowest
    BY <1>1, <1>3, EventsAssumption DEF CompactReads
  <2> HIDE DEF all
  <2>2. Len(log) \in all /\ \A c \in Consumers : consumer[c].known => consumer[c].cursor \in all
    BY DEF all
  <2>3. Len(log) \in Nat /\ \A c \in Consumers : consumer[c].cursor \in Nat
    BY <1>1, LogShape DEF TypeOK, Registration
  <2> QED
    BY <1>1, <1>3, <2>1, <2>2, <2>3
<1>5. proc' \in [Processes -> Process] /\ proc' = [proc EXCEPT ![p].cutoff = n]
  BY <1>1 DEF CompactReads, Process, TypeOK
<1>6. TypeOK'
  BY <1>1, <1>5, ControlType DEF TypeOK, CompactReads
<1>7. ProcessesBehind'
  BY <1>1, <1>4, <1>5 DEF IInv, Tables, ProcessesBehind, CompactReads, TypeOK, Process
<1>8. UnknownIsEmpty'
  BY DEF IInv, Tables, UnknownIsEmpty, CompactReads
<1> QED
  BY <1>6, <1>7, <1>8, SameInv, SameView DEF SameTables, CompactReads

-----------------------------------------------------------------------------
(* Producers and registrations                                             *)

\* A function on an interval that is longer by one.
LEMMA LongerByOne ==
    ASSUME NEW n \in Nat, NEW f, NEW g,
           f = [i \in 1 .. n |-> f[i]], g = [i \in 1 .. n + 1 |-> g[i]],
           \A i \in 1 .. n : g[i] = f[i]
    PROVE  g = Append(f, g[n + 1])
<1> DEFINE S == {g[i] : i \in 1 .. n + 1}
<1>1. \A i \in 1 .. n + 1 : g[i] \in S
  OBVIOUS
<1>2. 1 .. n \subseteq 1 .. n + 1 /\ n + 1 \in Nat /\ n + 1 \in 1 .. n + 1
  OBVIOUS
<1> HIDE DEF S
<1>3. f \in [1 .. n -> S] /\ g \in [1 .. n + 1 -> S]
  <2>1. \A i \in 1 .. n : f[i] \in S
    BY <1>1, <1>2
  <2> QED
    BY <1>1, <2>1
<1>4. f \in Seq(S) /\ g \in Seq(S)
  <2>1. Seq(S) = UNION {[1 .. m -> S] : m \in Nat}
    BY SeqDef
  <2> QED
    BY <1>2, <1>3, <2>1
<1>5. DOMAIN f = 1 .. n /\ DOMAIN g = 1 .. n + 1
  OBVIOUS
<1>6. Len(f) = n /\ Len(g) = n + 1
  BY <1>2, <1>4, <1>5, LenProperties
<1>7. /\ Append(f, g[n + 1]) \in Seq(S)
      /\ Len(Append(f, g[n + 1])) = n + 1
      /\ \A i \in 1 .. n : Append(f, g[n + 1])[i] = f[i]
      /\ Append(f, g[n + 1])[n + 1] = g[n + 1]
  BY <1>1, <1>2, <1>4, <1>6, AppendProperties
<1>8. \A i \in 1 .. n + 1 : i \in 1 .. n \/ i = n + 1
  OBVIOUS
<1>9. \A i \in 1 .. n + 1 : g[i] = Append(f, g[n + 1])[i]
  BY <1>7, <1>8
<1> QED
  BY <1>4, <1>6, <1>7, <1>9, SeqEqual

LEMMA PublishStep ==
    ASSUME IInv, NEW p \in Processes, NEW id \in Ids, Publish(p, id)
    PROVE  IInv' /\ Log!Append1(id)
<1> DEFINE L == Len(log)
<1>1. TypeOK /\ L \in Nat /\ DOMAIN log = 1 .. L /\ log \in Seq(Ids)
  BY LogShape DEF IInv, TypeOK
<1>2. /\ log' = Append(log, id) /\ log' \in Seq(Ids) /\ Len(log') = L + 1
      /\ DOMAIN log' = 1 .. L + 1
      /\ \A n \in 1 .. L : log'[n] = log[n]
  BY <1>1, LenProperties, AppendProperties DEF Publish
<1>3. UNCHANGED <<gone, consumer, delivery, run, proc, faults>>
  BY DEF Publish
<1> HIDE DEF L
<1>4. TypeOK'
  <2>1. Process' = Process
    BY <1>3 DEF Process, Runs
  <2>2. gone' \in 0 .. Len(log') /\ faults' \in 0 .. MaxFaults
    BY <1>1, <1>2, <1>3 DEF TypeOK, L
  <2>3. \A c \in Consumers : consumer'[c].cursor <= Len(log')
    BY <1>1, <1>2, <1>3 DEF TypeOK, Registration, L
  <2>4. proc' \in [Processes -> Process']
    BY <1>1, <1>3, <2>1 DEF TypeOK
  <2>5. /\ consumer' \in [Consumers -> Registration] /\ delivery' \in [Consumers -> Seq(Delivery)]
        /\ run' \in [Consumers -> Seq(Execution)]
        /\ \A c \in Consumers : Len(run'[c]) = Len(delivery'[c])
    BY <1>1, <1>3 DEF TypeOK
  <2> QED
    BY <1>2, <2>2, <2>3, <2>4, <2>5 DEF TypeOK, Registration, Delivery, Execution
<1>5. ASSUME NEW c \in Consumers, NEW k \in DOMAIN delivery[c]
      PROVE  delivery[c][k].seq \in 1 .. L
  BY <1>1, <1>5 DEF IInv, Tables, DeliveriesOfLog
<1>6. IInv'
  <2>1. DeliveriesOfLog'
    BY <1>1, <1>2, <1>3, <1>5 DEF IInv, Tables, DeliveriesOfLog
  <2>2. ASSUME NEW c \in Consumers, NEW n, Next1(c, n)
        PROVE  Next1(c, n)'
    <3>1. n \in Kept /\ n \in Due(c)
      BY <2>2 DEF Next1, Due
    <3>2. n \in 1 .. L
      BY <1>1, <3>1, LogShape
    <3>3. ASSUME NEW m \in 1 .. L
          PROVE  m \in Due(c)' <=> m \in Due(c)
      BY <1>1, <1>2, <1>3, LogShape DEF Due, Kept, L
    <3>4. Due(c)' \subseteq 1 .. L + 1
      BY <1>1, <1>2, <1>3, LogShape DEF Due, Kept
    <3> QED
      BY <1>1, <2>2, <3>1, <3>2, <3>3, <3>4 DEF Next1
  <2>3. LeaseIsNext'
    BY <1>3, <2>2 DEF IInv, Tables, LeaseIsNext
  <2>4. UnknownIsEmpty'
    BY <1>3 DEF IInv, Tables, UnknownIsEmpty
  <2>5. ProcessesBehind'
    <3>1. \A q \in Processes : proc[q].cutoff \in Nat /\ proc[q].cutoff <= L
      BY <1>1 DEF IInv, Tables, ProcessesBehind, TypeOK, Process, L
    <3> QED
      BY <1>1, <1>2, <1>3, <3>1 DEF IInv, Tables, ProcessesBehind
  <2>6. LeaseIsRunning' /\ AttemptsNumbered'
    BY <1>3 DEF IInv, LeaseIsRunning, AttemptsNumbered, Owns
  <2> QED
    BY <1>4, <2>1, <2>3, <2>4, <2>5, <2>6 DEF IInv, Tables
<1>7. \A c \in Consumers : Position(c)' = Position(c)
  BY <1>3 DEF Position
<1>8. ASSUME NEW c \in Consumers
      PROVE  Tried(c)' = Append(Tried(c), 0) /\ Fate(c)' = Append(Fate(c), "open")
  <2>1. \A n : Attempts(c, n)' = Attempts(c, n) /\ Ends(c, n)' = Ends(c, n)
    BY <1>3 DEF Attempts, Ends
  <2>2. Tries(c, L + 1) = {} /\ Ends(c, L + 1) = {}
    BY <1>1, <1>5 DEF Tries, Ends
  <2>3. Attempts(c, L + 1) = 0
    BY <1>1, <2>2, TriesFinite, FS_EmptySet
  <2>4. DOMAIN Tried(c) = 1 .. L /\ DOMAIN Tried(c)' = 1 .. L + 1
    BY <1>1, <1>2 DEF Tried
  <2>5. Tried(c)' = Append(Tried(c), Tried(c)'[L + 1])
    BY <1>1, <1>2, <1>3, <2>1, LongerByOne DEF Tried
  <2>6. Tried(c)'[L + 1] = 0
    BY <1>1, <1>2, <1>3, <2>1, <2>3 DEF Tried
  <2>7. Fate(c)' = Append(Fate(c), Fate(c)'[L + 1])
    BY <1>1, <1>2, <1>3, <2>1, LongerByOne DEF Fate
  <2>8. Fate(c)'[L + 1] = "open"
    BY <1>1, <1>2, <1>3, <2>1, <2>2 DEF Fate
  <2> QED
    BY <2>5, <2>6, <2>7, <2>8
<1>9. Log!Append1(id)
  BY <1>2, <1>3, <1>7, <1>8 DEF Log!Append1, Log!Kept, Kept, Publish
<1> QED
  BY <1>6, <1>9

\* A consumer without a lease is set to another place in the log.
LEMMA PlacedInv ==
    ASSUME IInv, TypeOK', UNCHANGED <<log, gone, delivery>>, NEW c \in Consumers,
           consumer[c].lease = 0, consumer'[c].lease = 0,
           \A d \in Consumers \ {c} : consumer'[d] = consumer[d],
           UnknownIsEmpty', ProcessesBehind'
    PROVE  IInv'
<1>1. \A d \in Consumers : consumer'[d].lease = consumer[d].lease
  OBVIOUS
<1>2. \A d \in Consumers : consumer[d].lease # 0 => consumer'[d] = consumer[d]
  OBVIOUS
<1>3. LeaseIsRunning'
  BY <1>1 DEF IInv, LeaseIsRunning, Owns
<1>4. AttemptsNumbered' /\ DeliveriesOfLog'
  BY SMTT(40) DEF IInv, Tables, AttemptsNumbered, DeliveriesOfLog
<1>5. LeaseIsNext'
  BY <1>1, <1>2 DEF IInv, Tables, LeaseIsNext, Next1, Due, Kept
<1> QED
  BY <1>3, <1>4, <1>5 DEF IInv, Tables

LEMMA RegisterKnownStep ==
    ASSUME IInv, NEW p \in Processes, NEW c \in Consumers, RegisterConsumer(p, c),
           consumer[c].known
    PROVE  IInv' /\ UNCHANGED Log!vars
<1>1. TypeOK /\ proc[p] \in Process
  BY DEF IInv, TypeOK
<1>2. UNCHANGED <<log, gone, consumer, delivery, run, faults>>
  BY DEF RegisterConsumer
<1>3. proc' = [proc EXCEPT ![p].handlers = @ \cup {c}] /\ proc' \in [Processes -> Process]
  BY <1>1 DEF RegisterConsumer, Process, TypeOK
<1>4. TypeOK'
  BY <1>1, <1>2, <1>3, ControlType DEF TypeOK
<1>5. ProcessesBehind'
  BY <1>1, <1>2, <1>3 DEF IInv, Tables, ProcessesBehind, TypeOK, Process
<1>6. UnknownIsEmpty'
  BY <1>2 DEF IInv, Tables, UnknownIsEmpty
<1> QED
  BY <1>2, <1>4, <1>5, <1>6, SameInv, SameView DEF SameTables

LEMMA JoinStep ==
    ASSUME IInv, Alone, NEW p \in Processes, NEW c \in Consumers, RegisterConsumer(p, c),
           ~consumer[c].known
    PROVE  IInv' /\ Log!Join(c)
<1> DEFINE start == IF StartAt[c] = "latest" /\ Kept # {} THEN Len(log) ELSE 0
           row == [NoConsumer EXCEPT !.known = TRUE, !.cursor = start]
<1>1. TypeOK /\ proc[p] \in Process /\ start \in 0 .. Len(log)
  BY LogShape DEF IInv, TypeOK
<1>2. /\ UNCHANGED <<log, gone, delivery, run, faults>>
      /\ consumer' = [consumer EXCEPT ![c] = row]
      /\ proc' = [proc EXCEPT ![p].handlers = @ \cup {c}]
  BY DEF RegisterConsumer
<1>3. row \in Registration /\ row.known /\ row.cursor = start /\ row.lease = 0
  <2>1. 0 \in 0 .. LeaseTime /\ Len(log) \in Nat
    BY <1>1, LogShape, EventsAssumption
  <2> QED
    BY <1>1, <2>1 DEF NoConsumer, Registration
<1> HIDE DEF row
<1>4. /\ consumer'[c] = row /\ consumer' \in [Consumers -> Registration]
      /\ \A d \in Consumers \ {c} : consumer'[d] = consumer[d]
  BY <1>1, <1>2, <1>3 DEF TypeOK
<1>5. proc' \in [Processes -> Process]
  BY <1>1, <1>2 DEF Process, TypeOK
<1>6. TypeOK'
  <2> HIDE DEF start
  <2>1. start <= Len(log) /\ \A d \in Consumers : consumer[d].cursor <= Len(log)
    BY <1>1, LogShape DEF TypeOK
  <2>2. \A d \in Consumers : consumer'[d].cursor <= Len(log)
    BY <1>3, <1>4, <2>1
  <2> QED
    BY <1>1, <1>2, <1>4, <1>5, <2>2, ControlType DEF TypeOK
<1>7. \A q \in Processes : proc'[q].cutoff = 0 /\ proc'[q].handlers \subseteq proc[q].handlers \cup {c}
  <2>1. \A q \in Processes : proc[q].cutoff = 0
    BY DEF RegisterConsumer, Compacting, Free
  <2> QED
    BY <1>1, <1>2, <2>1 DEF TypeOK, Process
<1>8. ProcessesBehind'
  <2>1. Len(log) \in Nat /\ \A d \in Consumers : consumer'[d].cursor \in Nat
    BY <1>4, LogShape, <1>1 DEF Registration
  <2>2. \A d \in Consumers : consumer[d].known => consumer'[d].known
    BY <1>3, <1>4
  <2> QED
    BY <1>2, <1>3, <1>4, <1>7, <2>1, <2>2 DEF IInv, Tables, ProcessesBehind
<1>9. consumer[c].lease = 0 /\ delivery[c] = <<>>
  BY DEF IInv, Tables, UnknownIsEmpty
<1>10. UnknownIsEmpty'
  BY <1>2, <1>3, <1>4 DEF IInv, Tables, UnknownIsEmpty
<1>11. IInv'
  BY <1>2, <1>3, <1>4, <1>6, <1>8, <1>9, <1>10, PlacedInv
<1>12. \A d \in Consumers : Tried(d)' = Tried(d)
  BY <1>2 DEF Tried, Attempts
<1>13. \A d \in Consumers : Fate(d)' = Fate(d)
  <2>1. \A d \in Consumers \ {c} : Fate(d)' = Fate(d)
    BY <1>2, <1>4 DEF Fate, Ends
  <2>2. \A n : Ends(c, n) = {} /\ Ends(c, n)' = {}
    BY <1>2, <1>9 DEF Ends
  <2>3. Fate(c)' = Fate(c)
    BY <1>2, <2>2 DEF Fate
  <2> QED
    BY <2>1, <2>3
<1>14. Position(c) = -1 /\ Position(c)' = start /\ \A d \in Consumers \ {c} : Position(d)' = Position(d)
  BY <1>3, <1>4 DEF Position
<1>15. start = IF StartAt[c] = "beginning" \/ Log!Kept = {} THEN 0 ELSE Len(log)
  BY EventsAssumption DEF Kept, Log!Kept
<1> HIDE DEF start
<1>16. [d \in Consumers |-> Position(d)]' = [[d \in Consumers |-> Position(d)] EXCEPT ![c] = start]
  BY <1>14
<1> QED
  BY <1>2, <1>11, <1>12, <1>13, <1>14, <1>15, <1>16 DEF Log!Join, Log!Absent

LEMMA RewindStep ==
    ASSUME IInv, Alone, NEW p \in Processes, NEW c \in Consumers, NEW n \in 0 .. Len(log),
           RewindConsumer(p, c, n)
    PROVE  IInv' /\ (Log!Rewind(c, n) \/ UNCHANGED Log!vars)
<1> DEFINE row == [consumer[c] EXCEPT !.cursor = n, !.wait = 0]
<1>1. TypeOK /\ consumer[c] \in Registration /\ n \in Nat /\ Len(log) \in Nat
  BY LogShape DEF IInv, TypeOK
<1>2. /\ UNCHANGED <<log, gone, delivery, run, proc>> /\ n <= consumer[c].cursor
      /\ consumer' = [consumer EXCEPT ![c] = row] /\ consumer[c].lease = 0 /\ consumer[c].known
  BY <1>1 DEF RewindConsumer, TypeOK
<1>3. row \in Registration /\ row.known /\ row.cursor = n /\ row.lease = 0
  BY <1>1, <1>2 DEF Registration
<1> HIDE DEF row
<1>4. /\ consumer'[c] = row /\ consumer' \in [Consumers -> Registration]
      /\ \A d \in Consumers \ {c} : consumer'[d] = consumer[d]
  BY <1>1, <1>2, <1>3 DEF TypeOK
<1>5. TypeOK'
  <2>1. \A d \in Consumers : consumer'[d].cursor <= Len(log)
    BY <1>1, <1>3, <1>4 DEF TypeOK
  <2>2. faults' \in 0 .. MaxFaults
    BY <1>1, FaultType DEF RewindConsumer
  <2> QED
    BY <1>1, <1>2, <1>4, <2>1, <2>2, ControlType DEF TypeOK
<1>6. ProcessesBehind'
  <2>1. \A q \in Processes : proc[q].cutoff = 0 /\ proc[q].handlers \subseteq Consumers
    BY <1>1 DEF RewindConsumer, Compacting, Free, TypeOK, Process
  <2>2. \A d \in Consumers : consumer'[d].cursor \in Nat /\ consumer'[d].known = consumer[d].known
    BY <1>2, <1>3, <1>4 DEF Registration
  <2> QED
    BY <1>1, <1>2, <2>1, <2>2 DEF IInv, Tables, ProcessesBehind
<1>7. UnknownIsEmpty'
  BY <1>2, <1>3, <1>4 DEF IInv, Tables, UnknownIsEmpty
<1>8. IInv'
  BY <1>2, <1>3, <1>4, <1>5, <1>6, <1>7, PlacedInv
<1>9. \A d \in Consumers : Tried(d)' = Tried(d)
  BY <1>2 DEF Tried, Attempts
<1>10. \A d \in Consumers \ {c} : Fate(d)' = Fate(d) /\ Position(d)' = Position(d)
  BY <1>2, <1>4 DEF Fate, Ends, Position
<1>11. Position(c) = consumer[c].cursor /\ Position(c)' = n
  BY <1>2, <1>3, <1>4 DEF Position
<1>12. CASE n = consumer[c].cursor
  <2>1. Fate(c)' = Fate(c) /\ Position(c)' = Position(c)
    BY <1>2, <1>3, <1>4, <1>11, <1>12 DEF Fate, Ends
  <2> QED
    BY <1>2, <1>8, <1>9, <1>10, <2>1 DEF Log!vars
<1>13. CASE n < consumer[c].cursor
  <2>1. Fate(c)' = [m \in DOMAIN Fate(c) |-> IF m > n THEN "open" ELSE Fate(c)[m]]
    <3>1. DOMAIN log = 1 .. Len(log) /\ consumer[c].cursor \in Nat
      BY <1>1, LogShape DEF Registration
    <3>2. \A m : Ends(c, m)' = Ends(c, m)
      BY <1>2 DEF Ends
    <3> QED
      BY <1>1, <1>2, <1>3, <1>4, <1>13, <3>1, <3>2 DEF Fate
  <2>2. [d \in Consumers |-> Position(d)]' = [[d \in Consumers |-> Position(d)] EXCEPT ![c] = n]
    BY <1>10, <1>11
  <2>3. [d \in Consumers |-> Fate(d)]' = [[d \in Consumers |-> Fate(d)] EXCEPT ![c] =
            [m \in DOMAIN @ |-> IF m > n THEN "open" ELSE @[m]]]
    BY <1>10, <2>1
  <2>4. Log!Rewind(c, n)
    <3>1. Position(c) # -1 /\ n < Position(c)
      BY <1>1, <1>11, <1>13 DEF Registration
    <3> QED
      BY <1>2, <1>9, <2>2, <2>3, <3>1 DEF Log!Rewind, Log!Absent
  <2> QED
    BY <1>8, <2>4
<1> QED
  BY <1>1, <1>2, <1>12, <1>13 DEF Registration

-----------------------------------------------------------------------------
(* The delivery worker: a claim                                            *)

\* An expired lease always has its running delivery, of an event that is due:
\* the consumer is claimed in the same transaction.
LEMMA NeverWedged ==
    ASSUME IInv, NEW c \in Consumers, Expired(c)
    PROVE  ~Wedged(c) /\ Claimable(c)
<1>1. consumer[c].lease # 0 /\ consumer[c].lease \in Nat
  BY DEF Expired, IInv, TypeOK, Registration
<1>2. consumer[c].lease \in DOMAIN delivery[c]
  BY <1>1, TableShape DEF IInv, Tables, LeaseIsNext
<1>3. ~Wedged(c)
  BY <1>2 DEF IInv, LeaseIsRunning, Owns, Wedged
<1>4. Due(c) # {}
  BY <1>1 DEF IInv, Tables, LeaseIsNext, Next1
<1> QED
  BY <1>3, <1>4 DEF Claimable

Claims(p) == {c \in proc[p].handlers : Claimable(c)}
Claim(c) == [seq |-> Min(Due(c)), attempt |-> Attempts(c, Min(Due(c))) + 1, status |-> "running"]

\* A round of the worker, without what the invariant excludes.
Claimed(p) ==
    /\ Claims(p) # {} /\ Claims(p) \subseteq Consumers
    /\ delivery' = [c \in Consumers |-> IF c \in Claims(p) THEN Append(Recovered(c), Claim(c))
                                        ELSE delivery[c]]
    /\ run' = [c \in Consumers |-> IF c \in Claims(p) THEN Append(run[c], Running(p)) ELSE run[c]]
    /\ consumer' = [c \in Consumers |->
           IF c \in Claims(p) THEN [consumer[c] EXCEPT !.wait = 0, !.left = LeaseTime,
                                                       !.lease = Len(delivery[c]) + 1]
           ELSE consumer[c]]
    /\ proc' = [proc EXCEPT ![p].awaited = {<<c, Len(delivery[c]) + 1>> : c \in Claims(p)}]
    /\ UNCHANGED <<log, gone, faults>>

LEMMA PendingClaims ==
    ASSUME IInv, NEW p \in Processes, RunPending(p)
    PROVE  Claimed(p)
<1> DEFINE ready == {c \in proc[p].handlers : Expired(c) \/ Claimable(c)}
           claims == {c \in ready : Claimable(c) /\ ~Wedged(c)}
<1>1. proc[p].handlers \subseteq Consumers
  BY DEF IInv, TypeOK, Process
<1>2. \A c \in Consumers : ~Wedged(c) /\ (Expired(c) => Claimable(c))
  BY NeverWedged DEF Wedged
<1>3. ready = Claims(p) /\ claims = Claims(p)
  BY <1>1, <1>2 DEF Claims
<1>4. /\ ready # {}
      /\ delivery' = [c \in Consumers |-> IF c \in claims THEN Append(Recovered(c), Claim(c))
                                          ELSE IF c \in ready THEN Recovered(c) ELSE delivery[c]]
      /\ run' = [c \in Consumers |-> IF c \in claims THEN Append(run[c], Running(p)) ELSE run[c]]
      /\ consumer' = [c \in Consumers |->
             IF c \in claims THEN [consumer[c] EXCEPT !.wait = 0, !.left = LeaseTime,
                                                      !.lease = Len(delivery[c]) + 1]
             ELSE IF c \in ready /\ ~Wedged(c)
                  THEN [consumer[c] EXCEPT !.wait = 0, !.lease = 0] ELSE consumer[c]]
      /\ proc' = [proc EXCEPT ![p].awaited = IF \E c \in ready : Wedged(c) THEN {}
                                             ELSE {<<c, Len(delivery[c]) + 1>> : c \in claims}]
      /\ UNCHANGED <<log, gone, faults>>
  BY DEF RunPending, Claim
<1> HIDE DEF ready, claims
<1>5. ~(\E c \in ready : Wedged(c))
  BY <1>1, <1>2, <1>3 DEF Claims
<1>6. Claims(p) # {} /\ Claims(p) \subseteq Consumers
  BY <1>1, <1>3, <1>4 DEF Claims
<1>7. proc' = [proc EXCEPT ![p].awaited = {<<c, Len(delivery[c]) + 1>> : c \in Claims(p)}]
  BY <1>3, <1>4, <1>5
<1>8. /\ delivery' = [c \in Consumers |-> IF c \in Claims(p) THEN Append(Recovered(c), Claim(c))
                                          ELSE delivery[c]]
      /\ run' = [c \in Consumers |-> IF c \in Claims(p) THEN Append(run[c], Running(p)) ELSE run[c]]
  BY <1>3, <1>4
<1>9. consumer' = [c \in Consumers |->
          IF c \in Claims(p) THEN [consumer[c] EXCEPT !.wait = 0, !.left = LeaseTime,
                                                      !.lease = Len(delivery[c]) + 1]
          ELSE consumer[c]]
  BY <1>3, <1>4
<1> QED
  BY <1>4, <1>6, <1>7, <1>8, <1>9 DEF Claimed

\* What the recovery of a lease leaves as it is.
LEMMA RecoveredShape ==
    ASSUME IInv, NEW c \in Consumers, Claimable(c)
    PROVE  /\ Recovered(c) \in Seq(Delivery) /\ Len(Recovered(c)) = Len(delivery[c])
           /\ \A k \in 1 .. Len(delivery[c]) :
                 /\ Recovered(c)[k].seq = delivery[c][k].seq
                 /\ Recovered(c)[k].attempt = delivery[c][k].attempt
                 /\ Recovered(c)[k].status = "deleted" <=> delivery[c][k].status = "deleted"
                 /\ Recovered(c)[k].status \in Final <=> delivery[c][k].status \in Final
                 /\ delivery[c][k].status \in Final => Recovered(c)[k].status = delivery[c][k].status
                 /\ Recovered(c)[k].status # "running"
<1> DEFINE L == Len(delivery[c])
           lease == consumer[c].lease
<1>1. /\ TypeOK /\ delivery[c] \in Seq(Delivery) /\ L \in Nat /\ DOMAIN delivery[c] = 1 .. L
      /\ \A k \in 1 .. L : delivery[c][k] \in Delivery
  BY TableShape DEF IInv
<1>2. \A k \in 1 .. L : delivery[c][k].status = "running" <=> k = lease
  BY <1>1 DEF IInv, LeaseIsRunning, Owns
<1>3. CASE Expired(c)
  <2>1. lease \in 1 .. L
    BY <1>1, <1>3, NeverWedged DEF Expired, IInv, Tables, LeaseIsNext, TypeOK, Registration
  <2>2. [delivery[c][lease] EXCEPT !.status = "abandoned"] \in Delivery
    BY <1>1, <2>1 DEF Delivery, Status
  <2>3. Recovered(c) = [delivery[c] EXCEPT ![lease] = [delivery[c][lease] EXCEPT !.status = "abandoned"]]
    BY <1>3, NeverWedged DEF Recovered
  <2>4. Recovered(c) \in Seq(Delivery) /\ Len(Recovered(c)) = L
    BY <1>1, <2>1, <2>2, <2>3, ExceptSeq
  <2>5. ASSUME NEW k \in 1 .. L, k # lease
        PROVE  Recovered(c)[k] = delivery[c][k] /\ delivery[c][k].status # "running"
    BY <1>1, <1>2, <2>3, <2>5
  <2>6. /\ Recovered(c)[lease].seq = delivery[c][lease].seq
        /\ Recovered(c)[lease].attempt = delivery[c][lease].attempt
        /\ Recovered(c)[lease].status = "abandoned" /\ delivery[c][lease].status = "running"
    BY <1>1, <1>2, <2>1, <2>3 DEF Delivery
  <2> QED
    BY <2>4, <2>5, <2>6 DEF Final
<1>4. CASE ~Expired(c)
  <2>1. Recovered(c) = delivery[c] /\ lease = 0
    BY <1>4 DEF Recovered, Claimable
  <2> QED
    BY <1>1, <1>2, <2>1
<1> QED
  BY <1>3, <1>4

\* The rows of a consumer that had L deliveries, once its next event n is claimed.
ClaimedRow(c, L, n) ==
    /\ Next1(c, n) /\ n \in Nat /\ L \in Nat /\ L + 1 \in Nat
    /\ delivery'[c] \in Seq(Delivery) /\ run'[c] \in Seq(Execution)
    /\ Len(delivery'[c]) = L + 1 /\ Len(run'[c]) = L + 1
    /\ DOMAIN delivery'[c] = 1 .. L + 1 /\ DOMAIN delivery[c] = 1 .. L
    /\ DOMAIN run'[c] = 1 .. L + 1
    /\ delivery'[c][L + 1].seq = n /\ delivery'[c][L + 1].attempt = Attempts(c, n) + 1
    /\ delivery'[c][L + 1].status = "running"
    /\ \A k \in 1 .. L :
          /\ delivery'[c][k].seq = delivery[c][k].seq
          /\ delivery'[c][k].attempt = delivery[c][k].attempt
          /\ delivery'[c][k].status = "deleted" <=> delivery[c][k].status = "deleted"
          /\ delivery'[c][k].status \in Final <=> delivery[c][k].status \in Final
          /\ delivery[c][k].status \in Final => delivery'[c][k].status = delivery[c][k].status
          /\ delivery'[c][k].status # "running"
    /\ consumer'[c].lease = L + 1 /\ consumer'[c].cursor = consumer[c].cursor
    /\ consumer'[c].known = consumer[c].known /\ consumer'[c] \in Registration

LEMMA ClaimedRows ==
    ASSUME IInv, NEW p \in Processes, Claimed(p), NEW c \in Claims(p),
           NEW L, NEW n, L = Len(delivery[c]), n = Min(Due(c))
    PROVE  ClaimedRow(c, L, n)
<1>1. TypeOK /\ c \in Consumers /\ Claimable(c) /\ consumer[c] \in Registration
  BY DEF IInv, TypeOK, Claims, Claimed
<1>2. L \in Nat /\ L + 1 \in Nat /\ DOMAIN delivery[c] = 1 .. L /\ run[c] \in Seq(Execution) /\ Len(run[c]) = L
  BY <1>1, TableShape
<1>3. Next1(c, n) /\ n \in Nat
  BY <1>1, FirstDue DEF Claimable
<1>4. Claim(c) \in Delivery
  <2>1. n # 0
    BY <1>1, <1>3, LogShape DEF Next1
  <2>2. Attempts(c, n) + 1 \in Nat \ {0}
    BY <1>1, TriesFinite
  <2> QED
    BY <1>3, <2>1, <2>2 DEF Claim, Delivery, Status
<1>5. Running(p) \in Execution
  BY DEF Running, Execution
<1> DEFINE R == Recovered(c)
<1>6. /\ R \in Seq(Delivery) /\ Len(R) = L
      /\ \A k \in 1 .. L :
            /\ R[k].seq = delivery[c][k].seq
            /\ R[k].attempt = delivery[c][k].attempt
            /\ R[k].status = "deleted" <=> delivery[c][k].status = "deleted"
            /\ R[k].status \in Final <=> delivery[c][k].status \in Final
            /\ delivery[c][k].status \in Final => R[k].status = delivery[c][k].status
            /\ R[k].status # "running"
  BY <1>1, RecoveredShape
<1>7. delivery'[c] = Append(R, Claim(c)) /\ run'[c] = Append(run[c], Running(p))
  BY <1>1 DEF Claimed
<1> HIDE DEF R
<1>8. /\ delivery'[c] \in Seq(Delivery) /\ Len(delivery'[c]) = L + 1
      /\ \A k \in 1 .. L : delivery'[c][k] = R[k]
      /\ delivery'[c][L + 1] = Claim(c)
  BY <1>2, <1>4, <1>6, <1>7, AppendProperties
<1>9. run'[c] \in Seq(Execution) /\ Len(run'[c]) = L + 1
  BY <1>2, <1>5, <1>7, AppendProperties
<1>10. DOMAIN delivery'[c] = 1 .. L + 1 /\ DOMAIN run'[c] = 1 .. L + 1
  BY <1>8, <1>9, LenProperties
<1>11. consumer'[c] = [consumer[c] EXCEPT !.wait = 0, !.left = LeaseTime, !.lease = L + 1]
  BY <1>1 DEF Claimed
<1>12. LeaseTime \in 0 .. LeaseTime
  BY EventsAssumption
<1>13. /\ consumer'[c].lease = L + 1 /\ consumer'[c].cursor = consumer[c].cursor
       /\ consumer'[c].known = consumer[c].known /\ consumer'[c] \in Registration
  <2>1. consumer'[c] = [known |-> consumer[c].known, cursor |-> consumer[c].cursor, wait |-> 0,
                        lease |-> L + 1, left |-> LeaseTime]
    BY <1>1, <1>11 DEF Registration
  <2> QED
    BY <1>1, <1>2, <1>12, <2>1 DEF Registration
<1>14. /\ delivery'[c][L + 1].seq = n /\ delivery'[c][L + 1].attempt = Attempts(c, n) + 1
       /\ delivery'[c][L + 1].status = "running"
  BY <1>8 DEF Claim
<1>15. \A k \in 1 .. L :
            /\ delivery'[c][k].seq = delivery[c][k].seq
            /\ delivery'[c][k].attempt = delivery[c][k].attempt
            /\ delivery'[c][k].status = "deleted" <=> delivery[c][k].status = "deleted"
            /\ delivery'[c][k].status \in Final <=> delivery[c][k].status \in Final
            /\ delivery[c][k].status \in Final => delivery'[c][k].status = delivery[c][k].status
            /\ delivery'[c][k].status # "running"
  BY <1>6, <1>8
<1> QED
  BY <1>2, <1>3, <1>4, <1>8, <1>9, <1>10, <1>13, <1>14, <1>15 DEF ClaimedRow

\* Who is not claimed keeps every row.
LEMMA UnclaimedRows ==
    ASSUME IInv, NEW p \in Processes, Claimed(p), NEW c \in Consumers \ Claims(p)
    PROVE  delivery'[c] = delivery[c] /\ run'[c] = run[c] /\ consumer'[c] = consumer[c]
BY DEF Claimed

LEMMA ClaimType ==
    ASSUME IInv, NEW p \in Processes, Claimed(p)
    PROVE  TypeOK'
<1>1. TypeOK /\ proc[p] \in Process
  BY DEF IInv, TypeOK
<1>2. ASSUME NEW c \in Consumers
      PROVE  /\ delivery'[c] \in Seq(Delivery) /\ run'[c] \in Seq(Execution)
             /\ Len(run'[c]) = Len(delivery'[c]) /\ DOMAIN run[c] \subseteq DOMAIN run'[c]
             /\ consumer'[c] \in Registration /\ consumer'[c].cursor <= Len(log)
  <2>1. CASE c \in Claims(p)
    <3>1. DOMAIN run[c] = 1 .. Len(delivery[c]) /\ Len(delivery[c]) \in Nat
      BY <1>1, TableShape
    <3>2. consumer[c].cursor <= Len(log)
      BY <1>1 DEF TypeOK
    <3>3. PICK L, n : L = Len(delivery[c]) /\ n = Min(Due(c))
      OBVIOUS
    <3>4. ClaimedRow(c, L, n)
      BY <2>1, <3>3, ClaimedRows
    <3> QED
      BY <3>1, <3>2, <3>3, <3>4 DEF ClaimedRow
  <2>2. CASE c \notin Claims(p)
    BY <1>1, <2>2, UnclaimedRows DEF TypeOK
  <2> QED
    BY <2>1, <2>2
<1>3. /\ delivery' \in [Consumers -> Seq(Delivery)] /\ run' \in [Consumers -> Seq(Execution)]
      /\ consumer' \in [Consumers -> Registration]
  <2>1. /\ delivery' = [c \in Consumers |-> delivery'[c]] /\ run' = [c \in Consumers |-> run'[c]]
        /\ consumer' = [c \in Consumers |-> consumer'[c]]
    BY DEF Claimed
  <2> QED
    BY <1>2, <2>1
<1>4. Runs \subseteq Runs'
  BY <1>2 DEF Runs
<1>5. {<<c, Len(delivery[c]) + 1>> : c \in Claims(p)} \subseteq Runs'
  <2>1. \A c \in Claims(p) : c \in Consumers /\ Len(delivery[c]) + 1 \in DOMAIN run'[c]
    <3> TAKE c \in Claims(p)
    <3>1. PICK L, n : L = Len(delivery[c]) /\ n = Min(Due(c))
      OBVIOUS
    <3>2. ClaimedRow(c, L, n)
      BY <3>1, ClaimedRows
    <3>3. c \in Consumers
      BY DEF Claimed
    <3>4. L + 1 \in DOMAIN run'[c]
      BY <3>2 DEF ClaimedRow
    <3> QED
      BY <3>1, <3>3, <3>4
  <2> QED
    BY <2>1 DEF Runs
<1>6. proc' \in [Processes -> Process']
  <2>1. \A q \in Processes : proc[q] \in Process'
    BY <1>1, <1>4 DEF TypeOK, Process
  <2>2. [proc[p] EXCEPT !.awaited = {<<c, Len(delivery[c]) + 1>> : c \in Claims(p)}] \in Process'
    BY <1>1, <1>5 DEF Process
  <2>3. proc' = [proc EXCEPT ![p] =
                    [proc[p] EXCEPT !.awaited = {<<c, Len(delivery[c]) + 1>> : c \in Claims(p)}]]
    BY <1>1 DEF Claimed, TypeOK
  <2> QED
    BY <1>1, <2>1, <2>2, <2>3 DEF TypeOK
<1> QED
  BY <1>1, <1>2, <1>3, <1>6 DEF Claimed, TypeOK, Registration, Delivery, Execution

\* The attempts at an event once the next one is claimed.
LEMMA ClaimedTries ==
    ASSUME IInv, NEW p \in Processes, Claimed(p), NEW c \in Claims(p), NEW m
    PROVE  Attempts(c, m)' = IF m = Min(Due(c)) THEN Attempts(c, m) + 1 ELSE Attempts(c, m)
<1>0. PICK L, n : L = Len(delivery[c]) /\ n = Min(Due(c))
  OBVIOUS
<1> ClaimedRow(c, L, n)
  BY <1>0, ClaimedRows
<1>1. TypeOK /\ TypeOK' /\ c \in Consumers
  BY ClaimType DEF IInv, Claimed
<1>2. /\ L \in Nat /\ DOMAIN delivery'[c] = 1 .. L + 1 /\ DOMAIN delivery[c] = 1 .. L
      /\ delivery'[c][L + 1].seq = n /\ delivery'[c][L + 1].status = "running"
      /\ \A k \in 1 .. L : /\ delivery'[c][k].seq = delivery[c][k].seq
                           /\ delivery'[c][k].status = "deleted" <=> delivery[c][k].status = "deleted"
  BY DEF ClaimedRow
<1>3. Tries(c, m)' = IF m = n THEN Tries(c, m) \cup {L + 1} ELSE Tries(c, m)
  <2>1. 1 .. L + 1 = 1 .. L \cup {L + 1}
    BY <1>2
  <2> QED
    BY <1>2, <2>1 DEF Tries
<1>4. Attempts(c, m) = Cardinality(Tries(c, m)) /\ IsFiniteSet(Tries(c, m))
  BY <1>1, TriesFinite
<1>5. Attempts(c, m)' = Cardinality(Tries(c, m)')
  BY DEF Attempts, Tries
<1>6. L + 1 \notin Tries(c, m)
  BY <1>2 DEF Tries
<1>7. Attempts(c, m)' = IF m = n THEN Attempts(c, m) + 1 ELSE Attempts(c, m)
  BY <1>3, <1>4, <1>5, <1>6, FS_AddElement
<1> QED
  BY <1>0, <1>7

LEMMA ClaimInv ==
    ASSUME IInv, NEW p \in Processes, Claimed(p)
    PROVE  IInv'
<1>1. TypeOK /\ TypeOK' /\ UNCHANGED <<log, gone>> /\ Claims(p) \subseteq Consumers
  BY ClaimType DEF IInv, Claimed
<1>2. \A c \in Consumers : /\ consumer'[c].known = consumer[c].known
                           /\ consumer'[c].cursor = consumer[c].cursor
  <2> TAKE c \in Consumers
  <2>1. PICK L, n : L = Len(delivery[c]) /\ n = Min(Due(c))
    OBVIOUS
  <2>2. c \in Claims(p) => ClaimedRow(c, L, n)
    BY <2>1, ClaimedRows
  <2> QED
    BY <2>2, UnclaimedRows DEF ClaimedRow
<1>3. \A c \in Consumers : Due(c)' = Due(c)
  BY <1>1, <1>2 DEF Due, Kept
<1>4. ASSUME NEW c \in Consumers
      PROVE  /\ \A k \in DOMAIN delivery'[c] : (delivery'[c][k].status = "running") = Owns(c, k)'
             /\ \A k \in DOMAIN delivery'[c] :
                   /\ delivery'[c][k].seq \in DOMAIN log
                   /\ log[delivery'[c][k].seq] \in Wanted[c]
                   /\ delivery'[c][k].status = "deleted" <=> delivery'[c][k].seq <= gone
             /\ consumer'[c].lease # 0 => /\ consumer'[c].lease = Len(delivery'[c])
                                          /\ Next1(c, delivery'[c][consumer'[c].lease].seq)
  <2>1. CASE c \notin Claims(p)
    BY <2>1, UnclaimedRows DEF IInv, Tables, LeaseIsRunning, DeliveriesOfLog, LeaseIsNext, Owns
  <2>2. CASE c \in Claims(p)
    <3>0. PICK L, n : L = Len(delivery[c]) /\ n = Min(Due(c))
      OBVIOUS
    <3>1. /\ L \in Nat /\ DOMAIN delivery'[c] = 1 .. L + 1 /\ DOMAIN delivery[c] = 1 .. L
          /\ Len(delivery'[c]) = L + 1 /\ consumer'[c].lease = L + 1 /\ Next1(c, n) /\ n \in Nat
          /\ delivery'[c][L + 1].seq = n /\ delivery'[c][L + 1].status = "running"
          /\ \A k \in 1 .. L : /\ delivery'[c][k].seq = delivery[c][k].seq
                               /\ delivery'[c][k].status = "deleted" <=> delivery[c][k].status = "deleted"
                               /\ delivery'[c][k].status # "running"
      <4>1. ClaimedRow(c, L, n)
        BY <2>2, <3>0, ClaimedRows
      <4> QED
        BY <4>1 DEF ClaimedRow
    <3>2. n \in DOMAIN log /\ log[n] \in Wanted[c] /\ ~(n <= gone)
      BY <1>1, <3>1, LogShape DEF Next1, Due, Kept
    <3>3. \A k \in 1 .. L + 1 : k \in 1 .. L \/ k = L + 1
      BY <3>1
    <3>4. L + 1 \notin 1 .. L /\ L + 1 # 0
      BY <3>1
    <3>5. \A k \in 1 .. L : /\ delivery[c][k].seq \in DOMAIN log
                            /\ log[delivery[c][k].seq] \in Wanted[c]
                            /\ delivery[c][k].status = "deleted" <=> delivery[c][k].seq <= gone
      BY <3>1 DEF IInv, Tables, DeliveriesOfLog
    <3> QED
      BY <3>1, <3>2, <3>3, <3>4, <3>5 DEF Owns
  <2> QED
    BY <2>1, <2>2
<1>5. LeaseIsRunning'
  BY <1>4 DEF LeaseIsRunning
<1>6. DeliveriesOfLog'
  BY <1>1, <1>4 DEF DeliveriesOfLog
<1>7. LeaseIsNext'
  BY <1>3, <1>4 DEF LeaseIsNext, Next1
<1>8. UnknownIsEmpty'
  <2>1. \A c \in Claims(p) : consumer[c].known
    BY DEF IInv, Tables, ProcessesBehind, Claims
  <2> QED
    BY <1>2, <2>1, UnclaimedRows DEF IInv, Tables, UnknownIsEmpty
<1>9. ProcessesBehind'
  <2>1. \A q \in Processes : proc'[q].cutoff = proc[q].cutoff /\ proc'[q].handlers = proc[q].handlers
    BY <1>1, ZenonT(40) DEF Claimed, TypeOK, Process
  <2>2. \A q \in Processes : proc[q].handlers \subseteq Consumers
    BY <1>1 DEF TypeOK, Process
  <2> QED
    BY <1>1, <1>2, <2>1, <2>2 DEF IInv, Tables, ProcessesBehind
<1>10. AttemptsNumbered'
  <2>1. ASSUME NEW c \in Consumers, NEW k \in DOMAIN delivery'[c], delivery'[c][k].status # "deleted"
        PROVE  delivery'[c][k].attempt = Cardinality({j \in 1..k :
                   delivery'[c][j].seq = delivery'[c][k].seq /\ delivery'[c][j].status # "deleted"})
    <3>1. CASE c \notin Claims(p)
      <4>1. delivery'[c] = delivery[c]
        BY <3>1, UnclaimedRows
      <4> QED
        BY <2>1, <4>1 DEF IInv, AttemptsNumbered
    <3>2. CASE c \in Claims(p)
      <4>0. PICK L, n : L = Len(delivery[c]) /\ n = Min(Due(c))
        OBVIOUS
      <4>1. /\ L \in Nat /\ DOMAIN delivery'[c] = 1 .. L + 1 /\ DOMAIN delivery[c] = 1 .. L
            /\ delivery'[c][L + 1].seq = n
            /\ delivery'[c][L + 1].attempt = Attempts(c, n) + 1
            /\ \A j \in 1 .. L : /\ delivery'[c][j].seq = delivery[c][j].seq
                                 /\ delivery'[c][j].attempt = delivery[c][j].attempt
                                 /\ delivery'[c][j].status = "deleted" <=> delivery[c][j].status = "deleted"
        <5>1. ClaimedRow(c, L, n)
          BY <3>2, <4>0, ClaimedRows
        <5> QED
          BY <5>1 DEF ClaimedRow
      <4>2. Attempts(c, n)' = Attempts(c, n) + 1
        BY <3>2, <4>0, ClaimedTries
      <4>3. CASE k = L + 1
        <5>1. Attempts(c, n)' = Cardinality({j \in 1 .. k : delivery'[c][j].seq = n
                                                  /\ delivery'[c][j].status # "deleted"})
          BY <4>1, <4>3 DEF Attempts
        <5> QED
          BY <4>1, <4>2, <4>3, <5>1
      <4>4. CASE k \in 1 .. L
        <5>1. 1 .. k \subseteq 1 .. L
          BY <4>1, <4>4
        <5>2. {j \in 1..k : delivery'[c][j].seq = delivery'[c][k].seq /\ delivery'[c][j].status # "deleted"}
              = {j \in 1..k : delivery[c][j].seq = delivery[c][k].seq /\ delivery[c][j].status # "deleted"}
          BY <4>1, <4>4, <5>1
        <5>3. delivery[c][k].status # "deleted" /\ k \in DOMAIN delivery[c]
          BY <2>1, <4>1, <4>4
        <5> QED
          BY <4>1, <4>4, <5>2, <5>3 DEF IInv, AttemptsNumbered
      <4>5. k = L + 1 \/ k \in 1 .. L
        BY <2>1, <4>1
      <4> QED
        BY <4>3, <4>4, <4>5
    <3> QED
      BY <3>1, <3>2
  <2> QED
    BY <2>1 DEF AttemptsNumbered
<1> QED
  BY <1>1, <1>5, <1>6, <1>7, <1>8, <1>9, <1>10 DEF IInv, Tables

\* What ended a consumer's deliveries of an event, when one did.
LEMMA EndsShape ==
    ASSUME TypeOK, NEW c \in Consumers, NEW m
    PROVE  /\ Ends(c, m) \subseteq 1 .. Len(delivery[c])
           /\ Ends(c, m) # {} => /\ Max(Ends(c, m)) \in Ends(c, m)
                                 /\ \A k \in Ends(c, m) : k <= Max(Ends(c, m))
<1>1. Len(delivery[c]) \in Nat /\ Ends(c, m) \subseteq 1 .. Len(delivery[c])
  BY TableShape DEF Ends
<1>2. Ends(c, m) \in SUBSET (0 .. Len(delivery[c]))
  BY <1>1
<1> QED
  BY <1>1, <1>2, MaxOfBounded

LEMMA ClaimView ==
    ASSUME IInv, NEW p \in Processes, Claimed(p)
    PROVE  Log!Deliver(Claims(p))
<1>1. TypeOK /\ UNCHANGED <<log, gone>> /\ Claims(p) \subseteq Consumers /\ Claims(p) # {}
  BY DEF IInv, Claimed
<1>2. \A c \in Consumers : /\ consumer'[c].known = consumer[c].known
                           /\ consumer'[c].cursor = consumer[c].cursor
  <2> TAKE c \in Consumers
  <2>1. PICK L, n : L = Len(delivery[c]) /\ n = Min(Due(c))
    OBVIOUS
  <2>2. c \in Claims(p) => ClaimedRow(c, L, n)
    BY <2>1, ClaimedRows
  <2> QED
    BY <2>2, UnclaimedRows DEF ClaimedRow
<1>3. \A c \in Consumers : Position(c)' = Position(c)
  BY <1>2 DEF Position
<1>4. ASSUME NEW c \in Consumers
      PROVE  Fate(c)' = Fate(c)
  <2>1. CASE c \notin Claims(p)
    <3>1. delivery'[c] = delivery[c] /\ consumer'[c] = consumer[c]
      BY <2>1, UnclaimedRows
    <3>2. \A m : Ends(c, m)' = Ends(c, m)
      BY <3>1 DEF Ends
    <3> QED
      BY <1>1, <3>1, <3>2 DEF Fate
  <2>2. CASE c \in Claims(p)
    <3>1. PICK L, n : L = Len(delivery[c]) /\ n = Min(Due(c))
      OBVIOUS
    <3>2. ClaimedRow(c, L, n)
      BY <2>2, <3>1, ClaimedRows
    <3>3. /\ L \in Nat /\ DOMAIN delivery'[c] = 1 .. L + 1 /\ DOMAIN delivery[c] = 1 .. L
          /\ delivery'[c][L + 1].status \notin Final
          /\ \A k \in 1 .. L :
                /\ delivery'[c][k].seq = delivery[c][k].seq
                /\ delivery'[c][k].status \in Final <=> delivery[c][k].status \in Final
                /\ delivery[c][k].status \in Final => delivery'[c][k].status = delivery[c][k].status
      BY <3>2 DEF ClaimedRow, Final
    <3>4. ASSUME NEW m
          PROVE  /\ Ends(c, m)' = Ends(c, m)
                 /\ \A k \in Ends(c, m) : delivery'[c][k].status = delivery[c][k].status
      <4>1. 1 .. L + 1 = 1 .. L \cup {L + 1}
        BY <3>3
      <4> QED
        BY <3>3, <4>1 DEF Ends
    <3>5. \A m : Ends(c, m) # {} =>
              delivery'[c][Max(Ends(c, m)')].status = delivery[c][Max(Ends(c, m))].status
      BY <1>1, <3>4, EndsShape
    <3> QED
      BY <1>1, <1>2, <3>4, <3>5 DEF Fate
  <2> QED
    BY <2>1, <2>2
<1>5. ASSUME NEW c \in Consumers
      PROVE  Tried(c)' = [n \in DOMAIN Tried(c) |->
                 IF c \in Claims(p) /\ Next1(c, n) THEN Tried(c)[n] + 1 ELSE Tried(c)[n]]
  <2>1. CASE c \notin Claims(p)
    <3>1. delivery'[c] = delivery[c]
      BY <2>1, UnclaimedRows
    <3>2. \A n : Attempts(c, n)' = Attempts(c, n)
      BY <3>1 DEF Attempts
    <3> QED
      BY <1>1, <2>1, <3>2 DEF Tried
  <2>2. CASE c \in Claims(p)
    <3>1. PICK first : first = Min(Due(c))
      OBVIOUS
    <3>2. Next1(c, first)
      BY <1>1, <2>2, <3>1, FirstDue DEF Claims, Claimable
    <3>3. \A n : Next1(c, n) <=> n = first
      BY <1>1, <3>2, NextUnique
    <3>4. ~(first <= gone)
      BY <1>1, <3>2, LogShape DEF Next1, Due, Kept
    <3>5. \A n : Attempts(c, n)' = IF n = first THEN Attempts(c, n) + 1 ELSE Attempts(c, n)
      BY <2>2, <3>1, ClaimedTries
    <3> QED
      BY <1>1, <2>2, <3>3, <3>4, <3>5 DEF Tried
  <2> QED
    BY <2>1, <2>2
<1>6. ASSUME NEW c \in Claims(p)
      PROVE  Log!Due(c) = Due(c) /\ Due(c) # {}
  <2>1. consumer[c].known /\ consumer[c].cursor \in Nat /\ c \in Consumers
    BY <1>1 DEF IInv, Tables, ProcessesBehind, Claims, TypeOK, Registration
  <2> QED
    BY <2>1 DEF Log!Due, Log!Kept, Log!Absent, Due, Kept, Position, Claims, Claimable
<1>7. \A c \in Claims(p) : \A n : Log!IsNext(c, n) <=> Next1(c, n)
  BY <1>6 DEF Log!IsNext, Next1
<1>8. \A c \in Consumers : Tried(c)' = [n \in DOMAIN Tried(c) |->
          IF c \in Claims(p) /\ Log!IsNext(c, n) THEN Tried(c)[n] + 1 ELSE Tried(c)[n]]
  BY <1>5, <1>7
<1> QED
  BY <1>1, <1>3, <1>4, <1>6, <1>8 DEF Log!Deliver

-----------------------------------------------------------------------------
(* The delivery worker: an answer                                          *)

\* The lease went to somebody else, or the row is not running any more.
LEMMA StaleAnswerStep ==
    ASSUME IInv, NEW c \in Consumers, NEW k \in DOMAIN run[c], NEW answer \in Answers,
           Answer(c, k, answer), ~(Owns(c, k) /\ delivery[c][k].status = "running")
    PROVE  IInv' /\ UNCHANGED Log!vars
<1> DEFINE p == run[c][k].proc
<1>1. /\ TypeOK /\ run[c] \in Seq(Execution) /\ k \in 1 .. Len(run[c])
      /\ run[c][k] \in Execution /\ p \in Processes /\ proc[p] \in Process
  <2>1. TypeOK /\ run[c] \in Seq(Execution) /\ k \in 1 .. Len(run[c]) /\ run[c][k] \in Execution
    BY TableShape DEF IInv
  <2>2. p \in Processes
    BY <2>1 DEF Execution
  <2> QED
    BY <2>1, <2>2 DEF TypeOK
<1>2. /\ UNCHANGED <<log, gone, consumer, delivery>>
      /\ run' = [run EXCEPT ![c][k].active = FALSE]
      /\ proc' = [proc EXCEPT ![p].awaited = IF <<c, k>> \in @ THEN {} ELSE @]
  BY DEF Answer
<1>3. faults' \in 0 .. MaxFaults
  BY <1>1, FaultType DEF Answer, TypeOK
<1> HIDE DEF p
<1>4. ProcKept
  BY <1>1, <1>2 DEF ProcKept, Process, TypeOK
<1>5. [run[c][k] EXCEPT !.active = FALSE] \in Execution
  BY <1>1 DEF Execution
<1>6. /\ [run[c] EXCEPT ![k] = [run[c][k] EXCEPT !.active = FALSE]] \in Seq(Execution)
      /\ Len([run[c] EXCEPT ![k] = [run[c][k] EXCEPT !.active = FALSE]]) = Len(run[c])
  BY <1>1, <1>5, ExceptSeq
<1>7. run' = [run EXCEPT ![c] = [run[c] EXCEPT ![k] = [run[c][k] EXCEPT !.active = FALSE]]]
  BY <1>1, <1>2 DEF TypeOK
<1> QED
  BY <1>1, <1>2, <1>3, <1>4, <1>6, <1>7, QuietStep DEF TypeOK

Results == {"cancelled", "success", "dead-letter", "error"}

\* The rows of a consumer once its running delivery k, of event n, ended.
AnsweredRow(c, k, n, result) ==
    /\ Next1(c, n) /\ n \in Nat /\ k \in Nat /\ k # 0 /\ consumer[c].known
    /\ k = Len(delivery[c]) /\ delivery[c][k].seq = n /\ delivery[c][k].status = "running"
    /\ delivery'[c] \in Seq(Delivery) /\ Len(delivery'[c]) = k
    /\ DOMAIN delivery[c] = 1 .. k /\ DOMAIN delivery'[c] = 1 .. k
    /\ \A j \in 1 .. k : /\ j # k => delivery'[c][j] = delivery[c][j]
                         /\ delivery'[c][j].seq = delivery[c][j].seq
                         /\ delivery'[c][j].attempt = delivery[c][j].attempt
    /\ delivery'[c][k].status = result /\ result \in Results
    /\ \A d \in Consumers \ {c} : delivery'[d] = delivery[d] /\ consumer'[d] = consumer[d]
    /\ consumer'[c].known = consumer[c].known /\ consumer'[c].lease = 0
    /\ consumer'[c].cursor = IF result \in Final THEN n ELSE consumer[c].cursor
    /\ consumer'[c] \in Registration
    /\ UNCHANGED <<log, gone>>

LEMMA AnsweredRows ==
    ASSUME IInv, NEW c \in Consumers, NEW k \in DOMAIN run[c], NEW answer \in Answers,
           Answer(c, k, answer), Owns(c, k) /\ delivery[c][k].status = "running",
           NEW n, n = delivery[c][k].seq,
           NEW result, result = Outcome(c, k, answer)
    PROVE  /\ AnsweredRow(c, k, n, result)
           /\ delivery' \in [Consumers -> Seq(Delivery)]
           /\ consumer' \in [Consumers -> Registration]
<1>1. /\ TypeOK /\ delivery[c] \in Seq(Delivery) /\ k \in 1 .. Len(delivery[c])
      /\ DOMAIN delivery[c] = 1 .. Len(delivery[c]) /\ Len(delivery[c]) \in Nat
      /\ delivery[c][k] \in Delivery /\ consumer[c] \in Registration
  BY TableShape DEF IInv, TypeOK
<1>2. k = Len(delivery[c]) /\ Next1(c, n) /\ k # 0
  BY <1>1 DEF IInv, Tables, LeaseIsNext, Owns
<1>3. consumer[c].known
  BY <1>1, <1>2 DEF IInv, Tables, UnknownIsEmpty, Owns
<1>4. n \in Nat /\ n > consumer[c].cursor
  BY <1>1, <1>2, LogShape DEF Next1, Due
<1>5. Max({consumer[c].cursor, n}) = n
  <2>1. {consumer[c].cursor, n} \in SUBSET (0 .. n)
    BY <1>1, <1>4 DEF Registration
  <2>2. Max({consumer[c].cursor, n}) \in 0 .. n /\ n <= Max({consumer[c].cursor, n})
    BY <1>4, <2>1, MaxOfBounded
  <2> QED
    BY <1>4, <2>2
<1>6. result \in Results
  BY DEF Outcome, Results
<1> DEFINE wait == IF result = "error" THEN RetryDelay[delivery[c][k].attempt] ELSE 0
           cursor == IF result \in Final THEN n ELSE consumer[c].cursor
           row == [consumer[c] EXCEPT
                      !.cursor = IF result \in Final THEN Max({consumer[c].cursor, n})
                                 ELSE consumer[c].cursor,
                      !.wait = wait, !.lease = 0, !.left = 0]
<1>7. wait \in Nat
  <2>1. CASE result = "error"
    <3>1. ~(delivery[c][k].attempt >= MaxAttempts)
      BY <2>1 DEF Outcome
    <3>2. delivery[c][k].attempt \in 1 .. MaxAttempts
      BY <1>1, <3>1, EventsAssumption DEF Delivery
    <3> QED
      BY <3>2, EventsAssumption
  <2> QED
    BY <2>1
<1>8. /\ delivery' = [delivery EXCEPT ![c][k].status = result]
      /\ consumer' = [consumer EXCEPT ![c] = row]
      /\ UNCHANGED <<log, gone>>
  <2>1. /\ delivery' = [delivery EXCEPT ![c][k].status = Outcome(c, k, answer)]
        /\ UNCHANGED <<log, gone>>
    BY DEF Answer
  <2>2. consumer' = [consumer EXCEPT ![c] =
            [consumer[c] EXCEPT
               !.cursor = IF Outcome(c, k, answer) \in Final
                          THEN Max({consumer[c].cursor, delivery[c][k].seq}) ELSE consumer[c].cursor,
               !.wait = IF Outcome(c, k, answer) = "error" THEN RetryDelay[delivery[c][k].attempt] ELSE 0,
               !.lease = 0, !.left = 0]]
    BY <1>1 DEF Answer, TypeOK
  <2> QED
    BY <2>1, <2>2
<1> HIDE DEF wait, cursor, row
<1>9. consumer'[c] = [known |-> consumer[c].known, cursor |-> cursor, wait |-> wait,
                      lease |-> 0, left |-> 0]
  <2>1. consumer'[c] = row
    BY <1>1, <1>8 DEF TypeOK
  <2>2. row = [consumer[c] EXCEPT !.cursor = cursor, !.wait = wait, !.lease = 0, !.left = 0]
    BY <1>5 DEF row, cursor
  <2> QED
    BY <1>1, <2>1, <2>2 DEF Registration
<1>10. consumer'[c] \in Registration
  <2>1. 0 \in 0 .. LeaseTime /\ cursor \in Nat
    BY <1>1, <1>4, EventsAssumption DEF cursor, Registration
  <2> QED
    BY <1>1, <1>7, <1>9, <2>1 DEF Registration
<1>11. consumer' \in [Consumers -> Registration]
  BY <1>1, <1>8, <1>10 DEF TypeOK
<1> DEFINE ended == [delivery[c][k] EXCEPT !.status = result]
<1>12. ended \in Delivery
  BY <1>1, <1>6 DEF Delivery, Status, Results
<1>13. delivery' = [delivery EXCEPT ![c] = [delivery[c] EXCEPT ![k] = ended]]
  BY <1>1, <1>8 DEF TypeOK
<1>14. ended.seq = n /\ ended.attempt = delivery[c][k].attempt /\ ended.status = result
  BY <1>1 DEF Delivery
<1> HIDE DEF ended
<1>15. delivery'[c] = [delivery[c] EXCEPT ![k] = ended]
  BY <1>13, <1>1 DEF TypeOK
<1>16. delivery'[c] \in Seq(Delivery) /\ Len(delivery'[c]) = k
  BY <1>1, <1>2, <1>12, <1>15, ExceptSeq
<1>17. delivery' \in [Consumers -> Seq(Delivery)]
  BY <1>1, <1>13, <1>15, <1>16 DEF TypeOK
<1>18. \A j \in 1 .. k : delivery'[c][j] = IF j = k THEN ended ELSE delivery[c][j]
  BY <1>1, <1>2, <1>15
<1>19. \A d \in Consumers \ {c} : delivery'[d] = delivery[d] /\ consumer'[d] = consumer[d]
  BY <1>1, <1>8, <1>13 DEF TypeOK
<1>20. DOMAIN delivery'[c] = 1 .. k
  BY <1>1, <1>2, <1>15
<1>21. \A j \in 1 .. k : /\ j # k => delivery'[c][j] = delivery[c][j]
                         /\ delivery'[c][j].seq = delivery[c][j].seq
                         /\ delivery'[c][j].attempt = delivery[c][j].attempt
  BY <1>14, <1>18
<1>22. delivery'[c][k].status = result
  BY <1>1, <1>2, <1>14, <1>18
<1>23. /\ consumer'[c].known = consumer[c].known /\ consumer'[c].lease = 0
       /\ consumer'[c].cursor = IF result \in Final THEN n ELSE consumer[c].cursor
  BY <1>9 DEF cursor
<1>24. DOMAIN delivery[c] = 1 .. k /\ k \in Nat
  BY <1>1, <1>2
<1>25. AnsweredRow(c, k, n, result)
  BY <1>2, <1>3, <1>4, <1>6, <1>8, <1>10, <1>16, <1>19, <1>20, <1>21, <1>22, <1>23, <1>24
     DEF AnsweredRow
<1> QED
  BY <1>11, <1>17, <1>25

LEMMA AnsweredInv ==
    ASSUME IInv, NEW c \in Consumers, NEW k, NEW n, NEW result, AnsweredRow(c, k, n, result),
           TypeOK',
           \A q \in Processes : /\ proc'[q].cutoff = proc[q].cutoff
                                /\ proc'[q].handlers = proc[q].handlers
    PROVE  IInv'
<1> USE DEF AnsweredRow, Results
<1>1. TypeOK /\ \A d \in Consumers : consumer'[d].known = consumer[d].known
  BY DEF IInv
<1>2. \A j \in 1 .. k : /\ delivery'[c][j].seq = delivery[c][j].seq
                        /\ delivery'[c][j].attempt = delivery[c][j].attempt
                        /\ delivery'[c][j].status = "deleted" <=> delivery[c][j].status = "deleted"
  OBVIOUS
<1>3. LeaseIsRunning'
  <2>1. ASSUME NEW d \in Consumers, NEW j \in DOMAIN delivery'[d]
        PROVE  (delivery'[d][j].status = "running") = (consumer'[d].lease = j)
    <3>1. CASE d # c
      BY <2>1, <3>1 DEF IInv, LeaseIsRunning, Owns
    <3>2. CASE d = c
      <4>1. j \in 1 .. k /\ j # 0
        BY <2>1, <3>2
      <4>2. delivery[c][j].status = "running" <=> consumer[c].lease = j
        BY <4>1 DEF IInv, LeaseIsRunning, Owns
      <4>3. consumer[c].lease = k
        BY DEF IInv, LeaseIsRunning, Owns
      <4> QED
        BY <3>2, <4>1, <4>2, <4>3
    <3> QED
      BY <3>1, <3>2
  <2> QED
    BY <2>1 DEF LeaseIsRunning, Owns
<1>4. AttemptsNumbered'
  <2>1. ASSUME NEW d \in Consumers, NEW j \in DOMAIN delivery'[d], delivery'[d][j].status # "deleted"
        PROVE  delivery'[d][j].attempt = Cardinality({i \in 1..j :
                   delivery'[d][i].seq = delivery'[d][j].seq /\ delivery'[d][i].status # "deleted"})
    <3>1. CASE d # c
      <4>1. delivery'[d] = delivery[d]
        BY <3>1
      <4>2. j \in DOMAIN delivery[d] /\ delivery[d][j].status # "deleted"
        BY <2>1, <4>1
      <4>3. delivery[d][j].attempt = Cardinality({i \in 1..j :
                delivery[d][i].seq = delivery[d][j].seq /\ delivery[d][i].status # "deleted"})
        BY <4>2 DEF IInv, AttemptsNumbered
      <4> HIDE DEF AnsweredRow
      <4> QED
        BY <4>1, <4>3
    <3>2. CASE d = c
      <4>1. j \in 1 .. k /\ 1 .. j \subseteq 1 .. k
        BY <2>1, <3>2
      <4>2. {i \in 1..j : delivery'[c][i].seq = delivery'[c][j].seq /\ delivery'[c][i].status # "deleted"}
            = {i \in 1..j : delivery[c][i].seq = delivery[c][j].seq /\ delivery[c][i].status # "deleted"}
        BY <1>2, <4>1
      <4>3. delivery[c][j].status # "deleted" /\ j \in DOMAIN delivery[c]
        BY <1>2, <2>1, <3>2, <4>1
      <4>4. delivery[c][j].attempt = Cardinality({i \in 1..j :
                delivery[c][i].seq = delivery[c][j].seq /\ delivery[c][i].status # "deleted"})
        BY <4>3 DEF IInv, AttemptsNumbered
      <4>5. delivery'[c][j].attempt = delivery[c][j].attempt
        BY <1>2, <4>1
      <4> QED
        BY <3>2, <4>2, <4>4, <4>5
    <3> QED
      BY <3>1, <3>2
  <2> QED
    BY <2>1 DEF AttemptsNumbered
<1>5. DeliveriesOfLog'
  <2>1. ASSUME NEW d \in Consumers, NEW j \in DOMAIN delivery'[d]
        PROVE  /\ delivery'[d][j].seq \in DOMAIN log
               /\ log[delivery'[d][j].seq] \in Wanted[d]
               /\ delivery'[d][j].status = "deleted" <=> delivery'[d][j].seq <= gone
    <3>1. CASE d # c
      BY <2>1, <3>1 DEF IInv, Tables, DeliveriesOfLog
    <3>2. CASE d = c
      BY <1>2, <2>1, <3>2 DEF IInv, Tables, DeliveriesOfLog
    <3> QED
      BY <3>1, <3>2
  <2> QED
    BY <2>1 DEF DeliveriesOfLog
<1>6. LeaseIsNext'
  <2>1. \A d \in Consumers : consumer'[d].lease # 0 =>
            delivery'[d] = delivery[d] /\ consumer'[d] = consumer[d]
    OBVIOUS
  <2>2. ASSUME NEW d \in Consumers, consumer'[d].lease # 0
        PROVE  (/\ consumer[d].lease = Len(delivery[d])
                /\ Next1(d, delivery[d][consumer[d].lease].seq))'
    <3>1. delivery'[d] = delivery[d] /\ consumer'[d] = consumer[d] /\ log' = log /\ gone' = gone
      BY <2>1, <2>2
    <3>2. /\ consumer[d].lease = Len(delivery[d])
          /\ Next1(d, delivery[d][consumer[d].lease].seq)
      BY <2>2, <3>1 DEF IInv, Tables, LeaseIsNext
    <3> HIDE DEF AnsweredRow
    <3> QED
      BY <3>1, <3>2 DEF Next1, Due, Kept
  <2> QED
    BY <2>2 DEF LeaseIsNext
<1>7. UnknownIsEmpty'
  <2>1. \A d \in Consumers : ~consumer'[d].known =>
            delivery'[d] = delivery[d] /\ consumer'[d] = consumer[d]
    OBVIOUS
  <2> QED
    BY <1>1, <2>1 DEF IInv, Tables, UnknownIsEmpty
<1>8. ProcessesBehind'
  <2>1. \A q \in Processes : proc[q].handlers \subseteq Consumers /\ proc[q].cutoff \in Nat
    BY <1>1 DEF TypeOK, Process
  <2>2. \A d \in Consumers : /\ consumer[d].cursor \in Nat /\ consumer'[d].cursor \in Nat
                             /\ consumer[d].cursor <= consumer'[d].cursor
    <3> TAKE d \in Consumers
    <3>1. consumer[d].cursor \in Nat /\ consumer'[d].cursor \in Nat
      BY <1>1 DEF TypeOK, Registration
    <3>2. n > consumer[c].cursor
      BY DEF Next1, Due
    <3> QED
      BY <3>1, <3>2
  <2> QED
    BY <1>1, <2>1, <2>2, SMTT(40) DEF IInv, Tables, ProcessesBehind
<1> QED
  BY <1>3, <1>4, <1>5, <1>6, <1>7, <1>8 DEF IInv, Tables

\* The consumer passes the event, or the log does not notice.
LEMMA AnsweredView ==
    ASSUME IInv, NEW c \in Consumers, NEW k, NEW n, NEW result, AnsweredRow(c, k, n, result)
    PROVE  /\ result \notin Final => UNCHANGED Log!vars
           /\ result \in Final => Log!Pass(c, n, result) /\ n \in Log!Due(c)
<1> USE DEF AnsweredRow
<1>1. TypeOK /\ n \in DOMAIN log /\ consumer[c].cursor \in Nat /\ n > consumer[c].cursor
  BY LogShape DEF IInv, TypeOK, Registration, Next1, Due
<1>2. \A d \in Consumers \ {c} : Position(d)' = Position(d) /\ Tried(d)' = Tried(d) /\ Fate(d)' = Fate(d)
  <2> TAKE d \in Consumers \ {c}
  <2>1. delivery'[d] = delivery[d] /\ consumer'[d] = consumer[d] /\ log' = log /\ gone' = gone
    OBVIOUS
  <2>2. \A m : Ends(d, m)' = Ends(d, m) /\ Attempts(d, m)' = Attempts(d, m)
    BY <2>1 DEF Ends, Attempts
  <2> QED
    BY <2>1, <2>2 DEF Position, Tried, Fate
<1>3. Tried(c)' = Tried(c)
  <2>1. \A j \in 1 .. k : /\ delivery'[c][j].seq = delivery[c][j].seq
                          /\ delivery'[c][j].status = "deleted" <=> delivery[c][j].status = "deleted"
    BY DEF Results
  <2>2. \A m : Attempts(c, m)' = Attempts(c, m)
    BY <2>1, ZenonT(40) DEF Attempts
  <2> QED
    BY <2>2 DEF Tried
<1>4. \A m : Ends(c, m)' = IF m = n /\ result \in Final THEN Ends(c, m) \cup {k} ELSE Ends(c, m)
  <2>1. k \in 1 .. k /\ delivery[c][k].status \notin Final
    BY DEF Final
  <2>2. \A j \in 1 .. k : /\ delivery'[c][j].seq = delivery[c][j].seq
                          /\ j # k => delivery'[c][j].status = delivery[c][j].status
    OBVIOUS
  <2> TAKE m
  <2>3. DOMAIN delivery[c] = 1 .. k /\ DOMAIN delivery'[c] = 1 .. k /\ delivery[c][k].seq = n
        /\ delivery'[c][k].status = result
    OBVIOUS
  <2> QED
    BY <2>1, <2>2, <2>3 DEF Ends
<1>5. Position(c) = consumer[c].cursor
  BY DEF Position
<1>6. ASSUME NEW m, Ends(c, m) # {}
      PROVE  delivery'[c][Max(Ends(c, m))].status = delivery[c][Max(Ends(c, m))].status
  <2>1. Max(Ends(c, m)) \in Ends(c, m)
    BY <1>1, <1>6, EndsShape
  <2>2. k \notin Ends(c, m)
    BY DEF Ends, Final
  <2> QED
    BY <2>1, <2>2 DEF Ends
<1>7. CASE result \notin Final
  <2>1. Position(c)' = Position(c)
    BY <1>7 DEF Position
  <2>2. Fate(c)' = Fate(c)
    BY <1>4, <1>6, <1>7 DEF Fate
  <2> QED
    BY <1>2, <1>3, <1>7, <2>1, <2>2 DEF Log!vars
<1>8. CASE result \in Final
  <2>1. Position(c)' = n
    BY <1>8 DEF Position
  <2>2. Max(Ends(c, n)') = k
    <3>1. Ends(c, n)' = Ends(c, n) \cup {k}
      BY <1>4, <1>8
    <3>2. Ends(c, n) \subseteq 1 .. k
      BY <1>1, EndsShape
    <3>3. Ends(c, n) \cup {k} \in SUBSET (0 .. k)
      BY <3>2
    <3>4. Max(Ends(c, n) \cup {k}) \in 0 .. k /\ k <= Max(Ends(c, n) \cup {k})
      BY <3>3, MaxOfBounded
    <3> QED
      BY <3>1, <3>4
  <2>3. Fate(c)' = [Fate(c) EXCEPT ![n] = result]
    <3>1. ASSUME NEW m \in DOMAIN log
          PROVE  Fate(c)'[m] = IF m = n THEN result ELSE Fate(c)[m]
      <4>1. m \in Nat /\ DOMAIN log' = DOMAIN log
        BY <1>1, LogShape
      <4>2. CASE m = n
        <5>1. Ends(c, m)' # {}
          BY <1>4, <1>8, <4>2
        <5>2. delivery'[c][Max(Ends(c, m)')].status = result
          BY <2>2, <4>2
        <5> QED
          BY <1>8, <4>1, <4>2, <5>1, <5>2 DEF Fate
      <4>3. CASE m # n
        <5>1. Ends(c, m)' = Ends(c, m)
          BY <1>4, <4>3
        <5>2. (m <= n /\ ~(m <= consumer[c].cursor)) => Ends(c, m) = {}
          <6>1. SUFFICES ASSUME m < n, m > consumer[c].cursor, NEW j \in Ends(c, m)
                         PROVE  FALSE
            BY <1>1, <4>1, <4>3
          <6>2. j \in DOMAIN delivery[c] /\ delivery[c][j].seq = m /\ delivery[c][j].status # "deleted"
            BY DEF Ends, Final
          <6>3. log[m] \in Wanted[c] /\ ~(m <= gone)
            BY <6>2 DEF IInv, Tables, DeliveriesOfLog
          <6>4. m \in Due(c)
            BY <1>1, <4>1, <6>1, <6>3, LogShape DEF Due, Kept
          <6> QED
            BY <4>1, <6>1, <6>4 DEF Next1
        <5>3. m <= consumer[c].cursor => m <= n
          BY <1>1, <4>1
        <5> QED
          BY <1>6, <1>8, <4>1, <4>3, <5>1, <5>2, <5>3 DEF Fate
      <4> QED
        BY <4>2, <4>3
    <3>2. DOMAIN Fate(c) = DOMAIN log /\ DOMAIN log' = DOMAIN log
      BY DEF Fate
    <3>3. Fate(c)' = [m \in DOMAIN log |-> Fate(c)'[m]]
      BY <3>2 DEF Fate
    <3>4. [Fate(c) EXCEPT ![n] = result]
              = [m \in DOMAIN log |-> IF m = n THEN result ELSE Fate(c)[m]]
      BY <3>2
    <3> QED
      BY <3>1, <3>3, <3>4
  <2>4. [d \in Consumers |-> Position(d)]' = [[d \in Consumers |-> Position(d)] EXCEPT ![c] = n]
    BY <1>2, <2>1
  <2>5. [d \in Consumers |-> Fate(d)]' = [[d \in Consumers |-> Fate(d)] EXCEPT ![c][n] = result]
    <3>1. [d \in Consumers |-> Fate(d)]'
              = [[d \in Consumers |-> Fate(d)] EXCEPT ![c] = [Fate(c) EXCEPT ![n] = result]]
      <4> DEFINE passed == [Fate(c) EXCEPT ![n] = result]
      <4>1. \A d \in Consumers : Fate(d)' = IF d = c THEN passed ELSE Fate(d)
        BY <1>2, <2>3
      <4> HIDE DEF passed
      <4>2. [d \in Consumers |-> Fate(d)]' = [d \in Consumers |-> IF d = c THEN passed ELSE Fate(d)]
        BY <4>1
      <4>3. [[d \in Consumers |-> Fate(d)] EXCEPT ![c] = passed]
                = [d \in Consumers |-> IF d = c THEN passed ELSE Fate(d)]
        OBVIOUS
      <4> QED
        BY <4>2, <4>3 DEF passed
    <3> QED
      BY <3>1
  <2>6. Log!Due(c) = Due(c)
    <3>1. Position(c) # -1
      BY <1>1, <1>5
    <3> QED
      BY <1>5, <3>1 DEF Log!Due, Log!Kept, Log!Absent, Due, Kept
  <2>7. Log!IsNext(c, n) /\ n \in Log!Due(c)
    BY <2>6 DEF Log!IsNext, Next1
  <2> QED
    BY <1>2, <1>3, <1>8, <2>4, <2>5, <2>7 DEF Log!Pass
<1> QED
  BY <1>7, <1>8

\* A running delivery counts all the attempts at its event.
LEMMA LastAttempt ==
    ASSUME IInv, NEW c \in Consumers, NEW k \in DOMAIN delivery[c], k = Len(delivery[c]),
           delivery[c][k].status = "running"
    PROVE  /\ delivery[c][k].attempt = Attempts(c, delivery[c][k].seq)
           /\ delivery[c][k].attempt \in Nat \ {0}
<1>1. DOMAIN delivery[c] = 1 .. k /\ delivery[c][k] \in Delivery
  BY TableShape DEF IInv
<1>2. delivery[c][k].status # "deleted"
  OBVIOUS
<1>3. delivery[c][k].attempt = Cardinality({j \in 1..k :
          delivery[c][j].seq = delivery[c][k].seq /\ delivery[c][j].status # "deleted"})
  BY <1>2 DEF IInv, AttemptsNumbered
<1> QED
  BY <1>1, <1>3 DEF Attempts, Delivery

LEMMA AnswerType ==
    ASSUME IInv, NEW c \in Consumers, NEW k \in DOMAIN run[c], NEW answer \in Answers,
           Answer(c, k, answer), Owns(c, k) /\ delivery[c][k].status = "running"
    PROVE  /\ TypeOK'
           /\ \A q \in Processes : /\ proc'[q].cutoff = proc[q].cutoff
                                   /\ proc'[q].handlers = proc[q].handlers
<1> DEFINE p == run[c][k].proc
<1>1. /\ TypeOK /\ run[c] \in Seq(Execution) /\ k \in 1 .. Len(run[c])
      /\ run[c][k] \in Execution /\ p \in Processes /\ proc[p] \in Process
  <2>1. TypeOK /\ run[c] \in Seq(Execution) /\ k \in 1 .. Len(run[c]) /\ run[c][k] \in Execution
    BY TableShape DEF IInv
  <2>2. p \in Processes
    BY <2>1 DEF Execution
  <2> QED
    BY <2>1, <2>2 DEF TypeOK
<1>2. PICK n, result : n = delivery[c][k].seq /\ result = Outcome(c, k, answer)
  OBVIOUS
<1>3. /\ AnsweredRow(c, k, n, result)
      /\ delivery' \in [Consumers -> Seq(Delivery)] /\ consumer' \in [Consumers -> Registration]
  BY <1>2, AnsweredRows
<1>4. /\ UNCHANGED <<log, gone>>
      /\ run' = [run EXCEPT ![c][k].active = FALSE]
      /\ proc' = [proc EXCEPT ![p].awaited = @ \ {<<c, k>>}]
  BY DEF Answer
<1>5. faults' \in 0 .. MaxFaults
  BY <1>1, FaultType DEF Answer, TypeOK
<1> HIDE DEF p
<1>6. proc' \in [Processes -> Process]
  BY <1>1, <1>4 DEF Process, TypeOK
<1>7. \A q \in Processes : proc'[q].cutoff = proc[q].cutoff /\ proc'[q].handlers = proc[q].handlers
  BY <1>1, <1>4 DEF Process, TypeOK
<1>8. [run[c][k] EXCEPT !.active = FALSE] \in Execution
  BY <1>1 DEF Execution
<1>9. /\ [run[c] EXCEPT ![k] = [run[c][k] EXCEPT !.active = FALSE]] \in Seq(Execution)
      /\ Len([run[c] EXCEPT ![k] = [run[c][k] EXCEPT !.active = FALSE]]) = Len(run[c])
  BY <1>1, <1>8, ExceptSeq
<1>10. run' = [run EXCEPT ![c] = [run[c] EXCEPT ![k] = [run[c][k] EXCEPT !.active = FALSE]]]
  BY <1>1, <1>4 DEF TypeOK
<1>11. /\ run' \in [Consumers -> Seq(Execution)]
       /\ \A d \in Consumers : Len(run'[d]) = Len(run[d]) /\ DOMAIN run'[d] = DOMAIN run[d]
  BY <1>1, <1>9, <1>10 DEF TypeOK
<1>12. Process' = Process
  <2>1. Runs' = Runs
    BY <1>11 DEF Runs
  <2> QED
    BY <2>1 DEF Process
<1>13. \A d \in Consumers : consumer'[d].cursor <= Len(log) /\ Len(delivery'[d]) = Len(delivery[d])
  <2>1. n <= Len(log) /\ \A d \in Consumers : consumer[d].cursor <= Len(log)
    BY <1>1, <1>3, LogShape DEF AnsweredRow, Next1, TypeOK
  <2>2. Len(delivery'[c]) = Len(delivery[c]) /\ consumer'[c].cursor \in {n, consumer[c].cursor}
    BY <1>3 DEF AnsweredRow
  <2>3. \A d \in Consumers \ {c} : delivery'[d] = delivery[d] /\ consumer'[d] = consumer[d]
    BY <1>3 DEF AnsweredRow
  <2> QED
    BY <2>1, <2>2, <2>3
<1>14. TypeOK'
  <2>1. \A d \in Consumers : consumer'[d].cursor <= Len(log) /\ Len(run'[d]) = Len(delivery'[d])
    BY <1>1, <1>11, <1>13 DEF TypeOK
  <2> QED
    BY <1>1, <1>3, <1>4, <1>5, <1>6, <1>11, <1>12, <2>1
       DEF TypeOK, Registration, Delivery, Execution
<1> QED
  BY <1>7, <1>14

LEMMA AnswerStep ==
    ASSUME IInv, NEW c \in Consumers, NEW k \in DOMAIN run[c], NEW answer \in Answers,
           Answer(c, k, answer)
    PROVE  IInv' /\ (Log!Succeed(c) \/ Log!GiveUp(c) \/ UNCHANGED Log!vars)
<1>1. CASE ~(Owns(c, k) /\ delivery[c][k].status = "running")
  BY <1>1, StaleAnswerStep
<1>2. CASE Owns(c, k) /\ delivery[c][k].status = "running"
  <2>1. PICK n, result : n = delivery[c][k].seq /\ result = Outcome(c, k, answer)
    OBVIOUS
  <2>2. AnsweredRow(c, k, n, result)
    BY <1>2, <2>1, AnsweredRows
  <2>3. IInv'
    BY <1>2, <2>2, AnswerType, AnsweredInv
  <2>4. /\ result \notin Final => UNCHANGED Log!vars
        /\ result \in Final => Log!Pass(c, n, result) /\ n \in Log!Due(c)
    BY <2>2, AnsweredView
  <2>5. k \in DOMAIN delivery[c] /\ k = Len(delivery[c]) /\ n \in DOMAIN log /\ ~(n <= gone) /\ TypeOK
    BY <2>2, LogShape DEF AnsweredRow, IInv, Next1, Due, Kept
  <2>6. Tried(c)[n] = delivery[c][k].attempt /\ delivery[c][k].attempt \in Nat \ {0}
    BY <1>2, <2>1, <2>5, LastAttempt DEF Tried
  <2>7. CASE result = "success"
    <3>1. Tried(c)[n] > 0
      BY <2>6
    <3> QED
      BY <2>3, <2>4, <2>7, <3>1 DEF Final, Log!Succeed
  <2>8. CASE result = "dead-letter"
    <3>1. Tried(c)[n] >= MaxAttempts
      BY <2>1, <2>6, <2>8 DEF Outcome
    <3> QED
      BY <2>3, <2>4, <2>8, <3>1 DEF Final, Log!GiveUp
  <2> QED
    BY <2>3, <2>4, <2>7, <2>8 DEF Final
<1> QED
  BY <1>1, <1>2

-----------------------------------------------------------------------------
(* Retention                                                               *)

\* The deliveries once the events up to n are deleted.
LEMMA DeletedRows ==
    ASSUME IInv, NEW p \in Processes, CompactDeletes(p), NEW n, n = proc[p].cutoff
    PROVE  /\ TypeOK' /\ n \in Nat /\ n <= Len(log) /\ n # 0
           /\ \A c \in Consumers : consumer[c].known => n <= consumer[c].cursor
           /\ gone' = IF n <= gone THEN gone ELSE n
           /\ \A q \in Processes : /\ proc'[q].cutoff \in {0, proc[q].cutoff}
                                   /\ proc'[q].handlers = proc[q].handlers
           /\ UNCHANGED <<log, consumer, run, faults>>
           /\ \A c \in Consumers :
                 /\ DOMAIN delivery'[c] = DOMAIN delivery[c]
                 /\ Len(delivery'[c]) = Len(delivery[c])
                 /\ \A k \in DOMAIN delivery[c] :
                       /\ delivery'[c][k].seq = delivery[c][k].seq
                       /\ delivery'[c][k].attempt = delivery[c][k].attempt
                       /\ delivery'[c][k].status = IF delivery[c][k].seq <= n THEN "deleted"
                                                   ELSE delivery[c][k].status
<1>1. TypeOK /\ proc[p] \in Process /\ gone \in Nat /\ Len(log) \in Nat
  BY LogShape DEF IInv, TypeOK
<1>2. n \in Nat /\ n <= Len(log) /\ n # 0 /\ \A c \in Consumers : consumer[c].known => n <= consumer[c].cursor
  BY <1>1 DEF IInv, Tables, ProcessesBehind, Process, CompactDeletes
<1>3. /\ gone' = Max({gone, n})
      /\ delivery' = [c \in Consumers |-> [k \in DOMAIN delivery[c] |->
             IF delivery[c][k].seq <= n THEN [delivery[c][k] EXCEPT !.status = "deleted"]
             ELSE delivery[c][k]]]
      /\ proc' = [proc EXCEPT ![p].cutoff = 0]
      /\ UNCHANGED <<log, consumer, run, faults>>
  BY DEF CompactDeletes
<1>4. gone' = IF n <= gone THEN gone ELSE n
  <2>1. {gone, n} \in SUBSET (0 .. IF n <= gone THEN gone ELSE n) /\ {gone, n} # {}
    BY <1>1, <1>2
  <2>2. Max({gone, n}) \in {gone, n} /\ \A y \in {gone, n} : y <= Max({gone, n})
    BY <1>1, <1>2, <2>1, MaxOfBounded
  <2> QED
    BY <1>1, <1>2, <1>3, <2>2
<1>5. ASSUME NEW c \in Consumers
      PROVE  /\ delivery'[c] \in Seq(Delivery) /\ DOMAIN delivery'[c] = DOMAIN delivery[c]
             /\ Len(delivery'[c]) = Len(delivery[c])
             /\ \A k \in DOMAIN delivery[c] :
                   /\ delivery'[c][k].seq = delivery[c][k].seq
                   /\ delivery'[c][k].attempt = delivery[c][k].attempt
                   /\ delivery'[c][k].status = IF delivery[c][k].seq <= n THEN "deleted"
                                               ELSE delivery[c][k].status
  <2> DEFINE L == Len(delivery[c])
  <2>1. /\ L \in Nat /\ DOMAIN delivery[c] = 1 .. L
        /\ \A k \in 1 .. L : delivery[c][k] \in Delivery
    BY <1>1, TableShape
  <2>2. delivery'[c] = [k \in 1 .. L |->
            IF delivery[c][k].seq <= n THEN [delivery[c][k] EXCEPT !.status = "deleted"]
            ELSE delivery[c][k]]
    BY <1>3, <2>1
  <2> HIDE DEF L
  <2>3. ASSUME NEW k \in 1 .. L
        PROVE  /\ delivery'[c][k] \in Delivery
               /\ delivery'[c][k].seq = delivery[c][k].seq
               /\ delivery'[c][k].attempt = delivery[c][k].attempt
               /\ delivery'[c][k].status = IF delivery[c][k].seq <= n THEN "deleted"
                                           ELSE delivery[c][k].status
    BY <2>1, <2>2 DEF Delivery, Status
  <2>4. DOMAIN delivery'[c] = 1 .. L /\ delivery'[c] = [k \in 1 .. L |-> delivery'[c][k]]
    BY <2>2
  <2>5. delivery'[c] \in [1 .. L -> Delivery]
    BY <2>3, <2>4
  <2>6. delivery'[c] \in Seq(Delivery)
    BY <2>1, <2>5, SeqDef
  <2>7. Len(delivery'[c]) = L
    BY <2>1, <2>4, <2>6, LenProperties
  <2> QED
    BY <2>1, <2>3, <2>4, <2>6, <2>7 DEF L
<1>6. proc' \in [Processes -> Process]
  BY <1>1, <1>3 DEF Process, TypeOK
<1>7. \A q \in Processes : proc'[q].cutoff \in {0, proc[q].cutoff} /\ proc'[q].handlers = proc[q].handlers
  BY <1>1, <1>3 DEF Process, TypeOK
<1>8. delivery' \in [Consumers -> Seq(Delivery)]
  BY <1>3, <1>5
<1>9. gone' \in 0 .. Len(log)
  BY <1>1, <1>2, <1>4 DEF TypeOK
<1>10. Process' = Process
  BY <1>3 DEF Process, Runs
<1>11. TypeOK'
  BY <1>1, <1>3, <1>5, <1>6, <1>8, <1>9, <1>10 DEF TypeOK, Registration, Delivery, Execution
<1> QED
  BY <1>2, <1>3, <1>4, <1>5, <1>7, <1>11

\* What a deletion through n leaves and takes.
Deleted(n) ==
    /\ TypeOK /\ TypeOK' /\ n \in Nat /\ n <= Len(log) /\ n # 0
    /\ \A c \in Consumers : consumer[c].known => n <= consumer[c].cursor
    /\ gone' = IF n <= gone THEN gone ELSE n
    /\ UNCHANGED <<log, consumer>>
    /\ \A c \in Consumers :
          /\ DOMAIN delivery'[c] = DOMAIN delivery[c]
          /\ Len(delivery'[c]) = Len(delivery[c])
          /\ \A k \in DOMAIN delivery[c] :
                /\ delivery'[c][k].seq = delivery[c][k].seq
                /\ delivery'[c][k].attempt = delivery[c][k].attempt
                /\ delivery'[c][k].status = IF delivery[c][k].seq <= n THEN "deleted"
                                            ELSE delivery[c][k].status
    /\ \A q \in Processes : /\ proc'[q].cutoff \in {0, proc[q].cutoff}
                            /\ proc'[q].handlers = proc[q].handlers

LEMMA DeletedInv ==
    ASSUME IInv, NEW n, Deleted(n)
    PROVE  IInv'
<1>1. TypeOK /\ gone \in Nat /\ Len(log) \in Nat /\ n \in Nat
  BY LogShape DEF Deleted
<1>2. ASSUME NEW c \in Consumers
      PROVE  /\ DOMAIN delivery[c] = 1 .. Len(delivery[c]) /\ Len(delivery[c]) \in Nat
             /\ DOMAIN delivery'[c] = DOMAIN delivery[c] /\ consumer[c].cursor \in Nat
             /\ \A k \in DOMAIN delivery[c] :
                   /\ delivery[c][k].seq \in Nat
                   /\ delivery'[c][k].seq = delivery[c][k].seq
                   /\ delivery'[c][k].attempt = delivery[c][k].attempt
                   /\ delivery'[c][k].status = IF delivery[c][k].seq <= n THEN "deleted"
                                               ELSE delivery[c][k].status
             /\ consumer'[c] = consumer[c]
             /\ consumer[c].known => n <= consumer[c].cursor
  BY <1>1, TableShape DEF Deleted, Delivery, TypeOK, Registration
<1>3. ASSUME NEW c \in Consumers, consumer[c].known
      PROVE  Due(c)' = Due(c)
  BY <1>1, <1>2, <1>3 DEF Due, Kept, Deleted
<1>4. \A c \in Consumers : consumer[c].lease # 0 =>
          /\ consumer[c].known /\ consumer[c].lease = Len(delivery[c])
          /\ consumer[c].lease \in DOMAIN delivery[c]
          /\ Next1(c, delivery[c][consumer[c].lease].seq)
  BY <1>2 DEF IInv, Tables, UnknownIsEmpty, LeaseIsNext
<1>5. LeaseIsRunning'
  <2>1. ASSUME NEW c \in Consumers, NEW k \in DOMAIN delivery[c]
        PROVE  (delivery'[c][k].status = "running") = (consumer[c].lease = k)
    <3>1. (delivery[c][k].status = "running") = (consumer[c].lease = k)
      BY DEF IInv, LeaseIsRunning, Owns
    <3>2. CASE consumer[c].lease = k
      <4>1. k # 0
        BY <1>2
      <4>2. delivery[c][k].seq > consumer[c].cursor /\ consumer[c].known
        BY <1>4, <3>2, <4>1 DEF Next1, Due
      <4>3. ~(delivery[c][k].seq <= n)
        <5>1. n <= consumer[c].cursor /\ consumer[c].cursor \in Nat /\ delivery[c][k].seq \in Nat
          BY <1>2, <4>2
        <5> QED
          BY <1>1, <4>2, <5>1
      <4> QED
        BY <1>2, <3>1, <3>2, <4>3
    <3>3. CASE consumer[c].lease # k
      BY <1>2, <3>1, <3>3
    <3> QED
      BY <3>2, <3>3
  <2>2. consumer' = consumer /\ \A c \in Consumers : DOMAIN delivery'[c] = DOMAIN delivery[c]
    BY DEF Deleted
  <2> QED
    BY <2>1, <2>2 DEF LeaseIsRunning, Owns
<1>6. AttemptsNumbered'
  <2>1. ASSUME NEW c \in Consumers, NEW k \in DOMAIN delivery[c], delivery'[c][k].status # "deleted"
        PROVE  delivery'[c][k].attempt = Cardinality({j \in 1..k :
                   delivery'[c][j].seq = delivery'[c][k].seq /\ delivery'[c][j].status # "deleted"})
    <3>1. ~(delivery[c][k].seq <= n) /\ delivery[c][k].status # "deleted"
      BY <1>2, <2>1
    <3>2. 1 .. k \subseteq DOMAIN delivery[c]
      BY <1>2
    <3>3. {j \in 1..k : delivery'[c][j].seq = delivery'[c][k].seq /\ delivery'[c][j].status # "deleted"}
          = {j \in 1..k : delivery[c][j].seq = delivery[c][k].seq /\ delivery[c][j].status # "deleted"}
      BY <1>2, <3>1, <3>2
    <3>4. delivery[c][k].attempt = Cardinality({j \in 1..k :
              delivery[c][j].seq = delivery[c][k].seq /\ delivery[c][j].status # "deleted"})
      BY <3>1 DEF IInv, AttemptsNumbered
    <3>5. delivery'[c][k].attempt = delivery[c][k].attempt
      BY <1>2
    <3> QED
      BY <3>3, <3>4, <3>5
  <2> QED
    BY <1>2, <2>1 DEF AttemptsNumbered
<1>7. DeliveriesOfLog'
  <2>1. \A c \in Consumers : \A k \in DOMAIN delivery[c] :
            /\ delivery[c][k].seq \in DOMAIN log
            /\ log[delivery[c][k].seq] \in Wanted[c]
            /\ delivery[c][k].status = "deleted" <=> delivery[c][k].seq <= gone
    BY DEF IInv, Tables, DeliveriesOfLog
  <2>2. log' = log /\ gone' = IF n <= gone THEN gone ELSE n
    BY DEF Deleted
  <2> QED
    BY <1>1, <1>2, <2>1, <2>2 DEF DeliveriesOfLog
<1>8. LeaseIsNext'
  <2>1. consumer' = consumer /\ \A c \in Consumers : Len(delivery'[c]) = Len(delivery[c])
    BY DEF Deleted
  <2>2. ASSUME NEW c \in Consumers, consumer[c].lease # 0
        PROVE  /\ consumer[c].lease = Len(delivery'[c])
               /\ delivery'[c][consumer'[c].lease].seq \in Due(c)'
               /\ \A m \in Due(c)' : delivery'[c][consumer'[c].lease].seq <= m
    <3>1. PICK m : m = delivery[c][consumer[c].lease].seq
      OBVIOUS
    <3>2. m \in Due(c)' /\ \A i \in Due(c)' : m <= i
      BY <1>3, <1>4, <2>2, <3>1 DEF Next1
    <3>3. delivery'[c][consumer[c].lease].seq = m /\ consumer'[c].lease = consumer[c].lease
      BY <1>2, <1>4, <2>1, <2>2, <3>1
    <3> QED
      BY <1>4, <2>1, <2>2, <3>2, <3>3
  <2> QED
    BY <2>1, <2>2 DEF LeaseIsNext, Next1
<1>9. UnknownIsEmpty'
  <2>1. ASSUME NEW c \in Consumers, ~consumer[c].known
        PROVE  consumer[c].cursor = 0 /\ consumer[c].lease = 0 /\ delivery'[c] = <<>>
    <3>1. consumer[c].cursor = 0 /\ consumer[c].lease = 0 /\ delivery[c] = <<>>
      BY <2>1 DEF IInv, Tables, UnknownIsEmpty
    <3>2. Len(delivery'[c]) = 0 /\ delivery'[c] \in Seq(Delivery)
      BY <3>1 DEF Deleted, TypeOK, Delivery
    <3> QED
      BY <3>1, <3>2, EmptySeq
  <2>2. consumer' = consumer
    BY DEF Deleted
  <2> QED
    BY <2>1, <2>2 DEF UnknownIsEmpty
<1>10. ProcessesBehind'
  <2>1. log' = log /\ consumer' = consumer
    BY DEF Deleted
  <2>2. \A q \in Processes : /\ proc'[q].cutoff \in {0, proc[q].cutoff}
                             /\ proc'[q].handlers = proc[q].handlers
    BY DEF Deleted
  <2> QED
    BY <1>1, <1>2, <2>1, <2>2 DEF IInv, Tables, ProcessesBehind
<1> QED
  BY <1>5, <1>6, <1>7, <1>8, <1>9, <1>10 DEF IInv, Tables, Deleted

LEMMA DeletedView ==
    ASSUME IInv, NEW n, Deleted(n)
    PROVE  UNCHANGED Log!vars \/ (Log!Forget(n) /\ n \in 1 .. Len(log))
<1>1. /\ TypeOK /\ gone \in Nat /\ Len(log) \in Nat /\ n \in Nat
      /\ DOMAIN log = 1 .. Len(log) /\ UNCHANGED <<log, consumer>>
      /\ gone' = IF n <= gone THEN gone ELSE n
  BY LogShape DEF Deleted
<1>2. ASSUME NEW c \in Consumers, NEW k \in DOMAIN delivery[c]
      PROVE  /\ delivery[c][k].seq \in Nat
             /\ delivery'[c][k].seq = delivery[c][k].seq
             /\ delivery'[c][k].status = IF delivery[c][k].seq <= n THEN "deleted"
                                         ELSE delivery[c][k].status
             /\ delivery[c][k].status = "deleted" <=> delivery[c][k].seq <= gone
  BY <1>1, TableShape DEF Deleted, Delivery, IInv, Tables, DeliveriesOfLog
<1>3. \A c \in Consumers : DOMAIN delivery'[c] = DOMAIN delivery[c] /\ Position(c)' = Position(c)
  BY <1>1 DEF Deleted, Position
<1>4. ASSUME NEW c \in Consumers, NEW m \in Nat
      PROVE  /\ Ends(c, m)' = IF m <= n THEN {} ELSE Ends(c, m)
             /\ m <= gone => Ends(c, m) = {}
             /\ m > n => Attempts(c, m)' = Attempts(c, m)
  <2>1. Ends(c, m)' = IF m <= n THEN {} ELSE Ends(c, m)
    BY <1>2, <1>3 DEF Ends, Final
  <2>2. m <= gone => Ends(c, m) = {}
    BY <1>2 DEF Ends, Final
  <2>3. m > n => Attempts(c, m)' = Attempts(c, m)
    <3>1. SUFFICES ASSUME m > n PROVE Attempts(c, m)' = Attempts(c, m)
      OBVIOUS
    <3>2. {k \in DOMAIN delivery'[c] : delivery'[c][k].seq = m /\ delivery'[c][k].status # "deleted"}
          = {k \in DOMAIN delivery[c] : delivery[c][k].seq = m /\ delivery[c][k].status # "deleted"}
      BY <1>1, <1>2, <1>3, <3>1
    <3> QED
      BY <3>2 DEF Attempts
  <2> QED
    BY <2>1, <2>2, <2>3
<1>5. ASSUME NEW c \in Consumers, NEW m \in DOMAIN log
      PROVE  /\ Tried(c)'[m] = IF m <= n THEN 0 ELSE Tried(c)[m]
             /\ Fate(c)'[m] = IF m <= n THEN "open" ELSE Fate(c)[m]
             /\ m <= gone => Tried(c)[m] = 0 /\ Fate(c)[m] = "open"
  <2>1. m \in Nat /\ m \in DOMAIN log'
    BY <1>1
  <2>2. Tried(c)'[m] = IF m <= n THEN 0 ELSE Tried(c)[m]
    BY <1>1, <1>4, <2>1 DEF Tried
  <2>3. Fate(c)'[m] = IF m <= n THEN "open" ELSE Fate(c)[m]
    <3>1. CASE m <= n
      BY <1>4, <2>1, <3>1 DEF Fate
    <3>2. CASE ~(m <= n)
      <4>1. Ends(c, m)' = Ends(c, m)
        BY <1>4, <2>1, <3>2
      <4>2. Ends(c, m) # {} => delivery'[c][Max(Ends(c, m))].status = delivery[c][Max(Ends(c, m))].status
        <5>1. Ends(c, m) # {} => Max(Ends(c, m)) \in Ends(c, m)
          BY <1>1, EndsShape
        <5> QED
          BY <1>2, <3>2, <5>1 DEF Ends
      <4> QED
        BY <1>1, <2>1, <3>2, <4>1, <4>2 DEF Fate
    <3> QED
      BY <3>1, <3>2
  <2>4. m <= gone => Tried(c)[m] = 0 /\ Fate(c)[m] = "open"
    BY <1>4, <2>1 DEF Tried, Fate
  <2> QED
    BY <2>2, <2>3, <2>4
<1>6. \A c \in Consumers : /\ DOMAIN Tried(c) = DOMAIN log /\ DOMAIN Fate(c) = DOMAIN log
                           /\ Tried(c)' = [m \in DOMAIN log |-> Tried(c)'[m]]
                           /\ Fate(c)' = [m \in DOMAIN log |-> Fate(c)'[m]]
                           /\ Tried(c) = [m \in DOMAIN log |-> Tried(c)[m]]
                           /\ Fate(c) = [m \in DOMAIN log |-> Fate(c)[m]]
  BY <1>1 DEF Tried, Fate
<1>7. \A c \in Consumers :
          /\ Tried(c)' = [m \in DOMAIN Tried(c) |-> IF m <= n THEN 0 ELSE Tried(c)[m]]
          /\ Fate(c)' = [m \in DOMAIN Fate(c) |-> IF m <= n THEN "open" ELSE Fate(c)[m]]
  BY <1>5, <1>6
<1>8. CASE n <= gone
  <2>1. \A m \in DOMAIN log : m <= n => m <= gone
    BY <1>1, <1>8
  <2>2. \A c \in Consumers : \A m \in DOMAIN log :
            Tried(c)'[m] = Tried(c)[m] /\ Fate(c)'[m] = Fate(c)[m]
    BY <1>5, <2>1
  <2>3. \A c \in Consumers : Tried(c)' = Tried(c) /\ Fate(c)' = Fate(c)
    BY <1>6, <2>2
  <2> QED
    BY <1>1, <1>3, <1>8, <2>3 DEF Log!vars
<1>9. CASE ~(n <= gone)
  <2>1. n \in Log!Kept /\ n \in 1 .. Len(log)
    BY <1>1, <1>9 DEF Log!Kept, Deleted
  <2>2. \A c \in Consumers : Position(c) # -1 => n <= Position(c)
    BY DEF Position, Deleted
  <2> QED
    BY <1>1, <1>3, <1>7, <1>9, <2>1, <2>2 DEF Log!Forget, Log!Absent
<1> QED
  BY <1>8, <1>9

LEMMA CompactDeletesStep ==
    ASSUME IInv, NEW p \in Processes, CompactDeletes(p)
    PROVE  IInv' /\ (UNCHANGED Log!vars \/ \E n \in 1 .. Len(log) : Log!Forget(n))
<1>1. PICK n : n = proc[p].cutoff
  OBVIOUS
<1>2. Deleted(n)
  BY <1>1, DeletedRows DEF Deleted, IInv
<1> QED
  BY <1>2, DeletedInv, DeletedView

-----------------------------------------------------------------------------
(* The theorems                                                            *)

LEMMA EmptyLog ==
    ASSUME NEW f, DOMAIN f = {}, f = [n \in DOMAIN f |-> f[n]]
    PROVE  f = <<>>
<1>1. DOMAIN f = 1 .. 0
  OBVIOUS
<1>2. f \in [1 .. 0 -> {}]
  BY <1>1
<1>3. f \in Seq({})
  BY <1>2, SeqDef
<1>4. Len(f) = 0
  BY <1>1, <1>3, LenProperties
<1> QED
  BY <1>3, <1>4, EmptySeq

LEMMA InitStep ==
    ASSUME Init
    PROVE  IInv /\ Log!Init
<1>1. /\ log = <<>> /\ gone = 0 /\ faults = 0 /\ Len(log) = 0 /\ DOMAIN log = {}
      /\ \A S : <<>> \in Seq(S)
  BY EmptySeq DEF Init
<1>2. \A c \in Consumers : /\ consumer[c] = NoConsumer /\ delivery[c] = <<>> /\ run[c] = <<>>
                           /\ DOMAIN delivery[c] = {} /\ Len(delivery[c]) = 0
  BY DEF Init
<1>3. TypeOK
  <2>1. NoConsumer \in Registration /\ NoConsumer.cursor = 0
    BY EventsAssumption DEF NoConsumer, Registration
  <2>2. Down \in Process
    BY DEF Down, Process
  <2>3. \A c \in Consumers : consumer[c].cursor <= Len(log) /\ Len(run[c]) = Len(delivery[c])
    BY <1>1, <1>2, <2>1
  <2>4. log \in Seq(Ids) /\ gone \in 0 .. Len(log) /\ faults \in 0 .. MaxFaults
    BY <1>1, EventsAssumption
  <2>5. /\ delivery \in [Consumers -> Seq(Delivery)] /\ run \in [Consumers -> Seq(Execution)]
        /\ consumer \in [Consumers -> Registration] /\ proc \in [Processes -> Process]
    BY <1>1, <2>1, <2>2 DEF Init
  <2> QED
    BY <2>3, <2>4, <2>5 DEF TypeOK
<1>4. LeaseIsRunning /\ AttemptsNumbered /\ DeliveriesOfLog
  BY <1>2 DEF LeaseIsRunning, AttemptsNumbered, DeliveriesOfLog
<1>5. LeaseIsNext /\ UnknownIsEmpty
  BY <1>2 DEF LeaseIsNext, UnknownIsEmpty, NoConsumer
<1>6. ProcessesBehind
  BY <1>1, <1>2 DEF ProcessesBehind, Init, Down, NoConsumer
<1>7. \A c \in Consumers : Position(c) = -1 /\ Tried(c) = <<>> /\ Fate(c) = <<>>
  <2> TAKE c \in Consumers
  <2>1. Position(c) = -1
    BY <1>2 DEF Position, NoConsumer
  <2>2. Tried(c) = <<>>
    BY <1>1, EmptyLog DEF Tried
  <2>3. Fate(c) = <<>>
    BY <1>1, EmptyLog DEF Fate
  <2> QED
    BY <2>1, <2>2, <2>3
<1>8. Log!Init
  BY <1>1, <1>7 DEF Log!Init, Log!Absent
<1> QED
  BY <1>3, <1>4, <1>5, <1>6, <1>8 DEF IInv, Tables

\* Every step of the database is a step of the log, or none.
LEMMA NextStep ==
    ASSUME IInv, Alone, [Next]_vars
    PROVE  IInv' /\ [Log!Next]_(Log!vars)
<1>1. CASE UNCHANGED vars
  <2>1. ProcKept /\ TypeOK
    BY <1>1 DEF vars, ProcKept, IInv, TypeOK
  <2> QED
    BY <1>1, <2>1, QuietStep DEF vars, TypeOK
<1>2. ASSUME NEW p \in Processes,
             \/ Open(p) \/ StartWorker(p) \/ Stopped(p) \/ Stall(p) \/ Resume(p)
             \/ \E c \in Consumers : UnregisterConsumer(p, c)
      PROVE  IInv' /\ [Log!Next]_(Log!vars)
  BY <1>2, LifecycleStep
<1>3. ASSUME NEW p \in Processes, StopWorker(p) \/ Close(p) \/ Closed(p) \/ Crash(p)
      PROVE  IInv' /\ [Log!Next]_(Log!vars)
  BY <1>3, AbortStep
<1>4. ASSUME NEW p \in Processes, RunPending(p)
      PROVE  IInv' /\ [Log!Next]_(Log!vars)
  <2>1. Claimed(p)
    BY <1>4, PendingClaims
  <2>2. Claims(p) \in SUBSET Consumers
    BY <2>1 DEF Claimed
  <2> QED
    BY <2>1, <2>2, ClaimInv, ClaimView DEF Log!Next
<1>5. ASSUME NEW p \in Processes, CompactDeletes(p)
      PROVE  IInv' /\ [Log!Next]_(Log!vars)
  BY <1>5, CompactDeletesStep DEF Log!Next
<1>6. ASSUME NEW p \in Processes, NEW id \in Ids, Publish(p, id)
      PROVE  IInv' /\ [Log!Next]_(Log!vars)
  BY <1>6, PublishStep DEF Log!Next
<1>7. ASSUME NEW p \in Processes, NEW n \in Kept, CompactReads(p, n)
      PROVE  IInv' /\ [Log!Next]_(Log!vars)
  BY <1>7, CompactReadsStep
<1>8. ASSUME NEW p \in Processes, NEW c \in Consumers, RegisterConsumer(p, c)
      PROVE  IInv' /\ [Log!Next]_(Log!vars)
  BY <1>8, RegisterKnownStep, JoinStep DEF Log!Next
<1>9. ASSUME NEW p \in Processes, NEW c \in Consumers, NEW n \in 0 .. Len(log),
             RewindConsumer(p, c, n)
      PROVE  IInv' /\ [Log!Next]_(Log!vars)
  BY <1>9, RewindStep DEF Log!Next
<1>10. ASSUME NEW c \in Consumers, NEW k \in DOMAIN run[c], Heartbeat(c, k)
       PROVE  IInv' /\ [Log!Next]_(Log!vars)
  BY <1>10, HeartbeatStep
<1>11. ASSUME NEW c \in Consumers, NEW k \in DOMAIN run[c], NEW answer \in Answers,
              Answer(c, k, answer)
       PROVE  IInv' /\ [Log!Next]_(Log!vars)
  BY <1>11, AnswerStep DEF Log!Next
<1>12. CASE Advance
  BY <1>12, AdvanceStep
<1> QED
  BY <1>1, <1>2, <1>3, <1>4, <1>5, <1>6, <1>7, <1>8, <1>9, <1>10, <1>11, <1>12 DEF Next

LEMMA Invariance ==
    ASSUME Alone
    PROVE  Spec => []IInv
<1>1. Init => IInv
  BY InitStep
<1>2. IInv /\ [Next]_vars => IInv'
  BY NextStep
<1> QED
  BY <1>1, <1>2, PTL DEF Spec

\* Every variable has the shape its table and its process give it.
THEOREM TypeCorrect ==
    ASSUME Alone
    PROVE  Spec => []TypeOK
<1>1. IInv => TypeOK
  BY DEF IInv
<1> QED
  BY <1>1, Invariance, PTL

\* A consumer's lease is exactly its running delivery, whatever crashed,
\* stalled or was aborted, and the attempts at an event are numbered without a
\* gap: the transactions of claimDelivery and completeDelivery (store.ts) find
\* the one row they assert, and UNIQUE(consumer_id, event_id, attempt) holds.
THEOREM TablesSound ==
    ASSUME Alone
    PROVE  Spec => []DeliveriesSound
<1>1. IInv => DeliveriesSound
  BY DEF IInv, DeliveriesSound
<1> QED
  BY <1>1, Invariance, PTL

\* The database implements the log its producers and consumers are promised.
THEOREM Refinement ==
    ASSUME Alone
    PROVE  Spec => ImplementsLog
<1>1. Init => Log!Init
  BY InitStep
<1>2. IInv /\ [Next]_vars => [Log!Next]_(Log!vars)
  BY NextStep
<1> QED
  BY <1>1, <1>2, Invariance, PTL DEF Spec, ImplementsLog, Log!Spec
=============================================================================
