----------------------------- MODULE RuntimeProofs -----------------------------
(***************************************************************************)
(* What guards the state of a runtime and the processes it starts.         *)
(*                                                                         *)
(* First: backups, restores and runtimes keep out of each other's way, for *)
(* every number of processes, restarts and roots.  The hypotheses are what *)
(* the model's constants of the same names stand for: the gate stays put   *)
(* while a waiter judges and removes it (Prompt), and leases carry the     *)
(* birth of their process (Recorded).                                      *)
(*                                                                         *)
(* Then: what the Python kernel owes its calls, for any number of calls,   *)
(* startups and faults: each gets the result of its own cell, and cells    *)
(* meet in the kernel only after a pump failed (CellsAreApart).  And, for  *)
(* a manager that is neither restarted nor disposed of in the middle of a  *)
(* startup, that no process escapes it (ProcessesAreKept).                 *)
(***************************************************************************)
EXTENDS StateBackup, Kernel, TLAPS

-----------------------------------------------------------------------------
(* The inductive invariant of the coordination                             *)

Looking(p) == Pc(p) \in {"judge", "remove"}

\* One process at a time looks at the gate in order to remove it; the owner it
\* judges is that of the gate, and the one it is about to remove is over.
GateWatched ==
    /\ \A p, q \in Pids : p # q => ~(Looking(p) /\ Looking(q))
    /\ \A p \in Pids : Pc(p) = "judge" => gate \in Ids /\ proc[p].seen = gate
    /\ \A p \in Pids : Pc(p) = "remove" =>
          gate \in Ids /\ \A q \in Pids : Pc(q) # "off" => gate # Id(q)
    /\ gate \in Ids => gate[2] <= births[gate[1]]

\* q was let in, and its lease is on disk.
HasLease(q) == \/ Serves(q)
               \/ Pc(q) \in {"releasing", "closing"} /\ proc[q].next = "serving"

\* Where a process is that was not let in yet.
Before == Acquiring \ {"releasing", "closing"}

LeasesKept ==
    /\ \A q \in Pids : HasLease(q) => Id(q) \in leases
    /\ \A p \in Pids : Pc(p) \in Before => Id(p) \notin leases
    /\ \A p \in Pids : Pc(p) \in Before \cup {"guarding"} => proc[p].next = "off"
    /\ \A e \in leases : e[2] <= births[e[1]]

\* A sweep accounts for everybody who was let in, and whoever is let in alone
\* finds nobody.
Accounted ==
    /\ \A p, q \in Pids : Pc(p) = "sweeping" /\ HasLease(q)
                          => Id(q) \in proc[p].todo \cup proc[p].live
    /\ \A p, q \in Pids : Pc(p) = "guarding" => ~HasLease(q)
    /\ \A p, q \in Pids : p # q /\ HasLease(p) /\ HasLease(q)
                          => "successor" \in {proc[p].kind, proc[q].kind}

\* Whoever is not yet in has met everybody who is registered.
Met ==
    /\ \A p, q \in Pids : p # q /\ Pc(p) \in Acquiring \cup {"guarding"} /\ Registered(q)
                          => proc[p].met
    /\ \A p \in Pids : Pc(p) \in Before /\ proc[p].live # {} => proc[p].met
    /\ RefusedForCause

CInv == TypeOK /\ GateWatched /\ GateExclusive /\ LeasesKept /\ Accounted /\ Met

-----------------------------------------------------------------------------
(* What a step of one process does                                         *)

Others(p) == proc' \in [Pids -> Process] /\ \A q \in Pids \ {p} : proc'[q] = proc[q]

\* The process goes on and keeps what it knows.
Keeps(p) ==
    /\ Others(p)
    /\ proc'[p].kind = proc[p].kind /\ proc'[p].next = proc[p].next
    /\ proc'[p].todo = proc[p].todo /\ proc'[p].live = proc[p].live
    /\ proc'[p].met = proc[p].met /\ proc'[p].refused = proc[p].refused

\* The process ends.
Over(p) ==
    /\ Others(p) /\ proc'[p].pc = "off"
    /\ proc'[p].met = proc[p].met /\ proc'[p].refused = proc[p].refused

\* The gate is left without having got in.
Left(p, inUse) ==
    /\ Others(p) /\ proc'[p].pc = "releasing"
    /\ proc'[p].kind = proc[p].kind /\ proc'[p].next = proc[p].next
    /\ proc'[p].met = proc[p].met /\ proc'[p].refused = inUse

LEMMA Shapes ==
    ASSUME TypeOK, NEW p \in Pids
    PROVE  /\ \A pc \in Acquiring \cup {"off", "guarding", "serving"} :
                 /\ proc' = To(p, pc) => Keeps(p) /\ proc'[p].pc = pc
                 /\ proc' = Judged(p, pc) => Keeps(p) /\ proc'[p].pc = pc
           /\ proc' = Ends(p) => Over(p)
           /\ \A inUse \in BOOLEAN : proc' = Leaves(p, inUse) => Left(p, inUse)
<1>1. proc \in [Pids -> Process] /\ proc[p] \in Process
  BY DEF TypeOK
<1>2. ASSUME NEW pc \in Acquiring \cup {"off", "guarding", "serving"}, proc' = To(p, pc)
      PROVE  Keeps(p) /\ proc'[p].pc = pc
  BY <1>1, <1>2 DEF To, Process, Keeps, Others
<1>3. ASSUME NEW pc \in Acquiring \cup {"off", "guarding", "serving"}, proc' = Judged(p, pc)
      PROVE  Keeps(p) /\ proc'[p].pc = pc
  <2>1. proc' = [proc EXCEPT ![p] = [proc[p] EXCEPT !.pc = pc, !.seen = None]]
    BY <1>1, <1>3 DEF Judged
  <2>2. [proc[p] EXCEPT !.pc = pc, !.seen = None] \in Process
    BY <1>1 DEF Process
  <2>3. proc' \in [Pids -> Process]
    BY <1>1, <2>1, <2>2
  <2> QED
    BY <1>1, <2>1, <2>3 DEF Process, Keeps, Others
<1>4. ASSUME proc' = Ends(p)
      PROVE  Over(p)
  <2> DEFINE r == [Asleep EXCEPT !.refused = proc[p].refused, !.met = proc[p].met]
  <2>1. r \in Process /\ r.pc = "off" /\ r.met = proc[p].met /\ r.refused = proc[p].refused
    BY <1>1 DEF Asleep, Process, Kinds
  <2>2. proc' = [proc EXCEPT ![p] = r]
    BY <1>4 DEF Ends
  <2> HIDE DEF r
  <2> QED
    BY <1>1, <2>1, <2>2 DEF Over, Others
<1>5. ASSUME NEW inUse \in BOOLEAN, proc' = Leaves(p, inUse)
      PROVE  Left(p, inUse)
  <2> DEFINE r == [proc[p] EXCEPT !.pc = "releasing", !.refused = inUse, !.todo = {}, !.live = {}]
  <2>1. r \in Process /\ r.pc = "releasing" /\ r.kind = proc[p].kind /\ r.next = proc[p].next
        /\ r.met = proc[p].met /\ r.refused = inUse
    BY <1>1 DEF Process, Acquiring
  <2>2. proc' = [proc EXCEPT ![p] = r]
    BY <1>1, <1>5 DEF Leaves
  <2> HIDE DEF r
  <2> QED
    BY <1>1, <2>1, <2>2 DEF Left, Others
<1> QED
  BY <1>2, <1>3, <1>4, <1>5

-----------------------------------------------------------------------------
(* Identities                                                              *)

LEMMA IdFacts ==
    /\ \A e \in Ids : e = <<e[1], e[2]>> /\ e[1] \in Pids /\ e[2] \in Nat
    /\ None \notin Ids /\ Empty \notin Ids /\ None # Empty
  BY CoordinationAssumption DEF Ids

\* What the invariant says of identities: whoever runs has one of its own.
LEMMA OwnIds ==
    ASSUME TypeOK
    PROVE  /\ \A p \in Pids : Pc(p) # "off" => Id(p) \in Ids
           /\ \A p, q \in Pids : Id(p) = Id(q) => p = q
           /\ \A p \in Pids : Id(p)[1] = p /\ Id(p)[2] = births[p]
<1>1. ASSUME NEW p \in Pids, Pc(p) # "off"
      PROVE  Id(p) \in Ids
  <2>1. births[p] \in 1 .. MaxBirths[p]
    BY <1>1, CoordinationAssumption DEF TypeOK
  <2> QED
    BY <2>1 DEF Id, Ids
<1> QED
  BY <1>1 DEF Id

-----------------------------------------------------------------------------
(* Steps outside of the gate                                               *)

Outside == {"publish", "read", "wait", "rmdir"}

\* A process goes on to a place where it does not look at the gate.
LEMMA Moves ==
    ASSUME CInv, NEW p \in Pids, NEW pc \in Outside,
           Pc(p) \in {"publish", "read", "judge", "wait", "remove", "rmdir"},
           Keeps(p), proc'[p].pc = pc,
           UNCHANGED <<leases, births>>,
           \/ gate' = gate
           \/ gate' \in {None, Empty} /\ (gate \in {None, Empty} \/ Pc(p) = "remove")
    PROVE  CInv'
<1> USE IdFacts, OwnIds
<1>1. TypeOK /\ GateWatched /\ GateExclusive /\ LeasesKept /\ Accounted /\ Met
  BY DEF CInv
<1>2. /\ \A q \in Pids : q # p => proc'[q] = proc[q]
      /\ \A q \in Pids : Id(q)' = Id(q)
  BY DEF Keeps, Others, Id
<1>3. TypeOK'
  BY <1>1, <1>2 DEF TypeOK, Keeps, Others, Outside, Pc
<1>4. GateWatched'
  BY <1>1, <1>2 DEF GateWatched, Looking, Pc, Outside
<1>5. GateExclusive'
  BY <1>1, <1>2 DEF GateExclusive, GateWatched, Inside, Pc, Outside, TypeOK
<1>6. LeasesKept'
  BY <1>1, <1>2 DEF LeasesKept, HasLease, Serves, Pc, Outside, Before, Acquiring, Keeps
<1>7. Accounted'
  BY <1>1, <1>2 DEF Accounted, HasLease, Serves, Pc, Outside
<1>8. Met'
  BY <1>1, <1>2 DEF Met, Before, Pc, Outside, Acquiring, Registered, Keeps, RefusedForCause
<1> QED
  BY <1>3, <1>4, <1>5, <1>6, <1>7, <1>8 DEF CInv

LEMMA Lates ==
    ASSUME CInv, NEW p \in Pids, Keeps(p), proc'[p].pc = Pc(p), proc'[p].seen = proc[p].seen,
           UNCHANGED <<gate, leases, births>>
    PROVE  CInv'
<1> USE IdFacts, OwnIds
<1>1. TypeOK /\ GateWatched /\ GateExclusive /\ LeasesKept /\ Accounted /\ Met
  BY DEF CInv
<1>2. /\ \A q \in Pids : q # p => proc'[q] = proc[q]
      /\ \A q \in Pids : Id(q)' = Id(q) /\ Pc(q)' = Pc(q)
  BY DEF Keeps, Others, Id, Pc
<1>3. TypeOK'
  BY <1>1, <1>2 DEF TypeOK, Keeps, Others
<1>4. GateWatched'
  BY <1>1, <1>2 DEF GateWatched, Looking
<1>5. GateExclusive'
  BY <1>1, <1>2 DEF GateExclusive
<1>6. LeasesKept'
  BY <1>1, <1>2 DEF LeasesKept, HasLease, Serves, Keeps
<1>7. Accounted'
  BY <1>1, <1>2 DEF Accounted, HasLease, Serves, Keeps
<1>8. Met'
  BY <1>1, <1>2 DEF Met, Registered, Keeps, RefusedForCause
<1> QED
  BY <1>3, <1>4, <1>5, <1>6, <1>7, <1>8 DEF CInv

\* The owner of the gate was read, or found to be over.
LEMMA Looks ==
    ASSUME CInv, Prompt, Recorded, NEW p \in Pids, Keeps(p), UNCHANGED <<gate, leases, births>>,
           \/ /\ Pc(p) = "read" /\ proc'[p].pc = "judge" /\ proc'[p].seen = gate
              /\ gate \in Ids /\ Undisturbed(p)
           \/ Pc(p) = "judge" /\ proc'[p].pc = "remove" /\ ~Alive(proc[p].seen)
    PROVE  CInv'
<1> USE IdFacts, OwnIds
<1>1. TypeOK /\ GateWatched /\ GateExclusive /\ LeasesKept /\ Accounted /\ Met
  BY DEF CInv
<1>2. /\ \A q \in Pids : q # p => proc'[q] = proc[q]
      /\ \A q \in Pids : Id(q)' = Id(q)
  BY DEF Keeps, Others, Id
<1>3. TypeOK'
  BY <1>1, <1>2 DEF TypeOK, Keeps, Others, Pc
<1>4. GateWatched'
  <2>1. \A q \in Pids : Pc(q) # "off" /\ Pc(p) = "judge" /\ ~Alive(gate) => gate # Id(q)
    BY <1>1 DEF Alive
  <2> QED
    BY <1>1, <1>2, <2>1 DEF GateWatched, Looking, Pc, Undisturbed
<1>5. GateExclusive'
  BY <1>1, <1>2 DEF GateExclusive, Inside, Pc
<1>6. LeasesKept'
  BY <1>1, <1>2 DEF LeasesKept, HasLease, Serves, Pc, Before, Acquiring, Keeps
<1>7. Accounted'
  BY <1>1, <1>2 DEF Accounted, HasLease, Serves, Pc
<1>8. Met'
  BY <1>1, <1>2 DEF Met, Before, Pc, Acquiring, Registered, Keeps, RefusedForCause
<1> QED
  BY <1>3, <1>4, <1>5, <1>6, <1>7, <1>8 DEF CInv

\* A process ends, and may take its lease or the emptied gate with it.
LEMMA Quits ==
    ASSUME CInv, NEW p \in Pids, Over(p), UNCHANGED births,
           leases' = leases \/ leases' = leases \ {Id(p)},
           \/ gate' = gate
           \/ gate' = None /\ gate \in {None, Empty}
    PROVE  CInv'
<1> USE IdFacts, OwnIds
<1>1. TypeOK /\ GateWatched /\ GateExclusive /\ LeasesKept /\ Accounted /\ Met
  BY DEF CInv
<1>2. /\ \A q \in Pids : q # p => proc'[q] = proc[q]
      /\ \A q \in Pids : Id(q)' = Id(q)
      /\ proc'[p].pc = "off"
  BY DEF Over, Others, Id
<1>3. TypeOK'
  BY <1>1, <1>2 DEF TypeOK, Over, Others, Pc
<1>4. GateWatched'
  BY <1>1, <1>2 DEF GateWatched, Looking, Pc
<1>5. GateExclusive'
  BY <1>1, <1>2 DEF GateExclusive, Inside, Pc, TypeOK
<1>6. LeasesKept'
  BY <1>1, <1>2 DEF LeasesKept, HasLease, Serves, Pc, Before, Acquiring
<1>7. Accounted'
  BY <1>1, <1>2 DEF Accounted, HasLease, Serves, Pc
<1>8. Met'
  BY <1>1, <1>2 DEF Met, Before, Pc, Acquiring, Registered, Over, RefusedForCause
<1> QED
  BY <1>3, <1>4, <1>5, <1>6, <1>7, <1>8 DEF CInv

LEMMA StartsUp ==
    ASSUME CInv, NEW p \in Pids, NEW kind \in Kinds, Start(p, kind)
    PROVE  CInv'
<1> USE IdFacts, OwnIds
<1>1. TypeOK /\ GateWatched /\ GateExclusive /\ LeasesKept /\ Accounted /\ Met
  BY DEF CInv
<1> DEFINE r == [Asleep EXCEPT !.pc = "publish", !.kind = kind,
                               !.met = \E q \in Pids \ {p} : Registered(q)]
<1>2. /\ r \in Process /\ r.pc = "publish" /\ r.next = "off" /\ r.refused = FALSE
      /\ r.live = {}
      /\ r.met <=> \E q \in Pids \ {p} : Registered(q)
  BY DEF Asleep, Process, Acquiring, Kinds
<1>3. proc' = [proc EXCEPT ![p] = r]
  BY DEF Start
<1> HIDE DEF r
<1>4. /\ \A q \in Pids : q # p => proc'[q] = proc[q] /\ births'[q] = births[q]
      /\ proc'[p] = r /\ births'[p] = births[p] + 1 /\ births[p] < MaxBirths[p]
      /\ UNCHANGED <<gate, leases>> /\ Pc(p) = "off"
      /\ proc' \in [Pids -> Process] /\ births' \in [Pids -> Nat]
  BY <1>1, <1>2, <1>3, CoordinationAssumption DEF Start, TypeOK
<1>5. /\ \A q \in Pids : q # p => Id(q)' = Id(q)
      /\ Id(p)' = <<p, births[p] + 1>> /\ births[p] \in Nat
  BY <1>1, <1>4 DEF Id, TypeOK
<1>6. TypeOK'
  BY <1>1, <1>2, <1>4, CoordinationAssumption DEF TypeOK, Pc
<1>7. GateWatched'
  <2>1. gate \in Ids => gate # Id(p)'
    BY <1>1, <1>5 DEF GateWatched
  <2>2. gate \in Ids => gate[2] <= births'[gate[1]]
    BY <1>1, <1>4 DEF GateWatched, TypeOK
  <2> QED
    BY <1>1, <1>2, <1>4, <1>5, <2>1, <2>2 DEF GateWatched, Looking, Pc
<1>8. GateExclusive'
  BY <1>1, <1>2, <1>4, <1>5 DEF GateExclusive, Inside, Pc
<1>9. LeasesKept'
  <2>1. Id(p)' \notin leases
    BY <1>1, <1>5 DEF LeasesKept, TypeOK
  <2>2. \A e \in leases : e[2] <= births'[e[1]]
    BY <1>1, <1>4 DEF LeasesKept, TypeOK
  <2> QED
    BY <1>1, <1>2, <1>4, <1>5, <2>1, <2>2 DEF LeasesKept, HasLease, Serves, Pc, Before
<1>10. Accounted'
  BY <1>1, <1>2, <1>4, <1>5 DEF Accounted, HasLease, Serves, Pc
<1>11. Met'
  <2>1. ~Registered(p)'
    BY <1>1, <1>4, <1>5 DEF Registered, LeasesKept, TypeOK
  <2>2. \A q \in Pids : q # p => Registered(q)' = Registered(q)
    BY <1>4, <1>5 DEF Registered, Pc
  <2> QED
    BY <1>1, <1>2, <1>4, <2>1, <2>2 DEF Met, Before, Pc, Acquiring, RefusedForCause
<1> QED
  BY <1>6, <1>7, <1>8, <1>9, <1>10, <1>11 DEF CInv

-----------------------------------------------------------------------------
(* Steps inside of the gate                                                *)

\* The gate is taken, given up, or stays with the process that goes on in it.
LEMMA Gates ==
    ASSUME CInv, Prompt, NEW p \in Pids, Keeps(p), UNCHANGED <<leases, births>>,
           \/ /\ Pc(p) = "publish" /\ proc'[p].pc = "listing" /\ Undisturbed(p)
              /\ gate' = Id(p) /\ gate \in {None, Empty}
           \/ /\ Swept(p) /\ proc[p].live = {} /\ proc'[p].pc = "guarding" /\ gate' = gate
           \/ Pc(p) = "guarding" /\ proc'[p].pc = "releasing" /\ gate' = gate
           \/ /\ Pc(p) = "releasing" /\ proc'[p].pc = "closing" /\ Undisturbed(p)
              /\ gate = Id(p) /\ gate' = Empty
           \/ /\ Pc(p) = "closing" /\ proc'[p].pc = "serving" /\ proc[p].next = "serving"
              /\ gate \in {None, Empty} /\ gate' = None
    PROVE  CInv'
<1> USE IdFacts, OwnIds
<1>1. TypeOK /\ GateWatched /\ GateExclusive /\ LeasesKept /\ Accounted /\ Met
  BY DEF CInv
<1>2. /\ \A q \in Pids : q # p => proc'[q] = proc[q]
      /\ \A q \in Pids : Id(q)' = Id(q)
  BY DEF Keeps, Others, Id
<1>3. TypeOK'
  BY <1>1, <1>2 DEF TypeOK, Keeps, Others, Pc, Swept
<1>4. GateWatched'
  BY <1>1, <1>2 DEF GateWatched, Looking, Pc, Undisturbed, Swept, TypeOK
<1>5. GateExclusive'
  BY <1>1, <1>2 DEF GateExclusive, Inside, Pc, Swept
<1>6. LeasesKept'
  BY <1>1, <1>2 DEF LeasesKept, HasLease, Serves, Pc, Before, Acquiring, Keeps, Swept
<1>7. Accounted'
  <2>1. \A q \in Pids : HasLease(q)' => HasLease(q)
    BY <1>1, <1>2 DEF HasLease, Serves, Pc, Keeps, LeasesKept, Before, Acquiring, Swept
  <2>2. \A q \in Pids : Swept(p) /\ proc[p].live = {} => ~HasLease(q)
    BY <1>1 DEF Accounted, Swept
  <2> QED
    BY <1>1, <1>2, <2>1, <2>2 DEF Accounted, Pc, Keeps, Swept
<1>8. Met'
  BY <1>1, <1>2 DEF Met, Before, Pc, Acquiring, Registered, Keeps, RefusedForCause, Swept, GateExclusive, Inside
<1> QED
  BY <1>3, <1>4, <1>5, <1>6, <1>7, <1>8 DEF CInv

\* Whoever is inside is alone there.
LEMMA AloneInside ==
    ASSUME CInv, NEW p \in Pids, Pc(p) \in Inside
    PROVE  \A q \in Pids : Pc(q) \in Inside => q = p
  BY OwnIds DEF CInv, GateExclusive

LEMMA Lists ==
    ASSUME CInv, NEW p \in Pids, List(p)
    PROVE  CInv'
<1> USE IdFacts, OwnIds
<1>1. TypeOK /\ GateWatched /\ GateExclusive /\ LeasesKept /\ Accounted /\ Met
  BY DEF CInv
<1>2. /\ Others(p) /\ Pc(p) = "listing" /\ proc'[p].pc = "sweeping" /\ proc'[p].todo = leases
      /\ proc'[p].kind = proc[p].kind /\ proc'[p].next = proc[p].next
      /\ proc'[p].live = proc[p].live /\ proc'[p].met = proc[p].met
      /\ proc'[p].refused = proc[p].refused
      /\ UNCHANGED <<gate, leases, births>>
  <2>1. proc \in [Pids -> Process] /\ proc[p] \in Process /\ leases \in SUBSET Ids
    BY <1>1 DEF TypeOK
  <2> DEFINE r == [proc[p] EXCEPT !.pc = "sweeping", !.todo = leases]
  <2>2. /\ r \in Process /\ r.pc = "sweeping" /\ r.todo = leases
        /\ r.kind = proc[p].kind /\ r.next = proc[p].next /\ r.live = proc[p].live
        /\ r.met = proc[p].met /\ r.refused = proc[p].refused
    BY <2>1 DEF Process, Acquiring
  <2>3. proc' = [proc EXCEPT ![p] = r]
    BY <2>1 DEF List
  <2> HIDE DEF r
  <2> QED
    BY <2>1, <2>2, <2>3 DEF Others, List
<1>3. /\ \A q \in Pids : q # p => proc'[q] = proc[q]
      /\ \A q \in Pids : Id(q)' = Id(q)
  BY <1>2 DEF Others, Id
<1>4. TypeOK'
  BY <1>1, <1>2, <1>3 DEF TypeOK, Others, Pc
<1>5. GateWatched'
  BY <1>1, <1>2, <1>3 DEF GateWatched, Looking, Pc
<1>6. GateExclusive'
  BY <1>1, <1>2, <1>3 DEF GateExclusive, Inside, Pc
<1>7. LeasesKept'
  BY <1>1, <1>2, <1>3 DEF LeasesKept, HasLease, Serves, Pc, Before, Acquiring
<1>8. Accounted'
  BY <1>1, <1>2, <1>3 DEF Accounted, HasLease, Serves, Pc, LeasesKept
<1>9. Met'
  BY <1>1, <1>2, <1>3 DEF Met, Before, Pc, Acquiring, Registered, RefusedForCause
<1> QED
  BY <1>4, <1>5, <1>6, <1>7, <1>8, <1>9 DEF CInv

\* A lease of the listing is judged: its process lives on, or the lease goes.
LEMMA Sweeps ==
    ASSUME CInv, Recorded, NEW p \in Pids, Pc(p) = "sweeping", NEW e \in proc[p].todo,
           e \in leases,
           \/ Alive(e) /\ UNCHANGED leases
              /\ proc' = [proc EXCEPT ![p].todo = @ \ {e}, ![p].live = @ \cup {e}]
           \/ ~Alive(e) /\ leases' = leases \ {e}
              /\ proc' = [proc EXCEPT ![p].todo = @ \ {e}],
           UNCHANGED <<gate, births>>
    PROVE  CInv'
<1> USE IdFacts, OwnIds
<1>1. TypeOK /\ GateWatched /\ GateExclusive /\ LeasesKept /\ Accounted /\ Met
  BY DEF CInv
<1>2. proc \in [Pids -> Process] /\ proc[p] \in Process /\ leases \in SUBSET Ids
  BY <1>1 DEF TypeOK
<1>3. /\ Others(p) /\ proc'[p].pc = "sweeping" /\ proc'[p].todo = proc[p].todo \ {e}
      /\ proc'[p].live = proc[p].live \cup (IF Alive(e) THEN {e} ELSE {})
      /\ proc'[p].kind = proc[p].kind /\ proc'[p].next = proc[p].next
      /\ proc'[p].met = proc[p].met /\ proc'[p].refused = proc[p].refused
  <2>1. CASE Alive(e)
    <3> DEFINE r == [proc[p] EXCEPT !.todo = proc[p].todo \ {e}, !.live = proc[p].live \cup {e}]
    <3>1. /\ r \in Process /\ r.pc = proc[p].pc /\ r.todo = proc[p].todo \ {e}
          /\ r.live = proc[p].live \cup {e} /\ r.kind = proc[p].kind
          /\ r.next = proc[p].next /\ r.met = proc[p].met /\ r.refused = proc[p].refused
      BY <1>2 DEF Process
    <3>2. proc' = [proc EXCEPT ![p] = r]
      BY <1>2, <2>1
    <3> HIDE DEF r
    <3> QED
      BY <1>2, <2>1, <3>1, <3>2 DEF Others, Pc
  <2>2. CASE ~Alive(e)
    <3> DEFINE r == [proc[p] EXCEPT !.todo = proc[p].todo \ {e}]
    <3>1. /\ r \in Process /\ r.pc = proc[p].pc /\ r.todo = proc[p].todo \ {e}
          /\ r.live = proc[p].live /\ r.kind = proc[p].kind
          /\ r.next = proc[p].next /\ r.met = proc[p].met /\ r.refused = proc[p].refused
      BY <1>2 DEF Process
    <3>2. proc' = [proc EXCEPT ![p] = r]
      BY <1>2, <2>2
    <3> HIDE DEF r
    <3> QED
      BY <1>2, <2>2, <3>1, <3>2 DEF Others, Pc
  <2> QED
    BY <2>1, <2>2
<1>4. /\ \A q \in Pids : q # p => proc'[q] = proc[q]
      /\ \A q \in Pids : Id(q)' = Id(q)
      /\ \/ leases' = leases
         \/ ~Alive(e) /\ leases' = leases \ {e}
  BY <1>3 DEF Others, Id
<1>5. e \in Ids /\ (Alive(e) <=> Pc(e[1]) # "off" /\ e = Id(e[1]))
  BY <1>2 DEF Alive, Id
<1>6. TypeOK'
  BY <1>1, <1>3, <1>4 DEF TypeOK, Others, Pc
<1>7. GateWatched'
  BY <1>1, <1>3, <1>4 DEF GateWatched, Looking, Pc
<1>8. GateExclusive'
  BY <1>1, <1>3, <1>4 DEF GateExclusive, Inside, Pc
<1>9. /\ \A q \in Pids : Pc(q)' = Pc(q) /\ (HasLease(q)' <=> HasLease(q))
      /\ \A q \in Pids : Pc(q) # "off" /\ Id(q) \in leases => Id(q) \in leases'
  <2>1. \A q \in Pids : proc'[q].pc = proc[q].pc /\ proc'[q].next = proc[q].next
    BY <1>3, <1>4 DEF Pc
  <2>2. \A q \in Pids : Pc(q)' = Pc(q) /\ (HasLease(q)' <=> HasLease(q))
    BY <2>1 DEF HasLease, Serves, Pc
  <2>3. \A q \in Pids : Pc(q) # "off" /\ ~Alive(e) => Id(q) # e
    BY <1>1, <1>5
  <2> QED
    BY <1>4, <2>2, <2>3
<1>10. LeasesKept'
  BY <1>1, <1>3, <1>4, <1>9 DEF LeasesKept, HasLease, Serves
<1>11. Accounted'
  BY <1>1, <1>3, <1>4, <1>5, <1>9 DEF Accounted, HasLease, Serves
<1>12. Met'
  <2>1. Alive(e) => proc[p].met
    BY <1>1, <1>5 DEF Met, Registered, LeasesKept, Before, Acquiring
  <2> QED
    BY <1>1, <1>3, <1>4, <1>9, <2>1 DEF Met, Registered, RefusedForCause, Before, Acquiring, Pc
<1> QED
  BY <1>6, <1>7, <1>8, <1>10, <1>11, <1>12 DEF CInv

\* Whoever does not get in gives up the gate.
LEMMA Gives ==
    ASSUME CInv, NEW p \in Pids, NEW inUse \in BOOLEAN, Pc(p) = "sweeping", Left(p, inUse),
           inUse => proc[p].live # {},
           UNCHANGED <<gate, leases, births>>
    PROVE  CInv'
<1> USE IdFacts, OwnIds
<1>1. TypeOK /\ GateWatched /\ GateExclusive /\ LeasesKept /\ Accounted /\ Met
  BY DEF CInv
<1>2. /\ \A q \in Pids : q # p => proc'[q] = proc[q]
      /\ \A q \in Pids : Id(q)' = Id(q)
  BY DEF Left, Others, Id
<1>3. TypeOK'
  BY <1>1, <1>2 DEF TypeOK, Left, Others, Pc
<1>4. GateWatched'
  BY <1>1, <1>2 DEF GateWatched, Looking, Pc, Left
<1>5. GateExclusive'
  BY <1>1, <1>2 DEF GateExclusive, Inside, Pc, Left
<1>6. LeasesKept'
  BY <1>1, <1>2 DEF LeasesKept, HasLease, Serves, Pc, Before, Acquiring, Left
<1>7. Accounted'
  BY <1>1, <1>2 DEF Accounted, HasLease, Serves, Pc, Left, LeasesKept, Before, Acquiring
<1>8. Met'
  BY <1>1, <1>2 DEF Met, Before, Pc, Acquiring, Registered, Left, RefusedForCause
<1> QED
  BY <1>3, <1>4, <1>5, <1>6, <1>7, <1>8 DEF CInv

LEMMA Writes ==
    ASSUME CInv, NEW p \in Pids, WriteLease(p)
    PROVE  CInv'
<1> USE IdFacts, OwnIds
<1>1. TypeOK /\ GateWatched /\ GateExclusive /\ LeasesKept /\ Accounted /\ Met
  BY DEF CInv
<1>2. /\ Pc(p) = "sweeping" /\ proc[p].todo = {}
      /\ proc[p].kind = "successor" \/ proc[p].live = {}
      /\ leases' = leases \cup {Id(p)} /\ UNCHANGED <<gate, births>>
  BY DEF WriteLease, Swept
<1>3. proc \in [Pids -> Process]
  BY <1>1 DEF TypeOK
<1>4. /\ proc' \in [Pids -> Process]
      /\ proc'[p].pc = "releasing" /\ proc'[p].next = "serving" /\ proc'[p].live = {}
      /\ \A q \in Pids : /\ proc'[q].kind = proc[q].kind /\ proc'[q].refused = proc[q].refused
                         /\ proc[q].met => proc'[q].met
      /\ \A q \in Pids \ {p} : /\ proc'[q].pc = proc[q].pc /\ proc'[q].seen = proc[q].seen
                               /\ proc'[q].next = proc[q].next /\ proc'[q].todo = proc[q].todo
                               /\ proc'[q].live = proc[q].live
                               /\ proc[q].pc \in Acquiring => proc'[q].met
  <2> DEFINE r == [proc[p] EXCEPT !.pc = "releasing", !.next = "serving", !.live = {}]
             s(q) == [proc[q] EXCEPT !.met = proc[q].met \/ proc[q].pc \in Acquiring]
  <2>1. /\ r \in Process /\ r.pc = "releasing" /\ r.next = "serving" /\ r.live = {}
        /\ r.kind = proc[p].kind /\ r.refused = proc[p].refused /\ r.met = proc[p].met
    <3>1. proc[p] \in Process
      BY <1>3
    <3> QED
      BY <3>1 DEF Process, Acquiring
  <2>2. \A q \in Pids : /\ s(q) \in Process /\ s(q).kind = proc[q].kind
                        /\ s(q).refused = proc[q].refused /\ s(q).pc = proc[q].pc
                        /\ s(q).seen = proc[q].seen /\ s(q).next = proc[q].next
                        /\ s(q).todo = proc[q].todo /\ s(q).live = proc[q].live
                        /\ s(q).met <=> proc[q].met \/ proc[q].pc \in Acquiring
    <3>1. \A q \in Pids : proc[q] \in Process /\ (proc[q].met \/ proc[q].pc \in Acquiring) \in BOOLEAN
      BY <1>3
    <3>2. ASSUME NEW q \in Pids
          PROVE  /\ s(q) \in Process /\ s(q).kind = proc[q].kind
                 /\ s(q).refused = proc[q].refused /\ s(q).pc = proc[q].pc
                 /\ s(q).seen = proc[q].seen /\ s(q).next = proc[q].next
                 /\ s(q).todo = proc[q].todo /\ s(q).live = proc[q].live
                 /\ s(q).met <=> proc[q].met \/ proc[q].pc \in Acquiring
      <4> DEFINE m == proc[q].met \/ proc[q].pc \in Acquiring
      <4>1. m \in BOOLEAN /\ proc[q] \in Process
        BY <3>1
      <4> HIDE DEF m
      <4>2. [proc[q] EXCEPT !.met = m] \in Process
        BY <4>1 DEF Process
      <4>3. /\ [proc[q] EXCEPT !.met = m].met = m
            /\ [proc[q] EXCEPT !.met = m].pc = proc[q].pc
            /\ [proc[q] EXCEPT !.met = m].seen = proc[q].seen
            /\ [proc[q] EXCEPT !.met = m].todo = proc[q].todo
            /\ [proc[q] EXCEPT !.met = m].live = proc[q].live
            /\ [proc[q] EXCEPT !.met = m].next = proc[q].next
            /\ [proc[q] EXCEPT !.met = m].kind = proc[q].kind
            /\ [proc[q] EXCEPT !.met = m].refused = proc[q].refused
        BY <4>1 DEF Process
      <4> QED
        BY <4>2, <4>3, Zenon DEF m
    <3> QED
      BY <3>2, Zenon
  <2>3. proc' = [q \in Pids |-> IF q = p THEN r ELSE s(q)]
    BY <1>3 DEF WriteLease
  <2> HIDE DEF r, s
  <2> QED
    BY <2>1, <2>2, <2>3
<1>5. \A q \in Pids : Id(q)' = Id(q)
  BY <1>2 DEF Id
<1>6. TypeOK'
  BY <1>1, <1>2, <1>4 DEF TypeOK, Pc
<1>7. GateWatched'
  BY <1>1, <1>2, <1>4, <1>5 DEF GateWatched, Looking, Pc
<1>8. GateExclusive'
  BY <1>1, <1>2, <1>4, <1>5 DEF GateExclusive, Inside, Pc
<1>9. \A q \in Pids : q # p => Pc(q) \notin Inside
  BY <1>1, <1>2, AloneInside DEF Inside
<1>10. LeasesKept'
  <2>1. births[p] \in Nat /\ Id(p)[2] <= births[Id(p)[1]]
    BY <1>1 DEF TypeOK
  <2> QED
    BY <1>1, <1>2, <1>4, <1>5, <2>1 DEF LeasesKept, HasLease, Serves, Pc, Before, Acquiring
<1>11. Accounted'
  <2>1. \A q \in Pids : q # p => (HasLease(q)' <=> HasLease(q))
    BY <1>4 DEF HasLease, Serves, Pc
  <2>2. \A q \in Pids : HasLease(q) => proc[p].kind = "successor"
    BY <1>1, <1>2 DEF Accounted
  <2> QED
    BY <1>1, <1>4, <1>5, <1>9, <2>1, <2>2 DEF Accounted, Pc, Inside
<1>12. Met'
  <2>1. ASSUME NEW q \in Pids, q # p
        PROVE  Registered(q)' <=> Registered(q)
    <3>1. Id(q) # Id(p) /\ Id(q)' = Id(q)
      BY <1>1, <1>5, <2>1
    <3>2. Pc(q)' = Pc(q)
      BY <1>4, <2>1 DEF Pc
    <3> QED
      BY <1>2, <3>1, <3>2 DEF Registered
  <2> QED
    BY <1>1, <1>2, <1>4, <1>5, <1>9, <2>1 DEF Met, Before, Pc, Acquiring, RefusedForCause, Inside
<1> QED
  BY <1>6, <1>7, <1>8, <1>10, <1>11, <1>12 DEF CInv

-----------------------------------------------------------------------------
(* Every step of the coordination                                          *)

LEMMA CoordinationStarts ==
    Init => CInv
<1> SUFFICES ASSUME Init PROVE CInv
  OBVIOUS
<1>1. Asleep \in Process /\ Asleep.pc = "off" /\ Asleep.refused = FALSE
  BY DEF Asleep, Process, Kinds
<1>2. /\ proc \in [Pids -> Process] /\ \A p \in Pids : proc[p] = Asleep /\ births[p] = 0
      /\ gate = None /\ leases = {} /\ births \in [Pids -> Nat]
  BY <1>1 DEF Init
<1> HIDE DEF Asleep
<1>3. \A p \in Pids : Pc(p) = "off"
  BY <1>1, <1>2 DEF Pc
<1>4. TypeOK
  BY <1>2, <1>3, CoordinationAssumption DEF TypeOK
<1>5. GateWatched /\ GateExclusive
  BY <1>2, <1>3, IdFacts DEF GateWatched, GateExclusive, Looking, Inside
<1>6. LeasesKept /\ Accounted
  BY <1>2, <1>3 DEF LeasesKept, Accounted, HasLease, Serves, Before, Acquiring
<1>7. Met
  BY <1>1, <1>2, <1>3 DEF Met, Before, Acquiring, RefusedForCause
<1> QED
  BY <1>4, <1>5, <1>6, <1>7 DEF CInv

LEMMA GateSteps ==
    ASSUME CInv, Prompt, Recorded, NEW p \in Pids,
           \/ Publish(p) \/ Collide(p) \/ ReadOwner(p) \/ ReadNothing(p) \/ Judge(p) \/ Wait(p)
           \/ RemoveOwner(p) \/ RemoveGate(p) \/ Deadline(p)
    PROVE  CInv'
<1>1. TypeOK /\ GateWatched
  BY DEF CInv
<1>2. proc \in [Pids -> Process] /\ proc[p] \in Process /\ gate \in Ids \cup {None, Empty}
  BY <1>1 DEF TypeOK
<1>3. \A pc \in Acquiring \cup {"off", "guarding", "serving"} :
          /\ proc' = To(p, pc) => Keeps(p) /\ proc'[p].pc = pc
          /\ proc' = Judged(p, pc) => Keeps(p) /\ proc'[p].pc = pc
  BY <1>1, Shapes
<1>4. proc' = Ends(p) => Over(p)
  BY <1>1, Shapes
<1>5. CASE Publish(p)
  <2>1. Keeps(p) /\ proc'[p].pc = "listing"
    <3> DEFINE r == [proc[p] EXCEPT !.pc = "listing", !.late = FALSE]
    <3>1. /\ r \in Process /\ r.pc = "listing" /\ r.todo = proc[p].todo
          /\ r.live = proc[p].live /\ r.kind = proc[p].kind
          /\ r.next = proc[p].next /\ r.met = proc[p].met /\ r.refused = proc[p].refused
      BY <1>2 DEF Process, Acquiring
    <3>2. proc' = [proc EXCEPT ![p] = r]
      BY <1>2, <1>5 DEF Publish
    <3> HIDE DEF r
    <3> QED
      BY <1>2, <3>1, <3>2 DEF Keeps, Others
  <2> QED
    BY <1>5, <2>1, Gates DEF Publish
<1>6. CASE Collide(p)
  BY <1>3, <1>6, Moves DEF Collide, Outside, Acquiring
<1>7. CASE ReadOwner(p)
  <2>1. Keeps(p) /\ proc'[p].pc = "judge" /\ proc'[p].seen = gate
    <3> DEFINE r == [proc[p] EXCEPT !.pc = "judge", !.seen = gate]
    <3>1. /\ r \in Process /\ r.pc = "judge" /\ r.todo = proc[p].todo /\ r.seen = gate
          /\ r.live = proc[p].live /\ r.kind = proc[p].kind
          /\ r.next = proc[p].next /\ r.met = proc[p].met /\ r.refused = proc[p].refused
      BY <1>2, <1>7 DEF Process, Acquiring, ReadOwner
    <3>2. proc' = [proc EXCEPT ![p] = r]
      BY <1>2, <1>7 DEF ReadOwner
    <3> HIDE DEF r
    <3> QED
      BY <1>2, <3>1, <3>2 DEF Keeps, Others
  <2> QED
    BY <1>2, <1>7, <2>1, Looks DEF ReadOwner
<1>8. CASE ReadNothing(p)
  <2>1. PICK pc \in {"publish", "wait"} : proc' = To(p, pc)
    BY <1>8 DEF ReadNothing
  <2> QED
    BY <1>3, <1>8, <2>1, Moves DEF ReadNothing, Outside, Acquiring
<1>9. CASE Judge(p)
  <2>1. CASE Alive(proc[p].seen)
    <3>1. proc' = Judged(p, "wait") /\ UNCHANGED <<gate, leases, births>> /\ Pc(p) = "judge"
      BY <1>9, <2>1 DEF Judge
    <3> QED
      BY <1>3, <3>1, Moves DEF Outside, Acquiring
  <2>2. CASE ~Alive(proc[p].seen)
    <3>1. proc' = Judged(p, "remove") /\ UNCHANGED <<gate, leases, births>> /\ Pc(p) = "judge"
      BY <1>9, <2>2 DEF Judge
    <3> QED
      BY <1>3, <2>2, <3>1, Looks DEF Acquiring
  <2> QED
    BY <2>1, <2>2
<1>10. CASE Wait(p)
  <2>1. CASE proc[p].late
    BY <1>4, <1>10, <2>1, Quits DEF Wait
  <2>2. CASE ~proc[p].late
    BY <1>3, <1>10, <2>2, Moves DEF Wait, Outside, Acquiring
  <2> QED
    BY <2>1, <2>2
<1>11. CASE RemoveOwner(p)
  BY <1>3, <1>11, Moves DEF RemoveOwner, Outside, Acquiring
<1>12. CASE RemoveGate(p)
  <2>1. CASE gate \in {None, Empty}
    BY <1>3, <1>12, <2>1, Moves DEF RemoveGate, Outside, Acquiring
  <2>2. CASE gate \notin {None, Empty}
    BY <1>4, <1>12, <2>2, Quits DEF RemoveGate
  <2> QED
    BY <2>1, <2>2
<1>13. CASE Deadline(p)
  <2>1. Keeps(p) /\ proc'[p].pc = Pc(p) /\ proc'[p].seen = proc[p].seen
    <3> DEFINE r == [proc[p] EXCEPT !.late = TRUE]
    <3>1. /\ r \in Process /\ r.pc = proc[p].pc /\ r.todo = proc[p].todo /\ r.seen = proc[p].seen
          /\ r.live = proc[p].live /\ r.kind = proc[p].kind
          /\ r.next = proc[p].next /\ r.met = proc[p].met /\ r.refused = proc[p].refused
      BY <1>2 DEF Process
    <3>2. proc' = [proc EXCEPT ![p] = r]
      BY <1>2, <1>13 DEF Deadline
    <3> HIDE DEF r
    <3> QED
      BY <1>2, <3>1, <3>2 DEF Keeps, Others, Pc
  <2> QED
    BY <1>13, <2>1, Lates DEF Deadline
<1> QED
  BY <1>5, <1>6, <1>7, <1>8, <1>9, <1>10, <1>11, <1>12, <1>13

LEMMA InnerSteps ==
    ASSUME CInv, Prompt, Recorded, NEW p \in Pids,
           \/ List(p) \/ Sweep(p) \/ Refuse(p) \/ WriteLease(p) \/ Guard(p)
           \/ ReleaseOwner(p) \/ ReleaseGate(p) \/ EndGuarded(p) \/ Stop(p) \/ Crash(p)
    PROVE  CInv'
<1>1. TypeOK
  BY DEF CInv
<1>2. \A pc \in Acquiring \cup {"off", "guarding", "serving"} :
          proc' = To(p, pc) => Keeps(p) /\ proc'[p].pc = pc
  BY <1>1, Shapes
<1>3. proc' = Ends(p) => Over(p)
  BY <1>1, Shapes
<1>4. \A inUse \in BOOLEAN : proc' = Leaves(p, inUse) => Left(p, inUse)
  BY <1>1, Shapes
<1>5. CASE List(p)
  BY <1>5, Lists
<1>6. CASE Sweep(p)
  <2>1. PICK e \in proc[p].todo :
          \/ /\ e \notin leases /\ UNCHANGED leases
             /\ proc' = Leaves(p, FALSE)
          \/ /\ e \in leases /\ Alive(e) /\ UNCHANGED leases
             /\ proc' = [proc EXCEPT ![p].todo = @ \ {e}, ![p].live = @ \cup {e}]
          \/ /\ e \in leases /\ ~Alive(e) /\ leases' = leases \ {e}
             /\ proc' = [proc EXCEPT ![p].todo = @ \ {e}]
    BY <1>6 DEF Sweep
  <2>2. Pc(p) = "sweeping" /\ UNCHANGED <<gate, births>>
    BY <1>6 DEF Sweep
  <2>3. CASE e \in leases
    BY <2>1, <2>2, <2>3, Sweeps
  <2>4. CASE e \notin leases
    BY <1>4, <2>1, <2>2, <2>4, Gives
  <2> QED
    BY <2>3, <2>4
<1>7. CASE Refuse(p)
  BY <1>4, <1>7, Gives DEF Refuse, Swept
<1>8. CASE WriteLease(p)
  BY <1>8, Writes
<1>9. CASE Guard(p)
  BY <1>2, <1>9, Gates DEF Guard
<1>10. CASE ReleaseOwner(p)
  <2>1. CASE gate = Id(p)
    BY <1>2, <1>10, <2>1, Gates DEF ReleaseOwner, Acquiring
  <2>2. CASE gate # Id(p)
    BY <1>3, <1>10, <2>2, Quits DEF ReleaseOwner
  <2> QED
    BY <2>1, <2>2
<1>11. CASE ReleaseGate(p)
  <2>1. CASE proc' = Ends(p)
    BY <1>3, <1>11, <2>1, Quits DEF ReleaseGate
  <2>2. CASE proc' # Ends(p)
    <3>1. proc[p].next = "serving"
      BY <1>1, <1>11, <2>2 DEF ReleaseGate, TypeOK, Process
    <3> QED
      BY <1>2, <1>11, <2>2, <3>1, Gates DEF ReleaseGate
  <2> QED
    BY <2>1, <2>2
<1>12. CASE EndGuarded(p)
  BY <1>2, <1>12, Gates DEF EndGuarded, Acquiring
<1>13. CASE Stop(p)
  BY <1>3, <1>13, Quits DEF Stop
<1>14. CASE Crash(p)
  BY <1>3, <1>14, Quits DEF Crash
<1> QED
  BY <1>5, <1>6, <1>7, <1>8, <1>9, <1>10, <1>11, <1>12, <1>13, <1>14

LEMMA CoordinationSteps ==
    ASSUME CInv, Prompt, Recorded, [Next]_vars
    PROVE  CInv'
<1>1. CASE UNCHANGED vars
  BY <1>1 DEF vars, CInv, TypeOK, GateWatched, GateExclusive, LeasesKept, Accounted, Met, Looking,
              HasLease, Registered, RefusedForCause, Serves, Pc, Id
<1>2. CASE Next
  BY <1>2, StartsUp, GateSteps, InnerSteps DEF Next, Acquire
<1> QED
  BY <1>1, <1>2

-----------------------------------------------------------------------------
(* What works under the guard leaves the coordination to its own steps     *)

LEMMA Coordinating ==
    ASSUME [BackupNext]_backupVars
    PROVE  [Next]_vars
<1>1. CASE UNCHANGED backupVars
  BY <1>1 DEF backupVars
<1>2. ASSUME NEW p \in Pids, Coordinates(p) \/ Operate(p) \/ Write(p) \/ Dies(p)
      PROVE  [Next]_vars
  <2>1. CASE Coordinates(p)
    BY <2>1 DEF Coordinates, Next
  <2>2. CASE Write(p)
    BY <2>2 DEF Write
  <2>3. CASE Dies(p)
    BY <2>3 DEF Dies, Next
  <2>4. CASE NoLock(p) \/ Unlock(p)
    BY <2>4 DEF NoLock, Unlock, Next
  <2>5. CASE TakeLock(p) \/ CopyRoot(p) \/ CopyFails(p) \/ PublishBackup(p)
    BY <2>5 DEF TakeLock, CopyRoot, CopyFails, PublishBackup
  <2>6. CASE Materialize(p) \/ MaterializeFails(p) \/ MoveAside(p) \/ MoveAsideFails(p)
    BY <2>6 DEF Materialize, MaterializeFails, MoveAside, MoveAsideFails
  <2>7. CASE MoveIn(p) \/ MoveInFails(p) \/ MoveBack(p) \/ MoveBackFails(p) \/ Restored(p)
    BY <2>7 DEF MoveIn, MoveInFails, MoveBack, MoveBackFails, Restored
  <2>8. CASE UndoOut(p) \/ UndoBack(p) \/ UndoRemove(p) \/ UndoFails(p) \/ Undone(p)
    BY <2>8 DEF UndoOut, UndoBack, UndoRemove, UndoFails, Undone
  <2> QED
    BY <1>2, <2>1, <2>2, <2>3, <2>4, <2>5, <2>6, <2>7, <2>8 DEF Operate
<1> QED
  BY <1>1, <1>2 DEF BackupNext

\* The gate has one owner, nothing serves while a backup or a restore works,
\* two runtimes serve only while one replaces the other, and a start is
\* refused only when another runtime was there since it began.
THEOREM Coordination ==
    ASSUME Prompt, Recorded
    PROVE  BackupSpec => []Coordinated
<1>1. BackupInit => CInv
  BY CoordinationStarts DEF BackupInit
<1>2. CInv /\ [BackupNext]_backupVars => CInv'
  BY Coordinating, CoordinationSteps
<1>3. CInv => Coordinated
  <2> SUFFICES ASSUME CInv PROVE Coordinated
    OBVIOUS
  <2>1. GateExclusive /\ RefusedForCause
    BY DEF CInv, Met
  <2>2. GuardAlone
    BY DEF CInv, GuardAlone, Accounted, HasLease
  <2>3. OneRuntime
    BY DEF CInv, OneRuntime, Accounted, HasLease
  <2> QED
    BY <2>1, <2>2, <2>3 DEF Coordinated
<1> QED
  BY <1>1, <1>2, <1>3, PTL DEF BackupSpec

-----------------------------------------------------------------------------
(* What is on disk, and how far the work under the guard has come          *)

Content == 0 .. MaxVersion \cup {None}

Exchange == {"stage", "aside", "in", "back", "undo", "undoback", "undorm"}
Job == [step : {"idle", "copy", "unlock"} \cup Exchange,
        of : 0 .. MaxBackups, at : 0 .. Roots + 1,
        copy : [R -> Content], from : [R -> Content], done : BOOLEAN]

DiskTypes ==
    /\ version \in 0 .. MaxVersion /\ root \in [R -> Content]
    /\ backups \in Seq([R -> Content]) /\ Len(backups) <= MaxBackups
    /\ staged \in [1 .. MaxBackups -> [R -> Content \cup {Empty}]]
    /\ aside \in [1 .. MaxBackups -> [R -> Content]]
    /\ lock \in BOOLEAN /\ fileFaults \subseteq FileFaults
    /\ job \in [Pids -> Job]

\* Only whoever has the guard works, and at what it was started for.
JobStands(p) ==
    /\ Step(p) # "idle" => Pc(p) = "guarding" /\ lock
    /\ Step(p) = "copy" => /\ proc[p].kind = "backup" /\ At(p) > 0
                           /\ Len(backups) < MaxBackups
    /\ Step(p) \in Exchange => proc[p].kind = "restore"
    /\ B(p) \in IF Restores(p) THEN 1 .. Len(backups) ELSE {0}
    /\ Step(p) \in Exchange \ {"undo"} => At(p) > 0
    /\ Step(p) \in Exchange \ {"stage"} => At(p) <= Roots
    /\ job[p].done => Step(p) = "unlock"

\* The roots whose previous content was moved away.
Moved(p, r) ==
    \/ Step(p) \in {"stage", "aside", "undorm"} /\ r < At(p)
    \/ Step(p) \in {"in", "back", "undo", "undoback"} /\ r <= At(p)

\* The roots it has not come to.
Ahead(p, r) ==
    \/ Step(p) \in {"stage", "aside"} /\ r >= At(p)
    \/ Step(p) = "in" /\ r > At(p)

\* What a restore moved away is aside, what it comes to next is untouched,
\* and what it is about to move in is laid out.
RestoreStands(p) == Restores(p) => \A r \in R :
    /\ job[p].from[r] \in {root[r], aside[B(p)][r]}
    /\ Moved(p, r) => aside[B(p)][r] = job[p].from[r]
    /\ Ahead(p, r) => root[r] = job[p].from[r]
    /\ Step(p) \in {"aside", "in"} /\ r = At(p) => staged[B(p)][r] = backups[B(p)][r]

\* No rollback has failed, and no process was killed between two renames.
Unbroken == "rollback" \notin fileFaults /\ "cut" \notin fileFaults
USE DEF Unbroken

\* While that is so: which roots hold the backup, and which hold what they held
\* before.
Exchanged(p, r) ==
    \/ Step(p) \in Exchange \ {"undo"} /\ r < At(p)
    \/ Step(p) = "undo" /\ r <= At(p)
    \/ Step(p) = "unlock" /\ job[p].done
Untouched(p, r) ==
    \/ Step(p) \in {"stage", "aside", "undorm"} /\ r >= At(p)
    \/ Step(p) \in {"in", "back", "undo", "undoback"} /\ r > At(p)
    \/ Step(p) = "unlock" /\ ~job[p].done
HalfWay(p) == Restores(p) =>
    /\ Whole(job[p].from)
    /\ \A r \in R : /\ Exchanged(p, r) => root[r] = backups[B(p)][r]
                    /\ Untouched(p, r) => root[r] = job[p].from[r]

CopyStands(p) == Step(p) = "copy" => \A r \in R : r < At(p) => job[p].copy[r] = root[r]

DInv ==
    /\ DiskTypes
    /\ \A p \in Pids : JobStands(p) /\ RestoreStands(p) /\ CopyStands(p)
    /\ Unbroken => /\ BackupsWhole /\ RootsWhole
                                   /\ \A p \in Pids : HalfWay(p)

-----------------------------------------------------------------------------
(* Who works, works alone                                                  *)

LEMMA WorksAlone ==
    ASSUME CInv, DInv, NEW p \in Pids, Step(p) # "idle" \/ Pc(p) = "guarding"
    PROVE  \A q \in Pids : q # p => Step(q) = "idle"
<1>1. \A q \in Pids : Step(q) # "idle" => Pc(q) = "guarding"
  BY DEF DInv, JobStands
<1> QED
  BY <1>1, AloneInside DEF Inside

\* The work of p goes on: another step, at another root.
JobGoes(p, step, at, done) ==
    /\ job' \in [Pids -> Job] /\ \A q \in Pids \ {p} : job'[q] = job[q]
    /\ job'[p].step = step /\ job'[p].at = at /\ job'[p].done = done
    /\ job'[p].of = job[p].of /\ job'[p].from = job[p].from /\ job'[p].copy = job[p].copy

Steps == {"idle", "copy", "unlock"} \cup Exchange

LEMMA JobShapes ==
    ASSUME DiskTypes, NEW p \in Pids
    PROVE  /\ \A step \in Steps : job' = Goes(p, step) => JobGoes(p, step, At(p), job[p].done)
           /\ job' = Fails(p) /\ At(p) > 0 => JobGoes(p, "undo", At(p) - 1, job[p].done)
           /\ job' = [Goes(p, "stage") EXCEPT ![p].at = @ + 1] /\ At(p) <= Roots
              => JobGoes(p, "stage", At(p) + 1, job[p].done)
           /\ job' = [Goes(p, "unlock") EXCEPT ![p].done = TRUE]
              => JobGoes(p, "unlock", At(p), TRUE)
<1>1. job \in [Pids -> Job] /\ job[p] \in Job /\ At(p) \in 0 .. Roots + 1 /\ Roots \in Nat
  BY BackupAssumption DEF DiskTypes, At, Job
<1>2. ASSUME NEW r \in Job, job' = [job EXCEPT ![p] = r],
             r.of = job[p].of, r.from = job[p].from, r.copy = job[p].copy
      PROVE  JobGoes(p, r.step, r.at, r.done)
  BY <1>1, <1>2 DEF JobGoes
<1>3. ASSUME NEW step \in Steps, job' = Goes(p, step)
      PROVE  JobGoes(p, step, At(p), job[p].done)
  <2> DEFINE r == [job[p] EXCEPT !.step = step]
  <2>1. /\ r \in Job /\ r.step = step /\ r.at = At(p) /\ r.done = job[p].done
        /\ r.of = job[p].of /\ r.from = job[p].from /\ r.copy = job[p].copy
    BY <1>1 DEF Job, Steps, At
  <2>2. job' = [job EXCEPT ![p] = r]
    BY <1>1, <1>3 DEF Goes
  <2> HIDE DEF r
  <2> QED
    BY <1>2, <2>1, <2>2
<1>4. ASSUME job' = Fails(p), At(p) > 0
      PROVE  JobGoes(p, "undo", At(p) - 1, job[p].done)
  <2> DEFINE r == [job[p] EXCEPT !.step = "undo", !.at = At(p) - 1]
  <2>1. /\ r \in Job /\ r.step = "undo" /\ r.at = At(p) - 1 /\ r.done = job[p].done
        /\ r.of = job[p].of /\ r.from = job[p].from /\ r.copy = job[p].copy
    <3>1. At(p) - 1 \in 0 .. Roots + 1
      BY <1>1, <1>4
    <3> QED
      BY <1>1, <3>1 DEF Job, Exchange
  <2>2. job' = [job EXCEPT ![p] = r]
    BY <1>1, <1>4 DEF Fails, At
  <2> HIDE DEF r
  <2> QED
    BY <1>2, <2>1, <2>2
<1>5. ASSUME job' = [Goes(p, "stage") EXCEPT ![p].at = @ + 1], At(p) <= Roots
      PROVE  JobGoes(p, "stage", At(p) + 1, job[p].done)
  <2> DEFINE r == [job[p] EXCEPT !.step = "stage", !.at = At(p) + 1]
  <2>1. /\ r \in Job /\ r.step = "stage" /\ r.at = At(p) + 1 /\ r.done = job[p].done
        /\ r.of = job[p].of /\ r.from = job[p].from /\ r.copy = job[p].copy
    <3>1. At(p) + 1 \in 0 .. Roots + 1
      BY <1>1, <1>5
    <3> QED
      BY <1>1, <3>1 DEF Job, Exchange
  <2>2. job' = [job EXCEPT ![p] = r]
    BY <1>1, <1>5 DEF Goes, At
  <2> HIDE DEF r
  <2> QED
    BY <1>2, <2>1, <2>2
<1>6. ASSUME job' = [Goes(p, "unlock") EXCEPT ![p].done = TRUE]
      PROVE  JobGoes(p, "unlock", At(p), TRUE)
  <2> DEFINE r == [job[p] EXCEPT !.step = "unlock", !.done = TRUE]
  <2>1. /\ r \in Job /\ r.step = "unlock" /\ r.at = At(p) /\ r.done = TRUE
        /\ r.of = job[p].of /\ r.from = job[p].from /\ r.copy = job[p].copy
    BY <1>1 DEF Job, At
  <2>2. job' = [job EXCEPT ![p] = r]
    BY <1>1, <1>6 DEF Goes
  <2> HIDE DEF r
  <2> QED
    BY <1>2, <2>1, <2>2
<1> QED
  BY <1>3, <1>4, <1>5, <1>6

\* Who does not work has nothing to answer for, before or after a step.
LEMMA Rests ==
    ASSUME NEW q \in Pids, JobStands(q), Step(q) = "idle", job'[q] = job[q]
    PROVE  JobStands(q)' /\ RestoreStands(q)' /\ CopyStands(q)' /\ HalfWay(q)'
<1>1. Step(q)' = "idle" /\ B(q)' = B(q) /\ ~Restores(q) /\ ~Restores(q)'
  BY DEF Step, B, Restores
<1>2. B(q) = 0 /\ ~job[q].done
  BY <1>1 DEF JobStands
<1> QED
  BY <1>1, <1>2 DEF JobStands, RestoreStands, CopyStands, HalfWay, Exchange

\* A restore goes on: what remains to be shown of its own state.
LEMMA RestoreGoes ==
    ASSUME CInv, DInv, NEW p \in Pids, Restores(p), UNCHANGED <<vars, version, backups, lock>>,
           job' \in [Pids -> Job], \A q \in Pids \ {p} : job'[q] = job[q],
           root' \in [R -> Content], fileFaults \subseteq fileFaults', fileFaults' \subseteq FileFaults,
           staged' \in [1 .. MaxBackups -> [R -> Content \cup {Empty}]],
           aside' \in [1 .. MaxBackups -> [R -> Content]],
           Step(p)' \in Exchange \cup {"unlock"},
           JobStands(p)', RestoreStands(p)', Unbroken' => HalfWay(p)'
    PROVE  DInv'
<1>1. /\ \A q \in Pids : q # p => Step(q)' = "idle"
      /\ Restores(p)'
  BY WorksAlone DEF Restores, Step, Exchange, vars
<1>2. DiskTypes'
  BY DEF DInv, DiskTypes
<1>3. ASSUME NEW q \in Pids
      PROVE  JobStands(q)' /\ RestoreStands(q)' /\ CopyStands(q)'
  <2>1. CASE q = p
    BY <1>1, <2>1 DEF CopyStands, Exchange
  <2>2. CASE q # p
    BY <2>2, WorksAlone, Rests DEF DInv, Restores
  <2> QED
    BY <2>1, <2>2
<1>4. ASSUME Unbroken'
      PROVE  BackupsWhole' /\ RootsWhole' /\ \A q \in Pids : HalfWay(q)'
  <2>1. BackupsWhole'
    BY <1>4 DEF DInv, BackupsWhole, Whole
  <2>2. HalfWay(p)' /\ \A q \in Pids : HalfWay(q)'
    BY <1>1, <1>4 DEF HalfWay, Restores
  <2>3. CASE Step(p)' = "unlock"
    <3>1. CASE (job[p].done)'
      <4>1. \A r \in R : root'[r] = backups'[B(p)'][r]
        BY <1>1, <2>2, <2>3, <3>1 DEF HalfWay, Exchanged
      <4>2. B(p)' \in 1 .. Len(backups')
        BY <1>1 DEF JobStands, Restores
      <4> QED
        BY <2>1, <2>2, <4>1, <4>2 DEF BackupsWhole, RootsWhole, Whole
    <3>2. CASE ~(job[p].done)'
      BY <1>1, <2>1, <2>2, <2>3, <3>2 DEF HalfWay, Untouched, RootsWhole, Whole
    <3> QED
      BY <3>1, <3>2
  <2>4. CASE Step(p)' # "unlock"
    BY <1>1, <2>1, <2>2, <2>4 DEF RootsWhole
  <2> QED
    BY <2>1, <2>2, <2>3, <2>4
<1> QED
  BY <1>2, <1>3, <1>4 DEF DInv

-----------------------------------------------------------------------------
(* The steps of a restore                                                  *)

\* What is known of a restore that works at a root.
AtRoot(p) ==
    /\ Restores(p) /\ Pc(p) = "guarding" /\ lock /\ job[p].done = FALSE
    /\ Step(p) \in Exchange
    /\ B(p) \in 1 .. MaxBackups /\ B(p) \in 1 .. Len(backups)
    /\ At(p) \in Nat /\ At(p) <= Roots + 1 /\ Roots \in Nat
    /\ Step(p) # "undo" => At(p) > 0
    /\ Step(p) # "stage" => At(p) <= Roots
    /\ backups[B(p)] \in [R -> Content]
    /\ job[p].from \in [R -> Content]
    /\ \A r \in R : r \in Nat /\ r > 0 /\ r <= Roots

LEMMA AtSomeRoot ==
    ASSUME CInv, DInv, NEW p \in Pids, Step(p) \in Exchange
    PROVE  AtRoot(p)
<1>1. DiskTypes /\ JobStands(p) /\ Roots \in Nat /\ MaxBackups \in Nat
  BY BackupAssumption DEF DInv
<1>2. Restores(p) /\ Pc(p) = "guarding" /\ lock
  BY <1>1 DEF JobStands, Restores, Exchange
<1>3. job[p] \in Job
  BY <1>1 DEF DiskTypes
<1>4. B(p) \in 1 .. Len(backups) /\ Len(backups) \in Nat /\ Len(backups) <= MaxBackups
  BY <1>1, <1>2 DEF JobStands, DiskTypes, Restores
<1>5. job[p].done = FALSE
  BY <1>1, <1>3 DEF JobStands, Job, Exchange, Step
<1>6. backups[B(p)] \in [R -> Content]
  BY <1>1, <1>4 DEF DiskTypes
<1>7. /\ Step(p) # "undo" => At(p) > 0
      /\ Step(p) # "stage" => At(p) <= Roots
  BY <1>1 DEF JobStands, Exchange
<1> QED
  BY <1>1, <1>2, <1>3, <1>4, <1>5, <1>6, <1>7 DEF AtRoot, Job, At, R

\* Where the restore is after a step.
JobAt(p, step, at, done) ==
    /\ Step(p)' = step /\ At(p)' = at /\ job'[p].done = done /\ B(p)' = B(p)
    /\ job'[p].from = job[p].from /\ Restores(p)'

LEMMA Places ==
    ASSUME NEW p \in Pids, NEW step \in Exchange \cup {"unlock"}, NEW at, NEW done,
           JobGoes(p, step, at, done), Restores(p), UNCHANGED vars
    PROVE  JobAt(p, step, at, done)
BY DEF JobGoes, JobAt, Restores, Step, At, B, Exchange, vars

\* The restore comes to another step or root.
LEMMA Advance ==
    ASSUME CInv, DInv, NEW p \in Pids, Step(p) \in Exchange,
           NEW step \in Exchange \cup {"unlock"}, NEW at, NEW done, JobGoes(p, step, at, done),
           step \in Exchange \ {"undo"} => at > 0,
           step \in Exchange \ {"stage"} => at <= Roots,
           done => step = "unlock",
           UNCHANGED <<vars, version, backups, lock>>,
           root' \in [R -> Content], fileFaults \subseteq fileFaults', fileFaults' \subseteq FileFaults,
           staged' \in [1 .. MaxBackups -> [R -> Content \cup {Empty}]],
           aside' \in [1 .. MaxBackups -> [R -> Content]],
           RestoreStands(p)', Unbroken' => HalfWay(p)'
    PROVE  DInv'
<1>1. JobStands(p)'
  BY AtSomeRoot DEF AtRoot, JobGoes, JobStands, Restores, Step, At, B, Pc, Exchange, vars
<1>2. Step(p)' \in Exchange \cup {"unlock"}
  BY DEF JobGoes, Step
<1> QED
  BY <1>1, <1>2, AtSomeRoot, RestoreGoes DEF AtRoot, JobGoes

\* The restore gives up at a root, without a change to it.
LEMMA FailsHere ==
    ASSUME CInv, DInv, NEW p \in Pids, Step(p) \in {"stage", "aside", "in", "back"},
           job' = Fails(p),
           Step(p) = "in" => aside[B(p)][At(p)] = None,
           Step(p) = "back" => ~Unbroken',
           UNCHANGED <<vars, version, backups, lock, root, aside>>,
           fileFaults \subseteq fileFaults', fileFaults' \subseteq FileFaults,
           staged' \in [1 .. MaxBackups -> [R -> Content \cup {Empty}]]
    PROVE  DInv'
<1>1. AtRoot(p) /\ Step(p) \in Exchange /\ DiskTypes /\ RestoreStands(p)
  BY AtSomeRoot DEF Exchange, DInv
<1>2. JobGoes(p, "undo", At(p) - 1, FALSE) /\ At(p) - 1 <= Roots /\ Roots \in Nat
  <2>1. At(p) > 0 /\ At(p) \in Nat /\ job[p].done = FALSE /\ At(p) <= Roots + 1
    BY <1>1 DEF AtRoot
  <2>2. JobGoes(p, "undo", At(p) - 1, job[p].done)
    BY <1>1, <2>1, JobShapes
  <2> QED
    BY <2>1, <2>2, BackupAssumption DEF JobGoes
<1>3. JobAt(p, "undo", At(p) - 1, FALSE)
  BY <1>1, <1>2, Places DEF AtRoot, Exchange
<1>4. RestoreStands(p)'
  BY <1>1, <1>3 DEF AtRoot, RestoreStands, JobAt, Moved, Ahead
<1>5. ASSUME Unbroken'
      PROVE  HalfWay(p)'
  <2>1. HalfWay(p) /\ Restores(p)
    BY <1>1, <1>5 DEF AtRoot, DInv
  <2>2. CASE Step(p) = "in"
    <3>1. At(p) \in R
      BY <1>1, <2>2 DEF AtRoot, R
    <3>2. job[p].from[At(p)] # None
      BY <2>1, <3>1 DEF HalfWay, Whole
    <3>3. Moved(p, At(p))
      BY <1>1, <2>2, <3>1 DEF AtRoot, Moved
    <3>4. aside[B(p)][At(p)] = job[p].from[At(p)]
      BY <1>1, <2>1, <3>1, <3>3 DEF RestoreStands
    <3> QED
      BY <2>2, <3>2, <3>4
  <2>3. CASE Step(p) # "in"
    BY <1>1, <1>3, <1>5, <2>1, <2>3 DEF AtRoot, HalfWay, JobAt, Exchanged, Untouched
  <2> QED
    BY <2>2, <2>3
<1> QED
  BY <1>1, <1>2, <1>4, <1>5, Advance DEF DiskTypes, Exchange

\* Whatever changes no directory: a failure, or the end.
LEMMA RestoreTurns ==
    ASSUME CInv, DInv, NEW p \in Pids,
           \/ MoveAsideFails(p) \/ MoveInFails(p) \/ MoveBackFails(p) \/ UndoFails(p)
           \/ Restored(p) \/ Undone(p)
    PROVE  DInv'
<1>1. DiskTypes /\ RestoreStands(p) /\ Step(p) \in Exchange
  BY DEF DInv, MoveAsideFails, MoveInFails, MoveBackFails, UndoFails, Restored, Undone, Works,
         Exchange
<1>2. AtRoot(p)
  BY <1>1, AtSomeRoot
<1>3. /\ UNCHANGED <<vars, version, backups, lock, root, staged, aside>>
      /\ fileFaults \subseteq fileFaults' /\ fileFaults' \subseteq FileFaults
  BY <1>1 DEF MoveAsideFails, MoveInFails, MoveBackFails, UndoFails, Restored, Undone, FileFault, disk,
              DiskTypes
<1>4. /\ root' \in [R -> Content]
      /\ staged' \in [1 .. MaxBackups -> [R -> Content \cup {Empty}]]
      /\ aside' \in [1 .. MaxBackups -> [R -> Content]]
  BY <1>1, <1>3 DEF DiskTypes
<1>5. CASE job' = Fails(p) /\ (MoveAsideFails(p) \/ MoveInFails(p) \/ MoveBackFails(p))
  <2>1. /\ Step(p) \in {"aside", "in", "back"}
        /\ Step(p) = "in" => aside[B(p)][At(p)] = None
        /\ Step(p) = "back" => ~Unbroken'
    <3>1. Goes(p, "back")[p].step = "back"
      BY <1>1 DEF Goes, DiskTypes, Job
    <3>2. Fails(p)[p].step = "undo"
      BY <1>1 DEF Fails, DiskTypes, Job
    <3> QED
      BY <1>5, <3>1, <3>2 DEF MoveAsideFails, MoveInFails, MoveBackFails, Works, FileFault
  <2> QED
    BY <1>3, <1>4, <1>5, <2>1, FailsHere
<1>6. CASE job' = Goes(p, "back") /\ MoveInFails(p)
  <2>1. JobGoes(p, "back", At(p), FALSE) /\ Step(p) = "in"
    BY <1>1, <1>2, <1>6, JobShapes DEF AtRoot, Steps, Exchange, JobGoes, MoveInFails, Works
  <2>2. JobAt(p, "back", At(p), FALSE)
    BY <1>2, <1>3, <2>1, Places DEF AtRoot, Exchange
  <2>3. RestoreStands(p)'
    BY <1>1, <1>2, <1>3, <2>1, <2>2 DEF AtRoot, RestoreStands, JobAt, Moved, Ahead
  <2>4. ASSUME Unbroken'
        PROVE  HalfWay(p)'
    BY <1>2, <1>3, <2>1, <2>2, <2>4 DEF DInv, AtRoot, HalfWay, JobAt, Exchanged, Untouched, Exchange
  <2> QED
    BY <1>1, <1>2, <1>3, <1>4, <2>1, <2>3, <2>4, Advance DEF AtRoot, Exchange
<1>7. CASE UndoFails(p) \/ Undone(p)
  <2>1. JobGoes(p, "unlock", At(p), FALSE)
    BY <1>1, <1>2, <1>7, JobShapes DEF AtRoot, Steps, JobGoes, UndoFails, Undone
  <2>2. JobAt(p, "unlock", At(p), FALSE)
    BY <1>2, <1>3, <2>1, Places DEF AtRoot
  <2>3. RestoreStands(p)'
    BY <1>1, <1>2, <1>3, <2>2 DEF AtRoot, RestoreStands, JobAt, Moved, Ahead
  <2>4. ASSUME Unbroken'
        PROVE  HalfWay(p)'
    <3>1. Step(p) = "undo" /\ At(p) = 0
      BY <1>7, <2>4 DEF UndoFails, Undone, Works, FileFault
    <3> QED
      BY <1>2, <1>3, <2>2, <2>4, <3>1 DEF DInv, AtRoot, HalfWay, JobAt, Exchanged, Untouched, Exchange
  <2> QED
    BY <1>1, <1>2, <1>3, <1>4, <2>1, <2>3, <2>4, Advance DEF Exchange
<1>8. CASE Restored(p)
  <2>1. JobGoes(p, "unlock", At(p), TRUE) /\ Step(p) = "stage" /\ At(p) > Roots
    BY <1>1, <1>8, JobShapes DEF Restored, Works
  <2>2. JobAt(p, "unlock", At(p), TRUE)
    BY <1>2, <1>3, <2>1, Places DEF AtRoot
  <2>3. RestoreStands(p)'
    BY <1>1, <1>2, <1>3, <2>2 DEF AtRoot, RestoreStands, JobAt, Moved, Ahead
  <2>4. ASSUME Unbroken'
        PROVE  HalfWay(p)'
    BY <1>2, <1>3, <2>1, <2>2, <2>4 DEF DInv, AtRoot, HalfWay, JobAt, Exchanged, Untouched, Exchange
  <2> QED
    BY <1>1, <1>2, <1>3, <1>4, <2>1, <2>3, <2>4, Advance DEF Exchange
<1> QED
  BY <1>5, <1>6, <1>7, <1>8 DEF MoveAsideFails, MoveInFails, MoveBackFails

\* A root is laid out beside the one it will replace.
LEMMA Materializes ==
    ASSUME CInv, DInv, NEW p \in Pids, Materialize(p) \/ MaterializeFails(p)
    PROVE  DInv'
<1>1. DiskTypes /\ RestoreStands(p) /\ Step(p) = "stage" /\ At(p) <= Roots
  BY DEF DInv, Materialize, MaterializeFails, Works
<1>2. AtRoot(p)
  BY <1>1, AtSomeRoot DEF Exchange
<1>3. At(p) \in R /\ backups[B(p)][At(p)] \in Content
  BY <1>1, <1>2 DEF AtRoot, R
<1>4. /\ UNCHANGED <<vars, version, backups, lock, root, aside>>
      /\ fileFaults \subseteq fileFaults' /\ fileFaults' \subseteq FileFaults
  BY <1>1 DEF Materialize, MaterializeFails, FileFault, DiskTypes
<1>5. /\ root' \in [R -> Content] /\ aside' \in [1 .. MaxBackups -> [R -> Content]]
      /\ staged \in [1 .. MaxBackups -> [R -> Content \cup {Empty}]]
  BY <1>1, <1>4 DEF DiskTypes
<1>6. CASE Materialize(p)
  <2>1. JobGoes(p, "aside", At(p), FALSE)
    BY <1>1, <1>2, <1>6, JobShapes DEF AtRoot, Steps, Exchange, JobGoes, Materialize
  <2>2. JobAt(p, "aside", At(p), FALSE)
    BY <1>2, <1>4, <2>1, Places DEF AtRoot, Exchange
  <2>3. /\ staged' \in [1 .. MaxBackups -> [R -> Content \cup {Empty}]]
        /\ staged'[B(p)][At(p)] = backups[B(p)][At(p)]
    BY <1>2, <1>3, <1>5, <1>6 DEF Materialize, AtRoot
  <2>4. RestoreStands(p)'
    BY <1>1, <1>2, <1>4, <2>2, <2>3 DEF AtRoot, RestoreStands, JobAt, Moved, Ahead
  <2>5. ASSUME Unbroken'
        PROVE  HalfWay(p)'
    BY <1>1, <1>2, <1>4, <2>2, <2>5 DEF DInv, AtRoot, HalfWay, JobAt, Exchanged, Untouched, Exchange
  <2> QED
    BY <1>1, <1>2, <1>4, <1>5, <2>1, <2>3, <2>4, <2>5, Advance DEF AtRoot, Exchange
<1>7. CASE MaterializeFails(p)
  <2>1. staged' \in [1 .. MaxBackups -> [R -> Content \cup {Empty}]]
    <3>1. CASE staged' = [staged EXCEPT ![B(p)][At(p)] = Empty]
      BY <1>2, <1>3, <1>5, <3>1 DEF AtRoot
    <3> QED
      BY <1>5, <1>7, <3>1 DEF MaterializeFails
  <2> QED
    BY <1>1, <1>4, <1>7, <2>1, FailsHere DEF MaterializeFails
<1> QED
  BY <1>6, <1>7

\* The root is moved out of the way.
LEMMA MovesAside ==
    ASSUME CInv, DInv, NEW p \in Pids, MoveAside(p)
    PROVE  DInv'
<1>1. DiskTypes /\ RestoreStands(p) /\ Step(p) = "aside"
  BY DEF DInv, MoveAside, Works
<1>2. AtRoot(p)
  BY <1>1, AtSomeRoot DEF Exchange
<1>3. At(p) \in R
  BY <1>1, <1>2 DEF AtRoot, R
<1>4. UNCHANGED <<vars, version, backups, lock, fileFaults, staged>>
  BY DEF MoveAside
<1>5. /\ root \in [R -> Content] /\ fileFaults \subseteq FileFaults
      /\ staged \in [1 .. MaxBackups -> [R -> Content \cup {Empty}]]
      /\ aside \in [1 .. MaxBackups -> [R -> Content]]
  BY <1>1 DEF DiskTypes
<1>6. /\ root' \in [R -> Content]
      /\ staged' \in [1 .. MaxBackups -> [R -> Content \cup {Empty}]]
      /\ aside' \in [1 .. MaxBackups -> [R -> Content]]
      /\ root'[At(p)] = None /\ \A r \in R \ {At(p)} : root'[r] = root[r]
      /\ aside'[B(p)][At(p)] = root[At(p)]
      /\ \A r \in R \ {At(p)} : aside'[B(p)][r] = aside[B(p)][r]
  <2>1. None \in Content
    BY DEF Content
  <2>3. root' = [root EXCEPT ![At(p)] = None]
    BY DEF MoveAside
  <2>4. /\ root' \in [R -> Content] /\ root'[At(p)] = None
        /\ \A r \in R \ {At(p)} : root'[r] = root[r]
    BY <1>2, <1>3, <1>5, <2>1, <2>3 DEF AtRoot
  <2>5. aside' = [aside EXCEPT ![B(p)][At(p)] = root[At(p)]]
    BY DEF MoveAside
  <2>6. /\ aside' \in [1 .. MaxBackups -> [R -> Content]] /\ aside'[B(p)][At(p)] = root[At(p)]
        /\ \A r \in R \ {At(p)} : aside'[B(p)][r] = aside[B(p)][r]
    BY <1>2, <1>3, <1>5, <2>1, <2>5 DEF AtRoot
  <2> QED
    BY <1>4, <1>5, <2>4, <2>6
<1>7. JobGoes(p, "in", At(p), FALSE)
  BY <1>1, <1>2, JobShapes DEF AtRoot, Steps, Exchange, JobGoes, MoveAside
<1>8. JobAt(p, "in", At(p), FALSE)
  BY <1>2, <1>4, <1>7, Places DEF AtRoot, Exchange
<1>9. RestoreStands(p)'
  <2> SUFFICES ASSUME NEW r \in R
               PROVE  /\ job[p].from[r] \in {root'[r], aside'[B(p)][r]}
                      /\ Moved(p, r)' => aside'[B(p)][r] = job[p].from[r]
                      /\ Ahead(p, r)' => root'[r] = job[p].from[r]
                      /\ Step(p)' \notin {"aside", "in"} \/ r # At(p)'
                         \/ staged'[B(p)][r] = backups[B(p)][r]
    BY <1>4, <1>8 DEF RestoreStands, JobAt
  <2>1. r \in Nat /\ r > 0 /\ r <= Roots /\ At(p) \in Nat /\ Restores(p)
    BY <1>2 DEF AtRoot
  <2>2. CASE r = At(p)
    BY <1>1, <1>4, <1>6, <1>8, <2>1, <2>2 DEF RestoreStands, JobAt, Moved, Ahead
  <2>3. CASE r # At(p)
    BY <1>1, <1>4, <1>6, <1>8, <2>1, <2>3 DEF RestoreStands, JobAt, Moved, Ahead
  <2> QED
    BY <2>2, <2>3
<1>10. ASSUME Unbroken'
       PROVE  HalfWay(p)'
  <2>1. HalfWay(p) /\ Restores(p)
    BY <1>2, <1>4, <1>10 DEF DInv, AtRoot
  <2>2. Whole(job[p].from)
    BY <2>1 DEF HalfWay
  <2> SUFFICES ASSUME NEW r \in R
               PROVE  /\ Exchanged(p, r)' => root'[r] = backups[B(p)][r]
                      /\ Untouched(p, r)' => root'[r] = job[p].from[r]
    BY <1>4, <1>8, <2>2 DEF HalfWay, JobAt, Whole
  <2>3. r \in Nat /\ r > 0 /\ r <= Roots /\ At(p) \in Nat
    BY <1>2 DEF AtRoot
  <2>4. CASE r = At(p)
    BY <1>1, <1>4, <1>6, <1>8, <2>1, <2>3, <2>4
       DEF HalfWay, JobAt, Exchanged, Untouched, Exchange, RestoreStands, Moved
  <2>5. CASE r # At(p)
    BY <1>1, <1>4, <1>6, <1>8, <2>1, <2>3, <2>5
       DEF HalfWay, JobAt, Exchanged, Untouched, Exchange
  <2> QED
    BY <2>4, <2>5
<1>11. At(p) \in Nat /\ At(p) <= Roots /\ At(p) > 0 /\ Step(p) \in Exchange /\ Roots \in Nat
  BY <1>1, <1>2, <1>3 DEF AtRoot
<1>12. At(p) - 1 <= Roots /\ At(p) + 1 > 0
  BY <1>11
<1> QED
  BY <1>4, <1>5, <1>6, <1>7, <1>9, <1>10, <1>11, <1>12, Advance DEF Exchange

\* What was laid out takes the place of the root.
LEMMA MovesIn ==
    ASSUME CInv, DInv, NEW p \in Pids, MoveIn(p)
    PROVE  DInv'
<1>1. DiskTypes /\ RestoreStands(p) /\ Step(p) = "in"
  BY DEF DInv, MoveIn, Works
<1>2. AtRoot(p)
  BY <1>1, AtSomeRoot DEF Exchange
<1>3. At(p) \in R
  BY <1>1, <1>2 DEF AtRoot, R
<1>4. UNCHANGED <<vars, version, backups, lock, fileFaults, aside>>
  BY DEF MoveIn
<1>5. /\ root \in [R -> Content] /\ fileFaults \subseteq FileFaults
      /\ staged \in [1 .. MaxBackups -> [R -> Content \cup {Empty}]]
      /\ aside \in [1 .. MaxBackups -> [R -> Content]]
  BY <1>1 DEF DiskTypes
<1>6. /\ root' \in [R -> Content]
      /\ staged' \in [1 .. MaxBackups -> [R -> Content \cup {Empty}]]
      /\ aside' \in [1 .. MaxBackups -> [R -> Content]]
      /\ root'[At(p)] = staged[B(p)][At(p)] /\ \A r \in R \ {At(p)} : root'[r] = root[r]
  <2>1. None \in Content
    BY DEF Content
  <2>2. staged[B(p)][At(p)] \in Content
    BY <1>1, <1>2, <1>3 DEF RestoreStands, AtRoot
  <2>3. root' = [root EXCEPT ![At(p)] = staged[B(p)][At(p)]]
    BY DEF MoveIn
  <2>4. /\ root' \in [R -> Content] /\ root'[At(p)] = staged[B(p)][At(p)]
        /\ \A r \in R \ {At(p)} : root'[r] = root[r]
    BY <1>2, <1>3, <1>5, <2>1, <2>2, <2>3 DEF AtRoot
  <2>5. staged' = [staged EXCEPT ![B(p)][At(p)] = None]
    BY DEF MoveIn
  <2>6. staged' \in [1 .. MaxBackups -> [R -> Content \cup {Empty}]]
    BY <1>2, <1>3, <1>5, <2>1, <2>5 DEF AtRoot
  <2> QED
    BY <1>4, <1>5, <2>4, <2>6
<1>7. JobGoes(p, "stage", At(p) + 1, FALSE)
  BY <1>1, <1>2, JobShapes DEF AtRoot, Steps, Exchange, JobGoes, MoveIn
<1>8. JobAt(p, "stage", At(p) + 1, FALSE)
  BY <1>2, <1>4, <1>7, Places DEF AtRoot, Exchange
<1>9. RestoreStands(p)'
  <2> SUFFICES ASSUME NEW r \in R
               PROVE  /\ job[p].from[r] \in {root'[r], aside'[B(p)][r]}
                      /\ Moved(p, r)' => aside'[B(p)][r] = job[p].from[r]
                      /\ Ahead(p, r)' => root'[r] = job[p].from[r]
                      /\ Step(p)' \notin {"aside", "in"} \/ r # At(p)'
                         \/ staged'[B(p)][r] = backups[B(p)][r]
    BY <1>4, <1>8 DEF RestoreStands, JobAt
  <2>1. r \in Nat /\ r > 0 /\ r <= Roots /\ At(p) \in Nat /\ Restores(p)
    BY <1>2 DEF AtRoot
  <2>2. CASE r = At(p)
    BY <1>1, <1>4, <1>6, <1>8, <2>1, <2>2 DEF RestoreStands, JobAt, Moved, Ahead
  <2>3. CASE r # At(p)
    BY <1>1, <1>4, <1>6, <1>8, <2>1, <2>3 DEF RestoreStands, JobAt, Moved, Ahead
  <2> QED
    BY <2>2, <2>3
<1>10. ASSUME Unbroken'
       PROVE  HalfWay(p)'
  <2>1. HalfWay(p) /\ Restores(p)
    BY <1>2, <1>4, <1>10 DEF DInv, AtRoot
  <2>2. Whole(job[p].from)
    BY <2>1 DEF HalfWay
  <2> SUFFICES ASSUME NEW r \in R
               PROVE  /\ Exchanged(p, r)' => root'[r] = backups[B(p)][r]
                      /\ Untouched(p, r)' => root'[r] = job[p].from[r]
    BY <1>4, <1>8, <2>2 DEF HalfWay, JobAt, Whole
  <2>3. r \in Nat /\ r > 0 /\ r <= Roots /\ At(p) \in Nat
    BY <1>2 DEF AtRoot
  <2>4. CASE r = At(p)
    BY <1>1, <1>4, <1>6, <1>8, <2>1, <2>3, <2>4
       DEF HalfWay, JobAt, Exchanged, Untouched, Exchange, RestoreStands, Moved
  <2>5. CASE r # At(p)
    BY <1>1, <1>4, <1>6, <1>8, <2>1, <2>3, <2>5
       DEF HalfWay, JobAt, Exchanged, Untouched, Exchange
  <2> QED
    BY <2>4, <2>5
<1>11. At(p) \in Nat /\ At(p) <= Roots /\ At(p) > 0 /\ Step(p) \in Exchange /\ Roots \in Nat
  BY <1>1, <1>2, <1>3 DEF AtRoot
<1>12. At(p) - 1 <= Roots /\ At(p) + 1 > 0
  BY <1>11
<1> QED
  BY <1>4, <1>5, <1>6, <1>7, <1>9, <1>10, <1>11, <1>12, Advance DEF Exchange

\* The exchange of this root failed: the previous one comes back.
LEMMA MovesBack ==
    ASSUME CInv, DInv, NEW p \in Pids, MoveBack(p)
    PROVE  DInv'
<1>1. DiskTypes /\ RestoreStands(p) /\ Step(p) = "back"
  BY DEF DInv, MoveBack, Works
<1>2. AtRoot(p)
  BY <1>1, AtSomeRoot DEF Exchange
<1>3. At(p) \in R
  BY <1>1, <1>2 DEF AtRoot, R
<1>4. UNCHANGED <<vars, version, backups, lock, fileFaults, staged>>
  BY DEF MoveBack
<1>5. /\ root \in [R -> Content] /\ fileFaults \subseteq FileFaults
      /\ staged \in [1 .. MaxBackups -> [R -> Content \cup {Empty}]]
      /\ aside \in [1 .. MaxBackups -> [R -> Content]]
  BY <1>1 DEF DiskTypes
<1>6. /\ root' \in [R -> Content]
      /\ staged' \in [1 .. MaxBackups -> [R -> Content \cup {Empty}]]
      /\ aside' \in [1 .. MaxBackups -> [R -> Content]]
      /\ root'[At(p)] = aside[B(p)][At(p)] /\ \A r \in R \ {At(p)} : root'[r] = root[r]
      /\ aside'[B(p)][At(p)] = None
      /\ \A r \in R \ {At(p)} : aside'[B(p)][r] = aside[B(p)][r]
  <2>1. None \in Content
    BY DEF Content
  <2>3. root' = [root EXCEPT ![At(p)] = aside[B(p)][At(p)]]
    BY DEF MoveBack
  <2>4. /\ root' \in [R -> Content] /\ root'[At(p)] = aside[B(p)][At(p)]
        /\ \A r \in R \ {At(p)} : root'[r] = root[r]
    BY <1>2, <1>3, <1>5, <2>1, <2>3 DEF AtRoot
  <2>5. aside' = [aside EXCEPT ![B(p)][At(p)] = None]
    BY DEF MoveBack
  <2>6. /\ aside' \in [1 .. MaxBackups -> [R -> Content]] /\ aside'[B(p)][At(p)] = None
        /\ \A r \in R \ {At(p)} : aside'[B(p)][r] = aside[B(p)][r]
    BY <1>2, <1>3, <1>5, <2>1, <2>5 DEF AtRoot
  <2> QED
    BY <1>4, <1>5, <2>4, <2>6
<1>7. JobGoes(p, "undo", At(p) - 1, FALSE)
  <2>1. JobGoes(p, "undo", At(p) - 1, job[p].done)
    BY <1>1, <1>2, JobShapes DEF AtRoot, MoveBack
  <2> QED
    BY <1>2, <2>1 DEF AtRoot, JobGoes
<1>8. JobAt(p, "undo", At(p) - 1, FALSE)
  BY <1>2, <1>4, <1>7, Places DEF AtRoot, Exchange
<1>9. RestoreStands(p)'
  <2> SUFFICES ASSUME NEW r \in R
               PROVE  /\ job[p].from[r] \in {root'[r], aside'[B(p)][r]}
                      /\ Moved(p, r)' => aside'[B(p)][r] = job[p].from[r]
                      /\ Ahead(p, r)' => root'[r] = job[p].from[r]
                      /\ Step(p)' \notin {"aside", "in"} \/ r # At(p)'
                         \/ staged'[B(p)][r] = backups[B(p)][r]
    BY <1>4, <1>8 DEF RestoreStands, JobAt
  <2>1. r \in Nat /\ r > 0 /\ r <= Roots /\ At(p) \in Nat /\ Restores(p)
    BY <1>2 DEF AtRoot
  <2>2. CASE r = At(p)
    BY <1>1, <1>4, <1>6, <1>8, <2>1, <2>2 DEF RestoreStands, JobAt, Moved, Ahead
  <2>3. CASE r # At(p)
    BY <1>1, <1>4, <1>6, <1>8, <2>1, <2>3 DEF RestoreStands, JobAt, Moved, Ahead
  <2> QED
    BY <2>2, <2>3
<1>10. ASSUME Unbroken'
       PROVE  HalfWay(p)'
  <2>1. HalfWay(p) /\ Restores(p)
    BY <1>2, <1>4, <1>10 DEF DInv, AtRoot
  <2>2. Whole(job[p].from)
    BY <2>1 DEF HalfWay
  <2> SUFFICES ASSUME NEW r \in R
               PROVE  /\ Exchanged(p, r)' => root'[r] = backups[B(p)][r]
                      /\ Untouched(p, r)' => root'[r] = job[p].from[r]
    BY <1>4, <1>8, <2>2 DEF HalfWay, JobAt, Whole
  <2>3. r \in Nat /\ r > 0 /\ r <= Roots /\ At(p) \in Nat
    BY <1>2 DEF AtRoot
  <2>4. CASE r = At(p)
    BY <1>1, <1>4, <1>6, <1>8, <2>1, <2>3, <2>4
       DEF HalfWay, JobAt, Exchanged, Untouched, Exchange, RestoreStands, Moved
  <2>5. CASE r # At(p)
    BY <1>1, <1>4, <1>6, <1>8, <2>1, <2>3, <2>5
       DEF HalfWay, JobAt, Exchanged, Untouched, Exchange
  <2> QED
    BY <2>4, <2>5
<1>11. At(p) \in Nat /\ At(p) <= Roots /\ At(p) > 0 /\ Step(p) \in Exchange /\ Roots \in Nat
  BY <1>1, <1>2, <1>3 DEF AtRoot
<1>12. At(p) - 1 <= Roots /\ At(p) + 1 > 0
  BY <1>11
<1> QED
  BY <1>4, <1>5, <1>6, <1>7, <1>9, <1>10, <1>11, <1>12, Advance DEF Exchange

\* A root that was exchanged before is taken out again.
LEMMA UndoesOut ==
    ASSUME CInv, DInv, NEW p \in Pids, UndoOut(p)
    PROVE  DInv'
<1>1. DiskTypes /\ RestoreStands(p) /\ Step(p) = "undo" /\ At(p) > 0
  BY DEF DInv, UndoOut, Works
<1>2. AtRoot(p)
  BY <1>1, AtSomeRoot DEF Exchange
<1>3. At(p) \in R /\ At(p) <= Roots
  BY <1>1, <1>2 DEF AtRoot, R
<1>4. UNCHANGED <<vars, version, backups, lock, fileFaults, aside>>
  BY DEF UndoOut
<1>5. /\ root \in [R -> Content] /\ fileFaults \subseteq FileFaults
      /\ staged \in [1 .. MaxBackups -> [R -> Content \cup {Empty}]]
      /\ aside \in [1 .. MaxBackups -> [R -> Content]]
  BY <1>1 DEF DiskTypes
<1>6. /\ root' \in [R -> Content]
      /\ staged' \in [1 .. MaxBackups -> [R -> Content \cup {Empty}]]
      /\ aside' \in [1 .. MaxBackups -> [R -> Content]]
      /\ root'[At(p)] = None /\ \A r \in R \ {At(p)} : root'[r] = root[r]
  <2>1. None \in Content
    BY DEF Content
  <2>3. root' = [root EXCEPT ![At(p)] = None]
    BY DEF UndoOut
  <2>4. /\ root' \in [R -> Content] /\ root'[At(p)] = None
        /\ \A r \in R \ {At(p)} : root'[r] = root[r]
    BY <1>2, <1>3, <1>5, <2>1, <2>3 DEF AtRoot
  <2>5. staged' = [staged EXCEPT ![B(p)][At(p)] = root[At(p)]]
    BY DEF UndoOut
  <2>6. staged' \in [1 .. MaxBackups -> [R -> Content \cup {Empty}]]
    BY <1>2, <1>3, <1>5, <2>1, <2>5 DEF AtRoot
  <2> QED
    BY <1>4, <1>5, <2>4, <2>6
<1>7. JobGoes(p, "undoback", At(p), FALSE)
  BY <1>1, <1>2, JobShapes DEF AtRoot, Steps, Exchange, JobGoes, UndoOut
<1>8. JobAt(p, "undoback", At(p), FALSE)
  BY <1>2, <1>4, <1>7, Places DEF AtRoot, Exchange
<1>9. RestoreStands(p)'
  <2> SUFFICES ASSUME NEW r \in R
               PROVE  /\ job[p].from[r] \in {root'[r], aside'[B(p)][r]}
                      /\ Moved(p, r)' => aside'[B(p)][r] = job[p].from[r]
                      /\ Ahead(p, r)' => root'[r] = job[p].from[r]
                      /\ Step(p)' \notin {"aside", "in"} \/ r # At(p)'
                         \/ staged'[B(p)][r] = backups[B(p)][r]
    BY <1>4, <1>8 DEF RestoreStands, JobAt
  <2>1. r \in Nat /\ r > 0 /\ r <= Roots /\ At(p) \in Nat /\ Restores(p)
    BY <1>2 DEF AtRoot
  <2>2. CASE r = At(p)
    BY <1>1, <1>4, <1>6, <1>8, <2>1, <2>2 DEF RestoreStands, JobAt, Moved, Ahead
  <2>3. CASE r # At(p)
    BY <1>1, <1>4, <1>6, <1>8, <2>1, <2>3 DEF RestoreStands, JobAt, Moved, Ahead
  <2> QED
    BY <2>2, <2>3
<1>10. ASSUME Unbroken'
       PROVE  HalfWay(p)'
  <2>1. HalfWay(p) /\ Restores(p)
    BY <1>2, <1>4, <1>10 DEF DInv, AtRoot
  <2>2. Whole(job[p].from)
    BY <2>1 DEF HalfWay
  <2> SUFFICES ASSUME NEW r \in R
               PROVE  /\ Exchanged(p, r)' => root'[r] = backups[B(p)][r]
                      /\ Untouched(p, r)' => root'[r] = job[p].from[r]
    BY <1>4, <1>8, <2>2 DEF HalfWay, JobAt, Whole
  <2>3. r \in Nat /\ r > 0 /\ r <= Roots /\ At(p) \in Nat
    BY <1>2 DEF AtRoot
  <2>4. CASE r = At(p)
    BY <1>1, <1>4, <1>6, <1>8, <2>1, <2>3, <2>4
       DEF HalfWay, JobAt, Exchanged, Untouched, Exchange, RestoreStands, Moved
  <2>5. CASE r # At(p)
    BY <1>1, <1>4, <1>6, <1>8, <2>1, <2>3, <2>5
       DEF HalfWay, JobAt, Exchanged, Untouched, Exchange
  <2> QED
    BY <2>4, <2>5
<1>11. At(p) \in Nat /\ At(p) <= Roots /\ At(p) > 0 /\ Step(p) \in Exchange /\ Roots \in Nat
  BY <1>1, <1>2, <1>3 DEF AtRoot
<1>12. At(p) - 1 <= Roots /\ At(p) + 1 > 0
  BY <1>11
<1> QED
  BY <1>4, <1>5, <1>6, <1>7, <1>9, <1>10, <1>11, <1>12, Advance DEF Exchange

\* Its previous content comes back.
LEMMA UndoesBack ==
    ASSUME CInv, DInv, NEW p \in Pids, UndoBack(p)
    PROVE  DInv'
<1>1. DiskTypes /\ RestoreStands(p) /\ Step(p) = "undoback"
  BY DEF DInv, UndoBack, Works
<1>2. AtRoot(p)
  BY <1>1, AtSomeRoot DEF Exchange
<1>3. At(p) \in R
  BY <1>1, <1>2 DEF AtRoot, R
<1>4. UNCHANGED <<vars, version, backups, lock, fileFaults, staged>>
  BY DEF UndoBack
<1>5. /\ root \in [R -> Content] /\ fileFaults \subseteq FileFaults
      /\ staged \in [1 .. MaxBackups -> [R -> Content \cup {Empty}]]
      /\ aside \in [1 .. MaxBackups -> [R -> Content]]
  BY <1>1 DEF DiskTypes
<1>6. /\ root' \in [R -> Content]
      /\ staged' \in [1 .. MaxBackups -> [R -> Content \cup {Empty}]]
      /\ aside' \in [1 .. MaxBackups -> [R -> Content]]
      /\ root'[At(p)] = aside[B(p)][At(p)] /\ \A r \in R \ {At(p)} : root'[r] = root[r]
      /\ aside'[B(p)][At(p)] = None
      /\ \A r \in R \ {At(p)} : aside'[B(p)][r] = aside[B(p)][r]
  <2>1. None \in Content
    BY DEF Content
  <2>3. root' = [root EXCEPT ![At(p)] = aside[B(p)][At(p)]]
    BY DEF UndoBack
  <2>4. /\ root' \in [R -> Content] /\ root'[At(p)] = aside[B(p)][At(p)]
        /\ \A r \in R \ {At(p)} : root'[r] = root[r]
    BY <1>2, <1>3, <1>5, <2>1, <2>3 DEF AtRoot
  <2>5. aside' = [aside EXCEPT ![B(p)][At(p)] = None]
    BY DEF UndoBack
  <2>6. /\ aside' \in [1 .. MaxBackups -> [R -> Content]] /\ aside'[B(p)][At(p)] = None
        /\ \A r \in R \ {At(p)} : aside'[B(p)][r] = aside[B(p)][r]
    BY <1>2, <1>3, <1>5, <2>1, <2>5 DEF AtRoot
  <2> QED
    BY <1>4, <1>5, <2>4, <2>6
<1>7. JobGoes(p, "undorm", At(p), FALSE)
  BY <1>1, <1>2, JobShapes DEF AtRoot, Steps, Exchange, JobGoes, UndoBack
<1>8. JobAt(p, "undorm", At(p), FALSE)
  BY <1>2, <1>4, <1>7, Places DEF AtRoot, Exchange
<1>9. RestoreStands(p)'
  <2> SUFFICES ASSUME NEW r \in R
               PROVE  /\ job[p].from[r] \in {root'[r], aside'[B(p)][r]}
                      /\ Moved(p, r)' => aside'[B(p)][r] = job[p].from[r]
                      /\ Ahead(p, r)' => root'[r] = job[p].from[r]
                      /\ Step(p)' \notin {"aside", "in"} \/ r # At(p)'
                         \/ staged'[B(p)][r] = backups[B(p)][r]
    BY <1>4, <1>8 DEF RestoreStands, JobAt
  <2>1. r \in Nat /\ r > 0 /\ r <= Roots /\ At(p) \in Nat /\ Restores(p)
    BY <1>2 DEF AtRoot
  <2>2. CASE r = At(p)
    BY <1>1, <1>4, <1>6, <1>8, <2>1, <2>2 DEF RestoreStands, JobAt, Moved, Ahead
  <2>3. CASE r # At(p)
    BY <1>1, <1>4, <1>6, <1>8, <2>1, <2>3 DEF RestoreStands, JobAt, Moved, Ahead
  <2> QED
    BY <2>2, <2>3
<1>10. ASSUME Unbroken'
       PROVE  HalfWay(p)'
  <2>1. HalfWay(p) /\ Restores(p)
    BY <1>2, <1>4, <1>10 DEF DInv, AtRoot
  <2>2. Whole(job[p].from)
    BY <2>1 DEF HalfWay
  <2> SUFFICES ASSUME NEW r \in R
               PROVE  /\ Exchanged(p, r)' => root'[r] = backups[B(p)][r]
                      /\ Untouched(p, r)' => root'[r] = job[p].from[r]
    BY <1>4, <1>8, <2>2 DEF HalfWay, JobAt, Whole
  <2>3. r \in Nat /\ r > 0 /\ r <= Roots /\ At(p) \in Nat
    BY <1>2 DEF AtRoot
  <2>4. CASE r = At(p)
    BY <1>1, <1>4, <1>6, <1>8, <2>1, <2>3, <2>4
       DEF HalfWay, JobAt, Exchanged, Untouched, Exchange, RestoreStands, Moved
  <2>5. CASE r # At(p)
    BY <1>1, <1>4, <1>6, <1>8, <2>1, <2>3, <2>5
       DEF HalfWay, JobAt, Exchanged, Untouched, Exchange
  <2> QED
    BY <2>4, <2>5
<1>11. At(p) \in Nat /\ At(p) <= Roots /\ At(p) > 0 /\ Step(p) \in Exchange /\ Roots \in Nat
  BY <1>1, <1>2, <1>3 DEF AtRoot
<1>12. At(p) - 1 <= Roots /\ At(p) + 1 > 0
  BY <1>11
<1> QED
  BY <1>4, <1>5, <1>6, <1>7, <1>9, <1>10, <1>11, <1>12, Advance DEF Exchange

\* What had been moved in is deleted.
LEMMA UndoesRemove ==
    ASSUME CInv, DInv, NEW p \in Pids, UndoRemove(p)
    PROVE  DInv'
<1>1. DiskTypes /\ RestoreStands(p) /\ Step(p) = "undorm"
  BY DEF DInv, UndoRemove, Works
<1>2. AtRoot(p)
  BY <1>1, AtSomeRoot DEF Exchange
<1>3. At(p) \in R
  BY <1>1, <1>2 DEF AtRoot, R
<1>4. UNCHANGED <<vars, version, backups, lock, fileFaults, root, aside>>
  BY DEF UndoRemove
<1>5. /\ root \in [R -> Content] /\ fileFaults \subseteq FileFaults
      /\ staged \in [1 .. MaxBackups -> [R -> Content \cup {Empty}]]
      /\ aside \in [1 .. MaxBackups -> [R -> Content]]
  BY <1>1 DEF DiskTypes
<1>6. /\ root' \in [R -> Content]
      /\ staged' \in [1 .. MaxBackups -> [R -> Content \cup {Empty}]]
      /\ aside' \in [1 .. MaxBackups -> [R -> Content]]
  <2>1. None \in Content
    BY DEF Content
  <2>3. staged' = [staged EXCEPT ![B(p)][At(p)] = None]
    BY DEF UndoRemove
  <2>4. staged' \in [1 .. MaxBackups -> [R -> Content \cup {Empty}]]
    BY <1>2, <1>3, <1>5, <2>1, <2>3 DEF AtRoot
  <2> QED
    BY <1>4, <1>5, <2>4
<1>7. JobGoes(p, "undo", At(p) - 1, FALSE)
  BY <1>1, <1>2, JobShapes DEF AtRoot, Steps, Exchange, JobGoes, UndoRemove
<1>8. JobAt(p, "undo", At(p) - 1, FALSE)
  BY <1>2, <1>4, <1>7, Places DEF AtRoot, Exchange
<1>9. RestoreStands(p)'
  <2> SUFFICES ASSUME NEW r \in R
               PROVE  /\ job[p].from[r] \in {root'[r], aside'[B(p)][r]}
                      /\ Moved(p, r)' => aside'[B(p)][r] = job[p].from[r]
                      /\ Ahead(p, r)' => root'[r] = job[p].from[r]
                      /\ Step(p)' \notin {"aside", "in"} \/ r # At(p)'
                         \/ staged'[B(p)][r] = backups[B(p)][r]
    BY <1>4, <1>8 DEF RestoreStands, JobAt
  <2>1. r \in Nat /\ r > 0 /\ r <= Roots /\ At(p) \in Nat /\ Restores(p)
    BY <1>2 DEF AtRoot
  <2>2. CASE r = At(p)
    BY <1>1, <1>4, <1>6, <1>8, <2>1, <2>2 DEF RestoreStands, JobAt, Moved, Ahead
  <2>3. CASE r # At(p)
    BY <1>1, <1>4, <1>6, <1>8, <2>1, <2>3 DEF RestoreStands, JobAt, Moved, Ahead
  <2> QED
    BY <2>2, <2>3
<1>10. ASSUME Unbroken'
       PROVE  HalfWay(p)'
  <2>1. HalfWay(p) /\ Restores(p)
    BY <1>2, <1>4, <1>10 DEF DInv, AtRoot
  <2>2. Whole(job[p].from)
    BY <2>1 DEF HalfWay
  <2> SUFFICES ASSUME NEW r \in R
               PROVE  /\ Exchanged(p, r)' => root'[r] = backups[B(p)][r]
                      /\ Untouched(p, r)' => root'[r] = job[p].from[r]
    BY <1>4, <1>8, <2>2 DEF HalfWay, JobAt, Whole
  <2>3. r \in Nat /\ r > 0 /\ r <= Roots /\ At(p) \in Nat
    BY <1>2 DEF AtRoot
  <2>4. CASE r = At(p)
    BY <1>1, <1>4, <1>6, <1>8, <2>1, <2>3, <2>4
       DEF HalfWay, JobAt, Exchanged, Untouched, Exchange, RestoreStands, Moved
  <2>5. CASE r # At(p)
    BY <1>1, <1>4, <1>6, <1>8, <2>1, <2>3, <2>5
       DEF HalfWay, JobAt, Exchanged, Untouched, Exchange
  <2> QED
    BY <2>4, <2>5
<1>11. At(p) \in Nat /\ At(p) <= Roots /\ At(p) > 0 /\ Step(p) \in Exchange /\ Roots \in Nat
  BY <1>1, <1>2, <1>3 DEF AtRoot
<1>12. At(p) - 1 <= Roots /\ At(p) + 1 > 0
  BY <1>11
<1> QED
  BY <1>4, <1>5, <1>6, <1>7, <1>9, <1>10, <1>11, <1>12, Advance DEF Exchange

-----------------------------------------------------------------------------
(* Copies, writes, and the coordination beside them                        *)

\* Others do not move whoever holds the guard.
LEMMA GuardStands ==
    ASSUME TypeOK, NEW p \in Pids, Coordinates(p)
    PROVE  \A q \in Pids : Pc(q) = "guarding" =>
               proc'[q].pc = "guarding" /\ proc'[q].kind = proc[q].kind
<1>1. proc \in [Pids -> Process]
  BY DEF TypeOK
<1>2. Pc(p) # "guarding"
  BY DEF Coordinates, Acquire, Deadline, Stop, Serves, Start, Publish, Collide, ReadOwner,
         ReadNothing, Judge, Wait, RemoveOwner, RemoveGate, List, Sweep, Refuse, WriteLease,
         Guard, Swept, ReleaseOwner, ReleaseGate
<1> SUFFICES ASSUME NEW q \in Pids, q # p
             PROVE  proc'[q].pc = proc[q].pc /\ proc'[q].kind = proc[q].kind
  BY <1>2 DEF Pc
<1>3. CASE WriteLease(p)
  <2>1. proc[q] \in Process
    BY <1>1
  <2>2. proc'[q] = [proc[q] EXCEPT !.met = proc[q].met \/ proc[q].pc \in Acquiring]
    BY <1>3 DEF WriteLease
  <2> QED
    BY <2>1, <2>2 DEF Process
<1>4. CASE Deadline(p) \/ Stop(p) \/ \E kind \in Kinds : Start(p, kind)
  BY <1>1, <1>4 DEF Deadline, Stop, Start, Ends
<1>5. CASE Publish(p) \/ Collide(p) \/ ReadOwner(p) \/ ReadNothing(p) \/ Judge(p) \/ Wait(p)
             \/ RemoveOwner(p) \/ RemoveGate(p)
  BY <1>1, <1>5 DEF Publish, Collide, ReadOwner, ReadNothing, Judge, Wait, RemoveOwner, RemoveGate,
                    To, Judged, Ends
<1>6. CASE List(p) \/ Sweep(p) \/ Refuse(p) \/ Guard(p) \/ ReleaseOwner(p) \/ ReleaseGate(p)
  BY <1>1, <1>6 DEF List, Sweep, Refuse, Guard, ReleaseOwner, ReleaseGate, To, Leaves, Ends
<1> QED
  BY <1>3, <1>4, <1>5, <1>6 DEF Coordinates, Acquire

LEMMA Beside ==
    ASSUME CInv, DInv, UNCHANGED <<disk, job, fileFaults>>,
           \A q \in Pids : Step(q) # "idle" =>
               proc'[q].pc = "guarding" /\ proc'[q].kind = proc[q].kind
    PROVE  DInv'
<1>1. /\ UNCHANGED <<version, root, backups, staged, aside, lock, job, fileFaults>>
      /\ \A q \in Pids : Step(q)' = Step(q) /\ At(q)' = At(q) /\ B(q)' = B(q)
  BY DEF disk, Step, At, B
<1>2. \A q \in Pids : Restores(q)' <=> Restores(q)
  BY <1>1 DEF Restores
<1>3. DiskTypes'
  BY <1>1 DEF DInv, DiskTypes
<1>4. ASSUME NEW q \in Pids
      PROVE  JobStands(q)' /\ RestoreStands(q)' /\ CopyStands(q)'
  <2>1. JobStands(q) /\ RestoreStands(q) /\ CopyStands(q)
    BY DEF DInv
  <2>2. JobStands(q)'
    BY <1>1, <1>2, <2>1 DEF JobStands, Pc, Exchange
  <2>3. RestoreStands(q)'
    BY <1>1, <1>2, <2>1 DEF RestoreStands, Moved, Ahead
  <2>4. CopyStands(q)'
    BY <1>1, <2>1 DEF CopyStands
  <2> QED
    BY <2>2, <2>3, <2>4
<1>5. ASSUME Unbroken'
      PROVE  BackupsWhole' /\ RootsWhole' /\ \A q \in Pids : HalfWay(q)'
  BY <1>1, <1>2, <1>5 DEF DInv, BackupsWhole, RootsWhole, HalfWay, Whole, Exchanged, Untouched
<1> QED
  BY <1>3, <1>4, <1>5 DEF DInv

LEMMA NoLocks ==
    ASSUME CInv, DInv, NEW p \in Pids, NoLock(p)
    PROVE  DInv'
<1>1. Step(p) = "idle" /\ UNCHANGED <<disk, job, fileFaults>> /\ proc' = To(p, "releasing")
  BY DEF NoLock, Works, EndGuarded
<1>2. \A q \in Pids : Step(q) # "idle" => Pc(q) = "guarding" /\ q # p
  BY <1>1 DEF DInv, JobStands
<1>3. proc \in [Pids -> Process]
  BY DEF CInv, TypeOK
<1> QED
  BY <1>1, <1>2, <1>3, Beside DEF To, Pc

LEMMA CoordinationBeside ==
    ASSUME CInv, DInv, NEW p \in Pids, Coordinates(p)
    PROVE  DInv'
<1>1. \A q \in Pids : Step(q) # "idle" => Pc(q) = "guarding"
  BY DEF DInv, JobStands
<1>2. UNCHANGED <<disk, job, fileFaults>>
  BY DEF Coordinates
<1> QED
  BY <1>1, <1>2, GuardStands, Beside DEF CInv

\* A step after which nobody works: p ends its work, if it had any, or writes.
LEMMA AllIdle ==
    ASSUME DInv, NEW p \in Pids, DiskTypes', UNCHANGED backups,
           \A q \in Pids : Step(q)' = "idle" /\ JobStands(q)',
           Unbroken' => Whole(root'), fileFaults \subseteq fileFaults'
    PROVE  DInv'
<1>1. \A q \in Pids : RestoreStands(q)' /\ CopyStands(q)' /\ HalfWay(q)'
  BY DEF RestoreStands, CopyStands, HalfWay, Restores
<1>2. Unbroken' => BackupsWhole' /\ RootsWhole'
  BY DEF DInv, BackupsWhole, RootsWhole, Whole
<1> QED
  BY <1>1, <1>2 DEF DInv

LEMMA RuntimeWrites ==
    ASSUME CInv, DInv, NEW p \in Pids, Write(p)
    PROVE  DInv'
<1>1. /\ Serves(p) /\ version < MaxVersion /\ version' = version + 1
      /\ root' = [r \in R |-> version + 1]
      /\ UNCHANGED <<backups, staged, aside, lock, job, fileFaults>>
  BY DEF Write
<1>2. \A q \in Pids : Step(q) = "idle"
  BY <1>1 DEF DInv, JobStands, CInv, Accounted, HasLease
<1>3. version + 1 \in 0 .. MaxVersion /\ None \notin 0 .. MaxVersion
  BY <1>1, BackupAssumption DEF DInv, DiskTypes
<1>4. DiskTypes'
  BY <1>1, <1>3 DEF DInv, DiskTypes, Content
<1>5. Whole(root')
  BY <1>1, <1>3 DEF Whole
<1>6. \A q \in Pids : Step(q)' = "idle" /\ JobStands(q)'
  BY <1>1, <1>2, Rests DEF DInv, Step
<1> QED
  BY <1>1, <1>4, <1>5, <1>6, AllIdle

\* The job of p is over.
LEMMA JobEnds ==
    ASSUME DiskTypes, NEW p \in Pids, job' = [job EXCEPT ![p] = Idle]
    PROVE  /\ job' \in [Pids -> Job] /\ \A q \in Pids \ {p} : job'[q] = job[q]
           /\ Step(p)' = "idle" /\ JobStands(p)' /\ ~Restores(p)'
<1>1. Idle \in Job /\ Idle.step = "idle" /\ Idle.of = 0 /\ ~Idle.done
  BY BackupAssumption DEF Idle, Job, Nothing, Content
<1>2. job' \in [Pids -> Job] /\ job'[p] = Idle /\ \A q \in Pids \ {p} : job'[q] = job[q]
  BY <1>1 DEF DiskTypes
<1> HIDE DEF Idle
<1>3. Step(p)' = "idle" /\ B(p)' = 0 /\ ~Restores(p)' /\ ~(job[p].done)'
  BY <1>1, <1>2 DEF Step, B, Restores
<1> QED
  BY <1>2, <1>3 DEF JobStands, Exchange

LEMMA Unlocks ==
    ASSUME CInv, DInv, NEW p \in Pids, Unlock(p)
    PROVE  DInv'
<1>1. /\ Step(p) = "unlock" /\ lock' = FALSE /\ job' = [job EXCEPT ![p] = Idle]
      /\ UNCHANGED <<version, root, backups, staged, aside, fileFaults>>
  BY DEF Unlock, Works
<1>2. \A q \in Pids : q # p => Step(q) = "idle"
  BY <1>1, WorksAlone
<1>3. /\ job' \in [Pids -> Job] /\ \A q \in Pids : Step(q)' = "idle" /\ JobStands(q)'
  BY <1>1, <1>2, JobEnds, Rests DEF DInv, Step
<1>4. DiskTypes'
  BY <1>1, <1>3 DEF DInv, DiskTypes
<1>5. Unbroken => Whole(root)
  BY <1>1, <1>2 DEF DInv, RootsWhole, Restores
<1> QED
  BY <1>1, <1>3, <1>4, <1>5, AllIdle

LEMMA Deaths ==
    ASSUME CInv, DInv, NEW p \in Pids, Dies(p)
    PROVE  DInv'
<1>1. /\ proc' = Ends(p) /\ job' = [job EXCEPT ![p] = Idle]
      /\ UNCHANGED <<version, root, backups, staged, aside, lock>>
      /\ fileFaults \subseteq fileFaults' /\ fileFaults' \subseteq FileFaults
      /\ Unbroken' => Unbroken /\ Whole(root)
  BY DEF Dies, Crash, FileFault, disk, DInv, DiskTypes
<1>2. /\ job' \in [Pids -> Job] /\ Step(p)' = "idle" /\ JobStands(p)'
      /\ \A q \in Pids \ {p} : job'[q] = job[q] /\ proc'[q] = proc[q]
  BY <1>1, JobEnds DEF DInv, CInv, TypeOK, Ends
<1>3. DiskTypes'
  BY <1>1, <1>2 DEF DInv, DiskTypes
<1>4. ASSUME NEW q \in Pids
      PROVE  JobStands(q)' /\ RestoreStands(q)' /\ CopyStands(q)'
             /\ (Unbroken' => HalfWay(q)')
  <2>1. CASE q = p
    BY <1>2, <2>1 DEF RestoreStands, CopyStands, HalfWay, Restores
  <2>2. CASE q # p
    <3>1. JobStands(q) /\ RestoreStands(q) /\ CopyStands(q)
          /\ (Unbroken' => HalfWay(q))
      BY <1>1 DEF DInv
    <3>2. /\ Step(q)' = Step(q) /\ At(q)' = At(q) /\ B(q)' = B(q) /\ Pc(q)' = Pc(q)
          /\ job'[q] = job[q] /\ proc'[q] = proc[q] /\ (Restores(q)' <=> Restores(q))
      BY <1>2, <2>2 DEF Step, At, B, Pc, Restores
    <3>3. JobStands(q)'
      BY <1>1, <3>1, <3>2 DEF JobStands
    <3>4. RestoreStands(q)'
      BY <1>1, <3>1, <3>2 DEF RestoreStands, Moved, Ahead
    <3>5. CopyStands(q)'
      BY <1>1, <3>1, <3>2 DEF CopyStands
    <3>6. Unbroken' => HalfWay(q)'
      BY <1>1, <3>1, <3>2 DEF HalfWay, Exchanged, Untouched, Whole
    <3> QED
      BY <3>3, <3>4, <3>5, <3>6
  <2> QED
    BY <2>1, <2>2
<1>5. Unbroken' => BackupsWhole' /\ RootsWhole'
  BY <1>1 DEF DInv, BackupsWhole, RootsWhole, Whole
<1> QED
  BY <1>3, <1>4, <1>5 DEF DInv

\* A backup goes on: what remains to be shown of it.
LEMMA BackupGoes ==
    ASSUME CInv, DInv, NEW p \in Pids, Pc(p) = "guarding", proc[p].kind = "backup",
           UNCHANGED <<vars, root>>, DiskTypes', \A q \in Pids \ {p} : job'[q] = job[q],
           fileFaults \subseteq fileFaults', JobStands(p)', CopyStands(p)',
           Unbroken' => BackupsWhole'
    PROVE  DInv'
<1>1. \A q \in Pids : q # p => Step(q) = "idle" /\ Step(q)' = "idle"
  BY WorksAlone DEF Step
<1>2. \A q \in Pids : ~Restores(q) /\ ~Restores(q)'
  BY <1>1 DEF Restores, vars
<1>3. ASSUME NEW q \in Pids
      PROVE  JobStands(q)' /\ RestoreStands(q)' /\ CopyStands(q)' /\ HalfWay(q)'
  <2>1. CASE q = p
    BY <1>2, <2>1 DEF RestoreStands, HalfWay
  <2>2. CASE q # p
    BY <1>1, <2>2, Rests DEF DInv
  <2> QED
    BY <2>1, <2>2
<1>4. Unbroken' => RootsWhole'
  BY <1>2 DEF DInv, RootsWhole, Whole
<1> QED
  BY <1>3, <1>4 DEF DInv

LEMMA Copies ==
    ASSUME CInv, DInv, NEW p \in Pids, CopyRoot(p) \/ CopyFails(p) \/ PublishBackup(p)
    PROVE  DInv'
<1>1. Step(p) = "copy" /\ DiskTypes /\ JobStands(p) /\ CopyStands(p) /\ UNCHANGED <<vars, root>>
  BY DEF CopyRoot, CopyFails, PublishBackup, Works, DInv, disk
<1>2. /\ Pc(p) = "guarding" /\ proc[p].kind = "backup" /\ lock /\ At(p) > 0 /\ ~job[p].done
      /\ Len(backups) < MaxBackups
  BY <1>1 DEF JobStands
<1>3. job[p] \in Job /\ At(p) \in Nat /\ Roots \in Nat /\ MaxBackups \in Nat
  BY <1>1, BackupAssumption DEF DiskTypes, Job, At
<1>4. CASE CopyRoot(p)
  <2>1. At(p) \in R /\ root[At(p)] \in Content
    BY <1>1, <1>2, <1>3, <1>4 DEF CopyRoot, R, DiskTypes
  <2> DEFINE f == [job[p].copy EXCEPT ![At(p)] = root[At(p)]]
             g == [job[p] EXCEPT !.copy = f, !.at = At(p) + 1]
  <2>2. f \in [R -> Content] /\ f[At(p)] = root[At(p)]
        /\ \A r \in R \ {At(p)} : f[r] = job[p].copy[r]
    BY <1>3, <2>1 DEF Job
  <2>3. At(p) + 1 \in 0 .. Roots + 1
    BY <1>3, <1>4 DEF CopyRoot
  <2> HIDE DEF f
  <2>4. g \in Job /\ g.step = "copy" /\ g.at = At(p) + 1 /\ g.copy = f /\ g.done = job[p].done
        /\ g.of = job[p].of
    BY <1>1, <1>3, <2>2, <2>3 DEF Job, Step
  <2>5. job' = [job EXCEPT ![p] = g]
    BY <1>1, <1>4 DEF CopyRoot, DiskTypes, At, f
  <2> HIDE DEF g
  <2>6. /\ job' \in [Pids -> Job] /\ job'[p] = g /\ \A q \in Pids \ {p} : job'[q] = job[q]
        /\ UNCHANGED <<version, root, backups, staged, aside, lock, fileFaults>>
    BY <1>1, <1>4, <2>4, <2>5 DEF CopyRoot, DiskTypes, disk
  <2>7. DiskTypes'
    BY <1>1, <2>6 DEF DiskTypes
  <2>8. JobStands(p)'
    BY <1>1, <1>2, <1>3, <2>4, <2>6 DEF JobStands, Step, At, B, Pc, Restores, Exchange, vars
  <2>9. CopyStands(p)'
    <3>1. \A r \in R : r < At(p) + 1 => f[r] = root[r]
      BY <1>1, <1>3, <2>2 DEF CopyStands, R
    <3> QED
      BY <2>4, <2>6, <3>1 DEF CopyStands, Step, At
  <2> QED
    BY <1>1, <1>2, <2>6, <2>7, <2>8, <2>9, BackupGoes DEF DInv, BackupsWhole, Whole
<1>5. CASE CopyFails(p)
  <2>1. JobGoes(p, "unlock", At(p), job[p].done)
    BY <1>1, <1>5, JobShapes DEF CopyFails, Steps
  <2>2. /\ UNCHANGED <<version, root, backups, staged, aside, lock>>
        /\ fileFaults \subseteq fileFaults' /\ fileFaults' \subseteq FileFaults
    BY <1>1, <1>5 DEF CopyFails, FileFault, disk, DiskTypes
  <2>3. DiskTypes'
    BY <1>1, <2>1, <2>2 DEF DiskTypes, JobGoes
  <2>4. JobStands(p)' /\ CopyStands(p)'
    BY <1>1, <1>2, <2>1, <2>2 DEF JobStands, CopyStands, JobGoes, Step, B, Pc, Restores, Exchange,
           vars
  <2> QED
    BY <1>1, <1>2, <2>1, <2>2, <2>3, <2>4, BackupGoes DEF DInv, BackupsWhole, Whole, JobGoes
<1>6. CASE PublishBackup(p)
  <2>1. JobGoes(p, "unlock", At(p), TRUE)
    BY <1>1, <1>6, JobShapes DEF PublishBackup
  <2>2. /\ UNCHANGED <<version, root, staged, aside, lock, fileFaults>>
        /\ backups' = Append(backups, job[p].copy) /\ job[p].copy \in [R -> Content]
    BY <1>3, <1>6 DEF PublishBackup, Job
  <2>3. /\ backups' \in Seq([R -> Content]) /\ Len(backups') = Len(backups) + 1
        /\ Len(backups) \in Nat
        /\ \A b \in 1 .. Len(backups) : backups'[b] = backups[b]
        /\ backups'[Len(backups')] = job[p].copy
    BY <1>1, <2>2 DEF DiskTypes
  <2>4. DiskTypes'
    BY <1>1, <1>2, <1>3, <2>1, <2>2, <2>3 DEF DiskTypes, JobGoes
  <2>5. JobStands(p)' /\ CopyStands(p)'
    BY <1>1, <1>2, <2>1, <2>2 DEF JobStands, CopyStands, JobGoes, Step, B, Pc, Restores, Exchange,
           vars
  <2>6. ASSUME Unbroken'
        PROVE  BackupsWhole'
    <3>1. Whole(root)
      <4>1. \A q \in Pids : ~Restores(q)
        BY <1>2, WorksAlone DEF Restores
      <4> QED
        BY <2>2, <2>6, <4>1 DEF DInv, RootsWhole
    <3>2. \A r \in R : job[p].copy[r] = root[r]
      BY <1>1, <1>3, <1>6 DEF CopyStands, PublishBackup, R
    <3>3. Whole(job[p].copy)
      BY <3>1, <3>2 DEF Whole
    <3>4. \A b \in 1 .. Len(backups) : Whole(backups[b])
      BY <2>2, <2>6 DEF DInv, BackupsWhole
    <3>5. ASSUME NEW b \in 1 .. Len(backups')
          PROVE  \A r, s \in R : backups'[b][r] # None /\ backups'[b][r] = backups'[b][s]
      <4>1. CASE b = Len(backups')
        BY <2>3, <3>3, <4>1 DEF Whole
      <4>2. CASE b # Len(backups')
        <5>1. b \in 1 .. Len(backups)
          BY <2>3, <4>2
        <5> QED
          BY <2>3, <3>4, <5>1 DEF Whole
      <4> QED
        BY <4>1, <4>2
    <3> QED
      BY <3>5 DEF BackupsWhole, Whole
  <2> QED
    BY <1>1, <1>2, <2>1, <2>2, <2>4, <2>5, <2>6, BackupGoes DEF JobGoes
<1> QED
  BY <1>4, <1>5, <1>6

LEMMA TakesLock ==
    ASSUME CInv, DInv, NEW p \in Pids, TakeLock(p)
    PROVE  DInv'
<1>1. /\ Pc(p) = "guarding" /\ Step(p) = "idle" /\ lock' = TRUE /\ DiskTypes
      /\ UNCHANGED <<vars, version, root, backups, staged, aside, fileFaults>>
  BY DEF TakeLock, Works, DInv
<1>2. \A q \in Pids : Step(q) = "idle"
  BY <1>1, WorksAlone
<1>3. Idle \in Job /\ Roots \in Nat /\ 1 \in 0 .. Roots + 1
  BY BackupAssumption DEF Idle, Job, Nothing, Content
<1>4. \A q \in Pids : ~Restores(q)
  BY <1>2 DEF Restores
<1>5. CASE proc[p].kind = "backup"
  <2> DEFINE g == [Idle EXCEPT !.step = "copy", !.at = 1]
  <2>1. /\ g \in Job /\ g.step = "copy" /\ g.at = 1 /\ g.of = 0 /\ g.done = FALSE
    BY <1>3 DEF Job, Idle
  <2>2. job' = [job EXCEPT ![p] = g] /\ Len(backups) < MaxBackups
    BY <1>5 DEF TakeLock
  <2> HIDE DEF g
  <2>3. job' \in [Pids -> Job] /\ job'[p] = g /\ \A q \in Pids \ {p} : job'[q] = job[q]
    BY <1>1, <2>1, <2>2 DEF DiskTypes
  <2>4. DiskTypes'
    BY <1>1, <2>3 DEF DiskTypes
  <2>5. JobStands(p)'
    BY <1>1, <1>5, <2>1, <2>2, <2>3 DEF JobStands, Step, At, B, Pc, Restores, Exchange, vars
  <2>6. CopyStands(p)'
    BY <2>1, <2>3 DEF CopyStands, At, R
  <2> QED
    BY <1>1, <1>5, <2>3, <2>4, <2>5, <2>6, BackupGoes DEF DInv, BackupsWhole, Whole
<1>6. CASE proc[p].kind # "backup"
  <2>1. PICK b \in 1 .. Len(backups) :
            job' = [job EXCEPT ![p] = [Idle EXCEPT !.step = "stage", !.of = b,
                                                   !.at = 1, !.from = root]]
    BY <1>6 DEF TakeLock
  <2>2. proc[p].kind = "restore"
    BY <1>6 DEF TakeLock
  <2>3. b \in 0 .. MaxBackups /\ MaxBackups \in Nat
    BY <1>1, BackupAssumption DEF DiskTypes
  <2> DEFINE g == [Idle EXCEPT !.step = "stage", !.of = b, !.at = 1, !.from = root]
  <2>4. /\ g \in Job /\ g.step = "stage" /\ g.at = 1 /\ g.of = b /\ g.done = FALSE
        /\ g.from = root
    BY <1>1, <1>3, <2>3 DEF Job, Idle, DiskTypes, Exchange
  <2>5. job' = [job EXCEPT ![p] = g]
    BY <2>1
  <2> HIDE DEF g
  <2>6. job' \in [Pids -> Job] /\ job'[p] = g /\ \A q \in Pids \ {p} : job'[q] = job[q]
    BY <1>1, <2>4, <2>5 DEF DiskTypes
  <2>7. DiskTypes'
    BY <1>1, <2>6 DEF DiskTypes
  <2>8. Step(p)' = "stage" /\ At(p)' = 1 /\ B(p)' = b /\ Restores(p)'
    BY <1>1, <2>2, <2>4, <2>6 DEF Step, At, B, Restores, vars
  <2>9. JobStands(p)'
    BY <1>1, <2>2, <2>4, <2>6, <2>8 DEF JobStands, Pc, Exchange, vars
  <2>10. RestoreStands(p)'
    BY <1>1, <2>4, <2>6, <2>8 DEF RestoreStands, Moved, Ahead, R
  <2>11. CopyStands(p)'
    BY <2>8 DEF CopyStands
  <2>12. ASSUME NEW q \in Pids, q # p
         PROVE  JobStands(q)' /\ RestoreStands(q)' /\ CopyStands(q)' /\ HalfWay(q)'
    BY <1>2, <2>6, <2>12, Rests DEF DInv
  <2>13. ASSUME Unbroken'
         PROVE  BackupsWhole' /\ RootsWhole' /\ HalfWay(p)'
    <3>1. Whole(root) /\ BackupsWhole
      BY <1>1, <1>4, <2>13 DEF DInv, RootsWhole
    <3>2. HalfWay(p)'
      BY <1>1, <2>4, <2>6, <2>8, <3>1 DEF HalfWay, Exchanged, Untouched, Whole, R
    <3> QED
      BY <1>1, <3>1, <3>2 DEF BackupsWhole, RootsWhole, Whole
  <2> QED
    BY <2>7, <2>9, <2>10, <2>11, <2>12, <2>13 DEF DInv
<1> QED
  BY <1>5, <1>6

-----------------------------------------------------------------------------
(* Every step                                                              *)

LEMMA DiskStarts ==
    BackupInit => DInv
<1> SUFFICES ASSUME BackupInit PROVE DInv
  OBVIOUS
<1>1. Idle \in Job /\ Idle.step = "idle" /\ Idle.of = 0 /\ ~Idle.done
  BY BackupAssumption DEF Idle, Job, Nothing, Content
<1>2. /\ version = 0 /\ root = [r \in R |-> 0] /\ backups = <<>> /\ lock = FALSE /\ fileFaults = {}
      /\ staged = [b \in 1 .. MaxBackups |-> Nothing]
      /\ aside = [b \in 1 .. MaxBackups |-> Nothing]
      /\ job = [p \in Pids |-> Idle]
  BY DEF BackupInit
<1>3. 0 \in 0 .. MaxVersion /\ None \notin 0 .. MaxVersion /\ 0 <= MaxBackups
  BY BackupAssumption
<1>4. Nothing \in [R -> Content] /\ Nothing \in [R -> Content \cup {Empty}]
  BY DEF Nothing, Content
<1> HIDE DEF Idle
<1>5. DiskTypes
  <2>1. backups \in Seq([R -> Content]) /\ Len(backups) <= MaxBackups
    BY <1>2, <1>3
  <2> QED
    BY <1>1, <1>2, <1>3, <1>4, <2>1 DEF DiskTypes, Content
<1>6. \A p \in Pids : JobStands(p) /\ RestoreStands(p) /\ CopyStands(p) /\ HalfWay(p)
  BY <1>1, <1>2 DEF JobStands, RestoreStands, CopyStands, HalfWay, Restores, Step, B, Exchange
<1>7. BackupsWhole /\ RootsWhole
  BY <1>2, <1>3 DEF BackupsWhole, RootsWhole, Whole
<1> QED
  BY <1>5, <1>6, <1>7 DEF DInv

LEMMA DiskSteps ==
    ASSUME CInv, DInv, [BackupNext]_backupVars
    PROVE  DInv'
<1>1. CASE UNCHANGED backupVars
  <2>1. UNCHANGED <<disk, job, fileFaults>> /\ UNCHANGED proc
    BY <1>1 DEF backupVars, vars
  <2>2. \A q \in Pids : Step(q) # "idle" => Pc(q) = "guarding"
    BY DEF DInv, JobStands
  <2> QED
    BY <2>1, <2>2, Beside DEF Pc
<1>2. ASSUME NEW p \in Pids, Coordinates(p) \/ Operate(p) \/ Write(p) \/ Dies(p)
      PROVE  DInv'
  <2>1. CASE Operate(p)
    BY <2>1, TakesLock, NoLocks, Copies, Materializes, MovesAside, MovesIn, MovesBack, UndoesOut,
       UndoesBack, UndoesRemove, RestoreTurns, Unlocks DEF Operate
  <2> QED
    BY <1>2, <2>1, CoordinationBeside, RuntimeWrites, Deaths
<1> QED
  BY <1>1, <1>2 DEF BackupNext

LEMMA DiskSound ==
    ASSUME CInv, DInv
    PROVE  BackupTypeOK /\ ("cut" \notin FileFaults => WholeState)
<1>1. DiskTypes /\ TypeOK
  BY DEF DInv, CInv
<1>2. ASSUME NEW p \in Pids
      PROVE  /\ At(p) \in 0 .. Roots + 1 /\ B(p) \in 0 .. Len(backups)
             /\ job[p].copy \in [R -> Content] /\ job[p].from \in [R -> Content]
             /\ Step(p) # "idle" => Pc(p) = "guarding" /\ lock
  <2>1. job[p] \in Job /\ JobStands(p) /\ Len(backups) \in Nat
    BY <1>1 DEF DiskTypes, DInv
  <2>2. B(p) \in 0 .. Len(backups)
    BY <2>1 DEF JobStands
  <2> QED
    BY <2>1, <2>2 DEF Job, At, JobStands
<1>3. BackupTypeOK
  BY <1>1, <1>2 DEF BackupTypeOK, DiskTypes, Content
<1>4. PreviousKept
  BY DEF PreviousKept, DInv, RestoreStands
<1>5. ASSUME Unbroken
      PROVE  RestoreOrNothing
  <2>1. ASSUME NEW p \in Pids, Restores(p), Step(p) = "unlock"
        PROVE  root = IF job[p].done THEN backups[B(p)] ELSE job[p].from
    <3>1. /\ root \in [R -> Content] /\ job[p].from \in [R -> Content]
          /\ B(p) \in 1 .. Len(backups)
      BY <1>1, <1>2, <2>1 DEF DInv, DiskTypes, JobStands
    <3>2. backups[B(p)] \in [R -> Content]
      BY <1>1, <3>1 DEF DiskTypes
    <3>3. \A r \in R : root[r] = IF job[p].done THEN backups[B(p)][r] ELSE job[p].from[r]
      BY <1>5, <2>1 DEF DInv, HalfWay, Exchanged, Untouched
    <3>4. CASE job[p].done
      BY <3>1, <3>2, <3>3, <3>4
    <3>5. CASE ~job[p].done
      BY <3>1, <3>3, <3>5
    <3> QED
      BY <3>4, <3>5
  <2> QED
    BY <2>1 DEF RestoreOrNothing
<1>6. "cut" \notin FileFaults => "cut" \notin fileFaults
  BY <1>1 DEF DiskTypes
<1> QED
  BY <1>3, <1>4, <1>5, <1>6 DEF WholeState, DInv

LEMMA DiskAlways ==
    ASSUME Prompt, Recorded
    PROVE  BackupSpec => [](CInv /\ DInv)
<1>1. BackupInit => CInv /\ DInv
  BY CoordinationStarts, DiskStarts DEF BackupInit
<1>2. CInv /\ DInv /\ [BackupNext]_backupVars => (CInv /\ DInv)'
  BY Coordinating, CoordinationSteps, DiskSteps
<1> QED
  BY <1>1, <1>2, PTL DEF BackupSpec

\* Every variable of the backup and of the coordination has the shape its file
\* or directory has, and whoever works holds the lock, whatever fails and
\* wherever a process is killed.
THEOREM BackupTypeCorrect ==
    ASSUME Prompt, Recorded
    PROVE  BackupSpec => []BackupTypeOK
<1>1. CInv /\ DInv => BackupTypeOK
  BY DiskSound
<1> QED
  BY <1>1, DiskAlways, PTL

\* Whatever is copied, renamed, undone or fails: published backups are whole,
\* the roots belong together outside of a restore, a restore ends with all of
\* the backup or with what was there before, and what it replaces is not lost.
\* Unless a process is killed between the renames of a restore ("cut").
THEOREM Restoration ==
    ASSUME Prompt, Recorded, "cut" \notin FileFaults
    PROVE  BackupSpec => []WholeState
<1>1. CInv /\ DInv => WholeState
  BY DiskSound
<1> QED
  BY <1>1, DiskAlways, PTL

-----------------------------------------------------------------------------
(* The Python kernel.                                                      *)

\* The type invariant in two parts, each with what keeps it: the manager's
\* fields, and the calls in their queue.
ManagerOK ==
    /\ state \in {"idle", "starting", "running", "shutdown"}
    /\ start \in [Starts -> {"none", "python", "forking", "resolving", "probing",
                             "failing", "ready", "failed"}]
    /\ memo \in {0} \cup Starts
    /\ held \in {Nobody} \cup Processes
    /\ live \subseteq Processes
    /\ abandoned \subseteq Starts
    /\ restart.pc \in {"none", "queued", "stopping", "starting"}
    /\ disposing \in BOOLEAN

\* A call whose cell was sent is at its turn, and so is the restart from its
\* first step on.
TurnsKept ==
    /\ turns \in Seq(Cells \cup {Restart})
    /\ call \in [Cells -> CallState]
    /\ \A n \in 1 .. Len(turns) : turns[n] \in Cells =>
           call[turns[n]].pc \in {"queued", "clearing", "sent"}
    /\ \A m, n \in 1 .. Len(turns) : turns[m] = turns[n] => m = n
    /\ \A c \in Cells : call[c].pc = "sent" => AtTurn(c)
    /\ restart.pc = "none" => \A n \in 1 .. Len(turns) : turns[n] # Restart
    /\ restart.pc \in {"stopping", "starting"} => AtTurn(Restart)

\* Cells the process or the sockets know of, and the active one, were sent.
Sent == {c \in Cells : call[c].pc \in {"sent", "done"}}

Wires == [open : BOOLEAN, inbox : Seq(Cells), busy : Cells \cup {NoCell},
          shell : Seq([cell : Cells, ok : BOOLEAN]),
          iopub : Seq([is : {"output", "idle", "request"}, cell : Cells]),
          interrupt : BOOLEAN, down : SUBSET {"shell", "iopub"}, asked : BOOLEAN]

WireOK ==
    /\ wire \in Wires
    /\ \A n \in 1 .. Len(wire.inbox) : wire.inbox[n] \in Sent
    /\ \A n \in 1 .. Len(wire.shell) : wire.shell[n].cell \in Sent
    /\ \A n \in 1 .. Len(wire.iopub) : wire.iopub[n].cell \in Sent
    /\ wire.busy # NoCell => wire.busy \in Sent
    /\ active # NoCell => active \in Sent
    /\ heard \subseteq {"reply", "idle", "error"}

\* What a failed pump would have heard is not heard.
Deaf == /\ "shell" \in wire.down => "reply" \notin heard
        /\ "iopub" \in wire.down => "idle" \notin heard

\* Whatever is under way belongs to the active cell, and is under way once.
OfActive ==
    /\ Len(wire.inbox) <= 1
    /\ \A n \in 1 .. Len(wire.inbox) : wire.inbox[n] = active /\ wire.busy = NoCell
    /\ wire.busy # NoCell => wire.busy = active
    /\ Len(wire.shell) <= 1
    /\ \A n \in 1 .. Len(wire.shell) : wire.shell[n].cell = active
    /\ \A n \in 1 .. Len(wire.iopub) :
           /\ wire.iopub[n].cell = active
           /\ wire.iopub[n].is = "idle" => n = Len(wire.iopub)
    /\ "reply" \in heard => wire.shell = <<>>
    /\ "idle" \in heard => wire.iopub = <<>>
    /\ wire.inbox # <<>> \/ wire.busy # NoCell =>
           /\ wire.shell = <<>>
           /\ \A n \in 1 .. Len(wire.iopub) : wire.iopub[n].is # "idle"
           /\ "reply" \notin heard /\ "idle" \notin heard

\* Among the first n messages of IOPub is output of c.
OutputAhead(c, n) == \E m \in 1 .. n : wire.iopub[m].is = "output" /\ wire.iopub[m].cell = c

\* The output of a cell comes before its end.
OutputFirst ==
    \A c \in Cells : c = active /\ call[c].pc = "sent" /\ ~call[c].seen =>
        /\ "idle" \notin heard
        /\ wire.busy = c => OutputAhead(c, Len(wire.iopub))
        /\ \A n \in 1 .. Len(wire.iopub) :
               wire.iopub[n].is = "idle" /\ wire.iopub[n].cell = c => OutputAhead(c, n)

OneByOne == wire.down = {} => OfActive

\* What goes over the wires and what the calls make of it.
Spoken == /\ WireOK
          /\ Deaf
          /\ OneByOne
          /\ OutputFirst
          /\ OwnResult

KInv == /\ ManagerOK
        /\ TurnsKept
        /\ Spoken

-----------------------------------------------------------------------------
(* Sequences.                                                              *)

LEMMA TailFacts ==
    ASSUME NEW S, NEW s \in Seq(S), s # <<>>
    PROVE  /\ Len(s) \in Nat /\ Len(s) > 0 /\ Head(s) = s[1] /\ Head(s) \in S
           /\ Tail(s) \in Seq(S) /\ Len(Tail(s)) = Len(s) - 1
           /\ \A n \in 1 .. Len(Tail(s)) :
                  n + 1 \in 1 .. Len(s) /\ n + 1 > 1 /\ Tail(s)[n] = s[n + 1]
OBVIOUS

LEMMA AppendFacts ==
    ASSUME NEW S, NEW s \in Seq(S), NEW e \in S
    PROVE  /\ Append(s, e) \in Seq(S) /\ Len(s) \in Nat /\ Len(Append(s, e)) = Len(s) + 1
           /\ Append(s, e)[Len(s) + 1] = e
           /\ \A n \in 1 .. Len(s) : Append(s, e)[n] = s[n]
           /\ \A n \in 1 .. Len(Append(s, e)) : n \in 1 .. Len(s) \/ n = Len(s) + 1
           /\ Append(s, e) # <<>>
           /\ s # <<>> => Head(Append(s, e)) = Head(s)
<1>1. /\ Append(s, e) \in Seq(S) /\ Len(s) \in Nat /\ Len(Append(s, e)) = Len(s) + 1
      /\ Append(s, e)[Len(s) + 1] = e
      /\ \A n \in 1 .. Len(s) : Append(s, e)[n] = s[n]
  OBVIOUS
<1>2. Append(s, e) # <<>>
  BY <1>1
<1>3. s # <<>> => Head(Append(s, e)) = Head(s)
  <2>1. SUFFICES ASSUME s # <<>> PROVE Head(Append(s, e)) = Head(s)
    OBVIOUS
  <2>2. 1 \in 1 .. Len(s) /\ Head(s) = s[1]
    BY <2>1
  <2>3. Head(Append(s, e)) = Append(s, e)[1]
    BY <1>1, <1>2
  <2> QED
    BY <1>1, <2>2, <2>3
<1> QED
  BY <1>1, <1>2, <1>3

LEMMA InitKInv ==
    ASSUME KernelInit
    PROVE  KInv
<1>1. ManagerOK
  BY DEF KernelInit, ManagerOK, Nobody
<1>2. TurnsKept
  BY DEF KernelInit, TurnsKept, CallState
<1>3. /\ wire.inbox = <<>> /\ wire.shell = <<>> /\ wire.iopub = <<>> /\ wire.busy = NoCell
      /\ wire.down = {} /\ wire \in Wires
  BY DEF KernelInit, Silent, Wires
<1>4. WireOK /\ Deaf /\ OneByOne
  BY <1>3 DEF KernelInit, WireOK, Deaf, OneByOne, OfActive
<1>5. OutputFirst /\ OwnResult
  BY DEF KernelInit, OutputFirst, OwnResult
<1> QED
  BY <1>1, <1>2, <1>4, <1>5 DEF KInv, Spoken

LEMMA KInvImpliesTypeOK ==
    ASSUME KInv
    PROVE  KernelTypeOK
BY DEF KInv, ManagerOK, TurnsKept, Spoken, WireOK, Sent, KernelTypeOK

\* When everything under way is the active cell's, cells meet nowhere.
LEMMA KInvImpliesApart ==
    ASSUME KInv
    PROVE  CellsKeptApart
<1>1. ASSUME wire.down = {}
      PROVE  Len(wire.inbox) + (IF wire.busy = NoCell THEN 0 ELSE 1) <= 1
  <2>1. OfActive /\ wire.inbox \in Seq(Cells)
    BY <1>1 DEF KInv, Spoken, OneByOne, WireOK, Wires
  <2>2. Len(wire.inbox) \in Nat
    BY <2>1
  <2>3. CASE wire.busy = NoCell
    BY <2>1, <2>2, <2>3 DEF OfActive
  <2>4. CASE wire.busy # NoCell
    <3>1. Len(wire.inbox) = 0
      <4>1. SUFFICES ASSUME 1 \in 1 .. Len(wire.inbox) PROVE FALSE
        BY <2>2
      <4> QED
        BY <2>1, <2>4, <4>1 DEF OfActive
    <3> QED
      BY <2>4, <3>1
  <2> QED
    BY <2>3, <2>4
<1> QED
  BY <1>1 DEF CellsKeptApart, Alone, KInv, Spoken

-----------------------------------------------------------------------------
(* The queue.                                                              *)

CallEnds == {"none", "ok", "error", "aborted", "busy", "failed"}

LEMMA EndedFacts ==
    ASSUME NEW r \in CallState, NEW end \in CallEnds
    PROVE  /\ Ended(r, end) \in CallState
           /\ Ended(r, end).pc = "done"
           /\ Ended(r, end).seen = r.seen
           /\ Ended(r, end).end = end
<1> DEFINE a == [r EXCEPT !.pc = "done"]
           b == [a EXCEPT !.on = 0]
<1>1. a \in CallState /\ a.pc = "done" /\ a.seen = r.seen
  BY DEF CallState
<1> HIDE DEF a
<1>2. b \in CallState /\ b.pc = "done" /\ b.seen = r.seen
  BY <1>1 DEF CallState
<1>3. Ended(r, end) = [b EXCEPT !.end = end]
  BY DEF Ended, a
<1> HIDE DEF b
<1> QED
  BY <1>2, <1>3 DEF CallState, CallEnds

\* A call that is settled gives its turn up.
LEMMA SettleTurns ==
    ASSUME TurnsKept, NEW c \in Cells, NEW end \in CallEnds, Settle(c, end),
           call[c].pc \in {"new", "starting"} \/ AtTurn(c), restart'.pc = restart.pc
    PROVE  /\ TurnsKept'
           /\ call'[c] = Ended(call[c], end)
           /\ \A d \in Cells : d # c => call'[d] = call[d]
<1>1. call[c] \in CallState
  BY DEF TurnsKept
<1> DEFINE r == Ended(call[c], end)
<1>2. r \in CallState /\ r.pc = "done"
  BY <1>1, EndedFacts
<1>3. call' = [call EXCEPT ![c] = r] /\ call \in [Cells -> CallState]
  BY DEF Settle, TurnsKept
<1> HIDE DEF r
<1>4. call'[c] = r /\ \A d \in Cells : d # c => call'[d] = call[d]
  BY <1>3
<1>5. call' \in [Cells -> CallState]
  BY <1>2, <1>3
<1>6. turns \in Seq(Cells \cup {Restart}) /\ Restart \notin Cells
  BY KernelAssumption DEF TurnsKept
<1>7. CASE AtTurn(c)
  <2>1. turns' = Tail(turns) /\ turns # <<>> /\ Head(turns) = c
    BY <1>7 DEF Settle, AtTurn
  <2>2. /\ Len(turns) \in Nat /\ Len(turns) > 0 /\ turns[1] = c
        /\ turns' \in Seq(Cells \cup {Restart}) /\ Len(turns') = Len(turns) - 1
        /\ \A n \in 1 .. Len(turns') :
               n + 1 \in 1 .. Len(turns) /\ n + 1 > 1 /\ turns'[n] = turns[n + 1]
    BY <1>6, <2>1, TailFacts
  <2>3. \A n \in 1 .. Len(turns') : turns'[n] # c
    BY <2>2 DEF TurnsKept
  <2>4. ASSUME NEW n \in 1 .. Len(turns'), turns'[n] \in Cells
        PROVE  call'[turns'[n]].pc \in {"queued", "clearing", "sent"}
    BY <1>4, <2>2, <2>3, <2>4 DEF TurnsKept
  <2>5. ASSUME NEW m \in 1 .. Len(turns'), NEW n \in 1 .. Len(turns'), turns'[m] = turns'[n]
        PROVE  m = n
    <3>1. /\ m + 1 \in 1 .. Len(turns) /\ n + 1 \in 1 .. Len(turns)
          /\ turns[m + 1] = turns[n + 1]
      BY <2>2, <2>5
    <3>2. m + 1 = n + 1
      BY <3>1 DEF TurnsKept
    <3> QED
      BY <2>2, <3>2
  <2>6. \A d \in Cells : call'[d].pc # "sent"
    <3>1. \A d \in Cells : call[d].pc = "sent" => d = c
      BY <2>1 DEF TurnsKept, AtTurn
    <3> QED
      BY <1>2, <1>4, <3>1
  <2>7. restart.pc = "none" => \A n \in 1 .. Len(turns') : turns'[n] # Restart
    BY <2>2 DEF TurnsKept
  <2>8. restart.pc \notin {"stopping", "starting"}
    BY <1>6, <2>1 DEF TurnsKept, AtTurn
  <2> QED
    BY <1>4, <1>5, <2>2, <2>4, <2>5, <2>6, <2>7, <2>8 DEF TurnsKept, r
<1>8. CASE ~AtTurn(c)
  <2>1. turns' = turns /\ call[c].pc \in {"new", "starting"}
    BY <1>8 DEF Settle
  <2>2. \A n \in 1 .. Len(turns) : turns[n] # c
    BY <2>1 DEF TurnsKept
  <2>3. ASSUME NEW n \in 1 .. Len(turns'), turns'[n] \in Cells
        PROVE  call'[turns'[n]].pc \in {"queued", "clearing", "sent"}
    BY <1>4, <2>1, <2>2, <2>3 DEF TurnsKept
  <2>4. \A d \in Cells : call'[d].pc = "sent" => call[d].pc = "sent" /\ AtTurn(d)
    BY <1>2, <1>4 DEF TurnsKept
  <2>5. \A d : AtTurn(d) => AtTurn(d)'
    BY <2>1 DEF AtTurn
  <2> QED
    BY <1>4, <1>5, <2>1, <2>3, <2>4, <2>5 DEF TurnsKept, r
<1> QED
  BY <1>7, <1>8

\* A call in the queue moves on.
LEMMA MovesInTurn ==
    ASSUME TurnsKept, NEW c \in Cells, NEW r \in CallState, call' = [call EXCEPT ![c] = r],
           turns' = turns, restart'.pc = restart.pc,
           call[c].pc \in {"queued", "clearing", "sent"} =>
               r.pc \in {"queued", "clearing", "sent"},
           r.pc = "sent" => AtTurn(c)
    PROVE  TurnsKept'
<1>1. call \in [Cells -> CallState]
  BY DEF TurnsKept
<1>2. call'[c] = r /\ \A d \in Cells : d # c => call'[d] = call[d]
  BY <1>1
<1>3. call' \in [Cells -> CallState]
  BY <1>1
<1>4. \A n \in 1 .. Len(turns') : turns'[n] \in Cells =>
          call'[turns'[n]].pc \in {"queued", "clearing", "sent"}
  BY <1>2 DEF TurnsKept
<1>5. \A d : AtTurn(d) <=> AtTurn(d)'
  BY DEF AtTurn
<1>6. \A d \in Cells : call'[d].pc = "sent" => AtTurn(d)'
  BY <1>2, <1>5 DEF TurnsKept
<1> QED
  BY <1>3, <1>4, <1>5, <1>6 DEF TurnsKept

\* A call or the restart takes its place at the end of the queue.
LEMMA AppendTurns ==
    ASSUME TurnsKept, NEW x \in Cells \cup {Restart}, turns' = Append(turns, x),
           call' \in [Cells -> CallState],
           \A d \in Cells : d # x => call'[d].pc = call[d].pc,
           x \in Cells => /\ call[x].pc = "starting" /\ call'[x].pc = "queued"
                          /\ restart'.pc = restart.pc,
           x = Restart => restart.pc = "none" /\ restart'.pc = "queued"
    PROVE  TurnsKept'
<1>1. turns \in Seq(Cells \cup {Restart}) /\ Restart \notin Cells
  BY KernelAssumption DEF TurnsKept
<1>2. /\ turns' \in Seq(Cells \cup {Restart})
      /\ Len(turns) \in Nat /\ Len(turns') = Len(turns) + 1
      /\ turns'[Len(turns) + 1] = x
      /\ \A n \in 1 .. Len(turns) : turns'[n] = turns[n]
      /\ \A n \in 1 .. Len(turns') : n \in 1 .. Len(turns) \/ n = Len(turns) + 1
      /\ turns' # <<>>
      /\ turns # <<>> => Head(turns') = Head(turns)
  BY <1>1, AppendFacts
<1>3. \A n \in 1 .. Len(turns) : turns[n] # x
  BY <1>1 DEF TurnsKept
<1>4. \A n \in 1 .. Len(turns') : turns'[n] \in Cells =>
          call'[turns'[n]].pc \in {"queued", "clearing", "sent"}
  BY <1>1, <1>2, <1>3 DEF TurnsKept
<1>5. ASSUME NEW m \in 1 .. Len(turns'), NEW n \in 1 .. Len(turns'), turns'[m] = turns'[n]
      PROVE  m = n
  BY <1>2, <1>3, <1>5 DEF TurnsKept
<1>6. \A d : AtTurn(d) => AtTurn(d)'
  BY <1>2 DEF AtTurn
<1>7. \A d \in Cells : call'[d].pc = "sent" => AtTurn(d)'
  BY <1>1, <1>6 DEF TurnsKept
<1>8. restart'.pc = "none" => \A n \in 1 .. Len(turns') : turns'[n] # Restart
  BY <1>1, <1>2 DEF TurnsKept
<1>9. restart'.pc \in {"stopping", "starting"} => AtTurn(Restart)'
  BY <1>1, <1>6 DEF TurnsKept
<1> QED
  BY <1>2, <1>4, <1>5, <1>7, <1>8, <1>9 DEF TurnsKept

\* The queue does not move.
LEMMA TurnsStay ==
    ASSUME TurnsKept, turns' = turns, call' = call,
           \/ restart'.pc = restart.pc
           \/ restart'.pc # "none" /\ AtTurn(Restart)
    PROVE  TurnsKept'
<1>1. \A d : AtTurn(d) <=> AtTurn(d)'
  BY DEF AtTurn
<1> QED
  BY <1>1 DEF TurnsKept

-----------------------------------------------------------------------------
(* What goes over the wires.                                               *)

SameLine == /\ wire' \in Wires
            /\ wire'.inbox = wire.inbox /\ wire'.busy = wire.busy
            /\ wire'.shell = wire.shell /\ wire'.iopub = wire.iopub
            /\ wire'.down = wire.down

LEMMA InterruptFacts ==
    ASSUME wire \in Wires, NEW b \in BOOLEAN,
           wire' = wire \/ wire' = [wire EXCEPT !.interrupt = b]
    PROVE  SameLine
BY DEF Wires, SameLine

\* A call moves on and nothing is said: a result stays what it was.
LEMMA CallMoves ==
    ASSUME Spoken, call \in [Cells -> CallState], NEW c \in Cells, NEW r \in CallState,
           call' = [call EXCEPT ![c] = r], r.seen = call[c].seen,
           r.end \in {"ok", "error"} => r.end = call[c].end,
           call[c].pc \in {"sent", "done"} => r.pc \in {"sent", "done"},
           r.pc = "sent" => call[c].pc = "sent",
           active' = active, heard' = heard, SameLine
    PROVE  Spoken'
<1>1. call'[c] = r /\ \A d \in Cells : d # c => call'[d] = call[d]
  OBVIOUS
<1>2. \A d \in Cells : d \in Sent => d \in Sent'
  BY <1>1 DEF Sent
<1>3. /\ wire' \in Wires
      /\ wire'.inbox = wire.inbox /\ wire'.busy = wire.busy
      /\ wire'.shell = wire.shell /\ wire'.iopub = wire.iopub
      /\ wire'.down = wire.down
  BY DEF SameLine
<1>4. \A d \in Sent : d \in Sent'
  BY <1>2 DEF Sent
<1>5. WireOK'
  BY <1>3, <1>4 DEF Spoken, WireOK
<1>6. Deaf' /\ OneByOne'
  BY <1>3 DEF Spoken, Deaf, OneByOne, OfActive
<1>7. \A d \in Cells : call'[d].pc = "sent" => call[d].pc = "sent" /\ call'[d].seen = call[d].seen
  BY <1>1
<1>8. \A d, n : OutputAhead(d, n) <=> OutputAhead(d, n)'
  BY <1>3 DEF OutputAhead
<1>9. OutputFirst'
  BY <1>3, <1>7, <1>8 DEF Spoken, OutputFirst
<1>10. OwnResult'
  BY <1>1 DEF Spoken, OwnResult
<1> QED
  BY <1>5, <1>6, <1>9, <1>10 DEF Spoken

\* Nothing is said and no call moves.
LEMMA NothingSaid ==
    ASSUME Spoken, call' = call, active' = active, heard' = heard, SameLine
    PROVE  Spoken'
<1>1. Sent' = Sent
  BY DEF Sent
<1>2. /\ wire' \in Wires
      /\ wire'.inbox = wire.inbox /\ wire'.busy = wire.busy
      /\ wire'.shell = wire.shell /\ wire'.iopub = wire.iopub
      /\ wire'.down = wire.down
  BY DEF SameLine
<1>3. WireOK'
  BY <1>1, <1>2 DEF Spoken, WireOK
<1>4. Deaf' /\ OneByOne'
  BY <1>2 DEF Spoken, Deaf, OneByOne, OfActive
<1>5. \A d, n : OutputAhead(d, n) <=> OutputAhead(d, n)'
  BY <1>2 DEF OutputAhead
<1>6. OutputFirst' /\ OwnResult'
  BY <1>2, <1>5 DEF Spoken, OutputFirst, OwnResult
<1> QED
  BY <1>3, <1>4, <1>6 DEF Spoken

Hushed == /\ wire' \in Wires
          /\ wire'.inbox = <<>> /\ wire'.shell = <<>> /\ wire'.iopub = <<>>
          /\ wire'.busy = NoCell /\ wire'.down = {}

LEMMA SilentFacts ==
    ASSUME wire' = Silent \/ wire' = [Silent EXCEPT !.open = TRUE]
    PROVE  Hushed
<1>1. /\ Silent \in Wires
      /\ Silent.inbox = <<>> /\ Silent.shell = <<>> /\ Silent.iopub = <<>>
      /\ Silent.busy = NoCell /\ Silent.down = {}
  BY DEF Silent, Wires
<1> DEFINE s == [Silent EXCEPT !.open = TRUE]
<1>2. /\ s \in Wires
      /\ s.inbox = <<>> /\ s.shell = <<>> /\ s.iopub = <<>>
      /\ s.busy = NoCell /\ s.down = {}
  BY <1>1 DEF Wires
<1> QED
  BY <1>1, <1>2 DEF Hushed

\* The sockets open or close; the active cell stays active or its call is told.
LEMMA LineHushed ==
    ASSUME Spoken, Hushed, call' \in [Cells -> CallState],
           \A c \in Sent : c \in Sent',
           \/ active' = active /\ heard' = heard /\ call' = call
           \/ active' = NoCell /\ heard' = {},
           \A c \in Cells : call'[c].seen = call[c].seen,
           \A c \in Cells : call'[c].end \in {"ok", "error"} => call'[c].end = call[c].end
    PROVE  Spoken'
<1>1. /\ wire' \in Wires
      /\ wire'.inbox = <<>> /\ wire'.shell = <<>> /\ wire'.iopub = <<>>
      /\ wire'.busy = NoCell /\ wire'.down = {}
  BY DEF Hushed
<1>2. WireOK'
  <2>1. active' # NoCell => active' \in Sent'
    BY DEF Spoken, WireOK
  <2>2. heard' \subseteq {"reply", "idle", "error"}
    BY DEF Spoken, WireOK
  <2>3. 1 .. Len(<<>>) = {}
    OBVIOUS
  <2> QED
    BY <1>1, <2>1, <2>2, <2>3 DEF WireOK
<1>3. Deaf' /\ OneByOne'
  BY <1>1 DEF Deaf, OneByOne, OfActive
<1>4. OutputFirst'
  <2>1. CASE active' = NoCell
    BY <2>1, KernelAssumption DEF OutputFirst
  <2>2. CASE active' = active /\ heard' = heard /\ call' = call
    <3>1. \A c \in Cells : c # NoCell
      BY KernelAssumption
    <3> QED
      BY <1>1, <2>2, <3>1 DEF Spoken, OutputFirst
  <2> QED
    BY <2>1, <2>2
<1>5. OwnResult'
  BY DEF Spoken, OwnResult
<1> QED
  BY <1>2, <1>3, <1>4, <1>5 DEF Spoken

-----------------------------------------------------------------------------
(* The manager's fields.                                                   *)

LEMMA CleanupFacts ==
    ASSUME ManagerOK, CleanupResources
    PROVE  held' = Nobody /\ live' = live \ {held} /\ live' \subseteq Processes
BY DEF ManagerOK, CleanupResources

LEMMA LaunchFacts ==
    ASSUME ManagerOK, NEW a, Launch(a)
    PROVE  /\ start' \in [Starts -> {"none", "python", "forking", "resolving", "probing",
                                     "failing", "ready", "failed"}]
           /\ state' = "starting" /\ memo' \in Starts
BY DEF ManagerOK, Launch

\* The queue, the cells and the sockets are not the manager's.
LEMMA ManagerStays ==
    ASSUME ManagerOK, UNCHANGED manager
    PROVE  ManagerOK'
BY DEF ManagerOK, manager

LEMMA StartupManager ==
    ASSUME ManagerOK, NEW a \in Starts,
           Startup(a) \/ PythonFails(a) \/ ForkGivenUp(a) \/ LateFork(a)
    PROVE  ManagerOK'
<1>1. CASE PythonReady(a)
  BY <1>1 DEF PythonReady, ManagerOK, Processes, cells
<1>2. CASE Forked(a)
  BY <1>2 DEF Forked, ManagerOK, Processes, cells
<1>3. CASE Resolved(a)
  BY <1>3 DEF Resolved, ManagerOK, cells
<1>4. CASE GivesUp(a)
  <2>1. CASE CleanupResources /\ memo' = 0 /\ start' = [start EXCEPT ![a] = "failed"]
             /\ state' = IF state = "shutdown" THEN state ELSE "idle"
    BY <1>4, <2>1, CleanupFacts DEF GivesUp, ManagerOK
  <2>2. CASE /\ start' = [start EXCEPT ![a] = "failing"]
             /\ state' = "shutdown"
             /\ UNCHANGED <<cells, wire, request, held, live, memo>>
    BY <1>4, <2>2 DEF GivesUp, ManagerOK
  <2> QED
    BY <1>4, <2>1, <2>2 DEF GivesUp
<1>5. CASE StartupCleaned(a)
  BY <1>5, CleanupFacts DEF StartupCleaned, ManagerOK
<1>6. CASE ProbeReady(a)
  BY <1>6 DEF ProbeReady, ManagerOK, cells
<1>7. CASE PythonFails(a)
  BY <1>7 DEF PythonFails, ManagerOK, cells
<1>8. CASE ForkGivenUp(a)
  BY <1>8 DEF ForkGivenUp, ManagerOK, Processes, cells
<1>9. CASE LateFork(a)
  BY <1>9 DEF LateFork, ManagerOK, cells
<1> QED
  BY <1>1, <1>2, <1>3, <1>4, <1>5, <1>6, <1>7, <1>8, <1>9 DEF Startup

LEMMA LifeManager ==
    ASSUME ManagerOK,
           ExitSeen \/ AskRestart \/ Restarting \/ Dispose \/ DisposeEnds \/ Kill
    PROVE  ManagerOK'
<1>1. CASE ExitSeen
  BY <1>1, CleanupFacts DEF ExitSeen, ManagerOK
<1>2. CASE AskRestart
  BY <1>2 DEF AskRestart, ManagerOK
<1>3. CASE RestartStops
  BY <1>3 DEF RestartStops, ManagerOK
<1>4. CASE RestartLaunches
  <2>1. PICK a \in Starts : Launch(a) /\ restart' = [pc |-> "starting", on |-> a]
    BY <1>4 DEF RestartLaunches
  <2> QED
    BY <1>4, <2>1, CleanupFacts, LaunchFacts DEF RestartLaunches, ManagerOK
<1>5. CASE RestartEnds
  BY <1>5 DEF RestartEnds, ManagerOK
<1>6. CASE Dispose
  <2>1. CASE request.on
    BY <1>6, <2>1 DEF Dispose, ManagerOK
  <2>2. CASE ~request.on
    BY <1>6, <2>2, CleanupFacts DEF Dispose, ManagerOK
  <2> QED
    BY <2>1, <2>2
<1>7. CASE DisposeEnds
  BY <1>7, CleanupFacts DEF DisposeEnds, ManagerOK
<1>8. CASE Kill
  BY <1>8, CleanupFacts DEF Kill, ManagerOK
<1> QED
  BY <1>1, <1>2, <1>3, <1>4, <1>5, <1>6, <1>7, <1>8 DEF Restarting

LEMMA ExecuteManager ==
    ASSUME ManagerOK, NEW c \in Cells, Execute(c)
    PROVE  ManagerOK'
<1>1. CASE UNCHANGED <<start, state, memo>>
  BY <1>1 DEF Execute, ManagerOK
<1>2. ASSUME NEW a \in Starts, Launch(a)
      PROVE  ManagerOK'
  BY <1>2, LaunchFacts DEF Execute, ManagerOK
<1> QED
  BY <1>1, <1>2 DEF Execute

\* Any step keeps the manager's fields in their ranges.
LEMMA ManagerStep ==
    ASSUME ManagerOK, [KernelNext]_kernelVars
    PROVE  ManagerOK'
<1>1. CASE UNCHANGED kernelVars
  BY <1>1, ManagerStays DEF kernelVars
<1>2. ASSUME NEW c \in Cells, Execute(c)
      PROVE  ManagerOK'
  BY <1>2, ExecuteManager
<1>3. ASSUME NEW c \in Cells, Started(c) \/ Turn(c) \/ Abort(c) \/ GraceOver(c)
      PROVE  ManagerOK'
  <2>1. UNCHANGED manager
    BY <1>3 DEF Started, Turn, InterruptPrevious, StillBusy, Withdraw, Send, SendFails,
                Abort, GraceOver
  <2> QED
    BY <2>1, ManagerStays
<1>4. ASSUME NEW a \in Starts, Startup(a) \/ PythonFails(a) \/ ForkGivenUp(a) \/ LateFork(a)
      PROVE  ManagerOK'
  BY <1>4, StartupManager
<1>5. CASE ShellPump \/ IopubPump \/ HandlerReturns
  BY <1>5, ManagerStays DEF ShellPump, IopubPump, HandlerReturns
<1>6. ASSUME NEW channel \in {"shell", "iopub"}, PumpFails(channel)
      PROVE  ManagerOK'
  BY <1>6, ManagerStays DEF PumpFails
<1>7. CASE ExitSeen \/ AskRestart \/ Restarting \/ Dispose \/ DisposeEnds \/ Kill
  BY <1>7, LifeManager
<1>8. CASE KernelRuns \/ KernelEnds \/ KernelInterrupted \/ KernelAsks
  BY <1>8, ManagerStays
     DEF KernelRuns, KernelEnds, KernelInterrupted, KernelAsks, Behind
<1>9. CASE KernelDies
  BY <1>9 DEF KernelDies, ManagerOK
<1> QED
  BY <1>1, <1>2, <1>3, <1>4, <1>5, <1>6, <1>7, <1>8, <1>9 DEF KernelNext

-----------------------------------------------------------------------------
(* The calls.                                                              *)

CallsOK == TurnsKept /\ Spoken

LEMMA SameWire ==
    ASSUME Spoken, wire' = wire
    PROVE  SameLine
BY DEF Spoken, WireOK, SameLine

\* A call ends without a result.
LEMMA SettlesWithout ==
    ASSUME CallsOK, NEW c \in Cells, NEW end \in CallEnds \ {"ok", "error"}, Settle(c, end),
           call[c].pc \in {"new", "starting"} \/ AtTurn(c),
           UNCHANGED <<active, heard, wire, restart>>
    PROVE  CallsOK'
<1>1. TurnsKept /\ Spoken /\ call[c] \in CallState /\ call \in [Cells -> CallState]
  BY DEF CallsOK, TurnsKept
<1>2. TurnsKept'
  BY <1>1, SettleTurns
<1> DEFINE r == Ended(call[c], end)
<1>3. r \in CallState /\ r.pc = "done" /\ r.seen = call[c].seen /\ r.end = end
  BY <1>1, EndedFacts
<1>4. call' = [call EXCEPT ![c] = r]
  BY DEF Settle
<1> HIDE DEF r
<1>5. SameLine
  BY <1>1, SameWire
<1>6. Spoken'
  BY <1>1, <1>3, <1>4, <1>5, CallMoves
<1> QED
  BY <1>2, <1>6 DEF CallsOK

\* A call that was not sent moves on towards its cell.
LEMMA MovesOn ==
    ASSUME CallsOK, NEW c \in Cells, NEW r \in CallState, call' = [call EXCEPT ![c] = r],
           r.seen = call[c].seen, r.end = call[c].end, r.pc # "sent",
           call[c].pc \in {"new", "starting", "queued", "clearing"},
           call[c].pc \in {"queued", "clearing"} => r.pc \in {"queued", "clearing"},
           SameLine, UNCHANGED <<turns, active, heard>>, restart'.pc = restart.pc
    PROVE  CallsOK'
<1>1. TurnsKept /\ Spoken /\ call \in [Cells -> CallState]
  BY DEF CallsOK, TurnsKept
<1>2. TurnsKept'
  BY <1>1, MovesInTurn
<1>3. Spoken'
  BY <1>1, CallMoves
<1> QED
  BY <1>2, <1>3 DEF CallsOK

LEMMA ExecuteCalls ==
    ASSUME CallsOK, ManagerOK, NEW c \in Cells, Execute(c)
    PROVE  CallsOK'
<1>1. UNCHANGED <<active, heard, wire, restart>> /\ call[c].pc = "new"
  BY DEF Execute
<1>2. CASE Settle(c, "aborted") \/ Settle(c, "failed")
  BY <1>1, <1>2, SettlesWithout DEF CallEnds
<1>3. ASSUME NEW n \in Nat, turns' = turns,
             call' = [call EXCEPT ![c].pc = "starting", ![c].on = n]
      PROVE  CallsOK'
  <2>1. call[c] \in CallState /\ call \in [Cells -> CallState] /\ Spoken
    BY DEF CallsOK, TurnsKept
  <2> DEFINE a == [call[c] EXCEPT !.pc = "starting"]
             r == [a EXCEPT !.on = n]
  <2>2. call' = [call EXCEPT ![c] = r]
    BY <1>3, <2>1
  <2>3. a \in CallState /\ a.pc = "starting" /\ a.seen = call[c].seen /\ a.end = call[c].end
    BY <2>1 DEF CallState
  <2> HIDE DEF a
  <2>4. r \in CallState /\ r.pc = "starting" /\ r.seen = call[c].seen /\ r.end = call[c].end
    BY <2>3 DEF CallState
  <2> HIDE DEF r
  <2>5. SameLine
    BY <1>1, <2>1, SameWire
  <2> QED
    BY <1>1, <1>3, <2>2, <2>4, <2>5, MovesOn
<1>4. Starts \subseteq Nat /\ memo \in Nat
  BY DEF ManagerOK, Starts
<1> QED
  BY <1>2, <1>3, <1>4 DEF Execute

LEMMA StartedCalls ==
    ASSUME CallsOK, NEW c \in Cells, Started(c)
    PROVE  CallsOK'
<1>1. UNCHANGED <<active, heard, wire, restart>> /\ call[c].pc = "starting"
  BY DEF Started, manager
<1>2. CASE Settle(c, "failed")
  BY <1>1, <1>2, SettlesWithout DEF CallEnds
<1>3. CASE turns' = Append(turns, c) /\ call' = [call EXCEPT ![c].pc = "queued", ![c].on = 0]
  <2>1. call[c] \in CallState /\ call \in [Cells -> CallState] /\ Spoken /\ TurnsKept
    BY DEF CallsOK, TurnsKept
  <2> DEFINE a == [call[c] EXCEPT !.pc = "queued"]
             r == [a EXCEPT !.on = 0]
  <2>2. call' = [call EXCEPT ![c] = r]
    BY <1>3, <2>1
  <2>3. a \in CallState /\ a.pc = "queued" /\ a.seen = call[c].seen /\ a.end = call[c].end
    BY <2>1 DEF CallState
  <2> HIDE DEF a
  <2>4. r \in CallState /\ r.pc = "queued" /\ r.seen = call[c].seen /\ r.end = call[c].end
    BY <2>3 DEF CallState
  <2> HIDE DEF r
  <2>5. SameLine
    BY <1>1, <2>1, SameWire
  <2>6. Spoken'
    BY <1>1, <2>1, <2>2, <2>4, <2>5, CallMoves
  <2>7. /\ call' \in [Cells -> CallState] /\ call'[c].pc = "queued"
        /\ \A d \in Cells : d # c => call'[d].pc = call[d].pc
    BY <2>1, <2>2, <2>4
  <2>8. TurnsKept'
    BY <1>1, <1>3, <2>1, <2>7, KernelAssumption, AppendTurns
  <2> QED
    BY <2>6, <2>8 DEF CallsOK
<1> QED
  BY <1>2, <1>3 DEF Started

LEMMA InterruptPreviousCalls ==
    ASSUME CallsOK, NEW c \in Cells, InterruptPrevious(c)
    PROVE  CallsOK'
<1>1. /\ UNCHANGED <<turns, active, heard, restart>> /\ call[c].pc \in {"queued", "clearing"}
      /\ call' = [call EXCEPT ![c].pc = "clearing"]
      /\ wire' = [wire EXCEPT !.interrupt = wire.open]
  BY DEF InterruptPrevious, manager, Waiting
<1>2. call[c] \in CallState /\ wire \in Wires
  BY DEF CallsOK, TurnsKept, Spoken, WireOK
<1> DEFINE r == [call[c] EXCEPT !.pc = "clearing"]
<1>3. call' = [call EXCEPT ![c] = r]
  BY <1>1
<1>4. r \in CallState /\ r.pc = "clearing" /\ r.seen = call[c].seen /\ r.end = call[c].end
  BY <1>2 DEF CallState
<1> HIDE DEF r
<1>5. wire.open \in BOOLEAN
  BY <1>2 DEF Wires
<1>6. SameLine
  BY <1>1, <1>2, <1>5, InterruptFacts
<1> QED
  BY <1>1, <1>3, <1>4, <1>6, MovesOn

LEMMA AbortCalls ==
    ASSUME CallsOK, NEW c \in Cells, Abort(c)
    PROVE  CallsOK'
<1>1. /\ UNCHANGED <<turns, active, heard, restart>> /\ call[c].pc # "done"
      /\ wire' = [wire EXCEPT !.interrupt = @ \/ (wire.open /\ call[c].pc = "sent")]
  BY DEF Abort, manager
<1>2. /\ call[c] \in CallState /\ call \in [Cells -> CallState] /\ wire \in Wires
      /\ TurnsKept /\ Spoken
  BY DEF CallsOK, TurnsKept, Spoken, WireOK
<1>3. SameLine
  <2>1. wire.interrupt \/ (wire.open /\ call[c].pc = "sent") \in BOOLEAN
    OBVIOUS
  <2> QED
    BY <1>1, <1>2, <2>1, InterruptFacts
<1> DEFINE a == [call[c] EXCEPT !.stop = TRUE]
<1>4. /\ a \in CallState /\ a.pc = call[c].pc /\ a.seen = call[c].seen /\ a.end = call[c].end
  BY <1>2 DEF CallState
<1>5. CASE call[c].pc = "starting"
  <2> DEFINE r == Ended(a, "failed")
  <2>1. call' = [call EXCEPT ![c] = r]
    BY <1>5 DEF Abort
  <2> HIDE DEF a
  <2>2. r \in CallState /\ r.pc = "done" /\ r.seen = a.seen /\ r.end = "failed"
    BY <1>4, EndedFacts DEF CallEnds
  <2> HIDE DEF r
  <2>3. Spoken'
    BY <1>1, <1>2, <1>3, <1>4, <1>5, <2>1, <2>2, CallMoves
  <2>4. TurnsKept'
    BY <1>1, <1>2, <1>5, <2>1, <2>2, MovesInTurn
  <2> QED
    BY <2>3, <2>4 DEF CallsOK
<1>6. CASE call[c].pc # "starting"
  <2>1. call' = [call EXCEPT ![c] = a]
    BY <1>6 DEF Abort
  <2> HIDE DEF a
  <2>2. Spoken'
    BY <1>1, <1>2, <1>3, <1>4, <2>1, CallMoves
  <2>3. TurnsKept'
    <3>1. a.pc = "sent" => AtTurn(c)
      BY <1>2, <1>4 DEF TurnsKept
    <3> QED
      BY <1>1, <1>2, <1>4, <2>1, <3>1, MovesInTurn
  <2> QED
    BY <2>2, <2>3 DEF CallsOK
<1> QED
  BY <1>5, <1>6

LEMMA CallSteps ==
    ASSUME CallsOK, ManagerOK, NEW c \in Cells,
           \/ Execute(c) \/ Started(c) \/ InterruptPrevious(c) \/ StillBusy(c)
           \/ Withdraw(c) \/ SendFails(c) \/ Abort(c) \/ GraceOver(c)
    PROVE  CallsOK'
<1>1. CASE StillBusy(c)
  BY <1>1, SettlesWithout DEF StillBusy, Waiting, manager, CallEnds
<1>2. CASE Withdraw(c)
  <2>1. AtTurn(c) /\ UNCHANGED <<active, heard, wire, restart>>
    BY <1>2 DEF Withdraw, Waiting, manager
  <2> QED
    BY <1>2, <2>1, SettlesWithout DEF Withdraw, CallEnds
<1>3. CASE SendFails(c)
  BY <1>3, SettlesWithout DEF SendFails, Cleared, Waiting, manager, CallEnds
<1>4. CASE GraceOver(c)
  <2>1. AtTurn(c)
    BY <1>4 DEF GraceOver, CallsOK, TurnsKept
  <2> QED
    BY <1>4, <2>1, SettlesWithout DEF GraceOver, ForceAbort, manager, CallEnds
<1> QED
  BY <1>1, <1>2, <1>3, <1>4, ExecuteCalls, StartedCalls, InterruptPreviousCalls, AbortCalls

\* A cell is sent when nothing of another is under way.
LEMMA SendCalls ==
    ASSUME CallsOK, NEW c \in Cells, Send(c)
    PROVE  CallsOK'
<1>1. /\ AtTurn(c) /\ call[c].pc \in {"queued", "clearing"} /\ active = NoCell
      /\ call' = [call EXCEPT ![c].pc = "sent"]
      /\ active' = c /\ heard' = {} /\ UNCHANGED <<turns, restart>>
      /\ wire' = [wire EXCEPT !.inbox = Append(@, c)]
  BY DEF Send, Cleared, Waiting, manager
<1>2. /\ call[c] \in CallState /\ call \in [Cells -> CallState] /\ wire \in Wires
      /\ TurnsKept /\ Spoken
  BY DEF CallsOK, TurnsKept, Spoken, WireOK
<1> DEFINE r == [call[c] EXCEPT !.pc = "sent"]
<1>3. call' = [call EXCEPT ![c] = r]
  BY <1>1
<1>4. r \in CallState /\ r.pc = "sent" /\ r.seen = call[c].seen /\ r.end = call[c].end
  BY <1>2 DEF CallState
<1> HIDE DEF r
<1>5. TurnsKept'
  BY <1>1, <1>2, <1>3, <1>4, MovesInTurn
<1>6. /\ wire'.inbox = Append(wire.inbox, c) /\ wire'.busy = wire.busy
      /\ wire'.shell = wire.shell /\ wire'.iopub = wire.iopub /\ wire'.down = wire.down
      /\ wire.inbox \in Seq(Cells) /\ wire.busy \in Cells \cup {NoCell}
      /\ wire.shell \in Seq([cell : Cells, ok : BOOLEAN])
      /\ wire.iopub \in Seq([is : {"output", "idle", "request"}, cell : Cells])
  BY <1>1, <1>2 DEF Wires
<1>7. /\ wire'.inbox \in Seq(Cells)
      /\ Len(wire.inbox) \in Nat /\ Len(wire'.inbox) = Len(wire.inbox) + 1
      /\ wire'.inbox[Len(wire.inbox) + 1] = c
      /\ \A n \in 1 .. Len(wire.inbox) : wire'.inbox[n] = wire.inbox[n]
      /\ \A n \in 1 .. Len(wire'.inbox) : n \in 1 .. Len(wire.inbox) \/ n = Len(wire.inbox) + 1
  BY <1>6, AppendFacts
<1>8. wire' \in Wires
  BY <1>1, <1>2, <1>6, <1>7 DEF Wires
<1>9. /\ call'[c] = r /\ \A d \in Cells : d # c => call'[d] = call[d]
  BY <1>2, <1>3
<1>10. c \notin Sent /\ c \in Sent' /\ \A d \in Sent : d \in Sent'
  BY <1>1, <1>4, <1>9 DEF Sent
<1>11. WireOK'
  BY <1>1, <1>2, <1>6, <1>7, <1>8, <1>10 DEF Spoken, WireOK
<1>12. Deaf'
  BY <1>1 DEF Deaf
<1>13. ASSUME wire.down = {}
       PROVE  OfActive'
  <2>1. OfActive /\ NoCell \notin Cells
    BY <1>2, <1>13, KernelAssumption DEF Spoken, OneByOne
  <2>2. Len(wire.inbox) = 0
    <3>1. SUFFICES ASSUME 1 \in 1 .. Len(wire.inbox) PROVE FALSE
      BY <1>7
    <3> QED
      BY <1>1, <1>6, <2>1, <3>1 DEF OfActive
  <2>3. wire.busy = NoCell
    BY <1>1, <2>1 DEF OfActive
  <2>4. wire.shell = <<>>
    <3>1. SUFFICES ASSUME 1 \in 1 .. Len(wire.shell) PROVE FALSE
      BY <1>6
    <3>2. wire.shell[1].cell \in Cells
      BY <1>2, <3>1 DEF Spoken, WireOK, Sent
    <3> QED
      BY <1>1, <2>1, <3>1, <3>2 DEF OfActive
  <2>5. wire.iopub = <<>>
    <3>1. SUFFICES ASSUME 1 \in 1 .. Len(wire.iopub) PROVE FALSE
      BY <1>6
    <3>2. wire.iopub[1].cell \in Cells
      BY <1>2, <3>1 DEF Spoken, WireOK, Sent
    <3> QED
      BY <1>1, <2>1, <3>1, <3>2 DEF OfActive
  <2>6. Len(wire'.inbox) = 1 /\ \A n \in 1 .. Len(wire'.inbox) : wire'.inbox[n] = c
    BY <1>7, <2>2
  <2>7. Len(wire.shell) = 0 /\ Len(wire.iopub) = 0
    BY <2>4, <2>5
  <2> QED
    BY <1>1, <1>6, <2>3, <2>4, <2>5, <2>6, <2>7 DEF OfActive
<1>14. OneByOne'
  BY <1>6, <1>13 DEF OneByOne
<1>15. OutputFirst'
  <2>1. wire.busy # c
    BY <1>2, <1>6, <1>10, KernelAssumption DEF Spoken, WireOK
  <2>2. \A n \in 1 .. Len(wire.iopub) : wire.iopub[n].cell # c
    BY <1>2, <1>10 DEF Spoken, WireOK
  <2> QED
    BY <1>1, <1>6, <2>1, <2>2 DEF OutputFirst
<1>16. OwnResult'
  BY <1>2, <1>4, <1>9 DEF Spoken, OwnResult
<1> QED
  BY <1>5, <1>11, <1>12, <1>14, <1>15, <1>16 DEF CallsOK, Spoken

\* The active cell is given up and its call told.
Told == /\ TurnsKept'
        /\ active' = NoCell /\ heard' = {}
        /\ call' \in [Cells -> CallState]
        /\ \A c \in Sent : c \in Sent'
        /\ \A c \in Cells : call'[c].seen = call[c].seen
        /\ \A c \in Cells : call'[c].end \in {"ok", "error"} => call'[c].end = call[c].end

LEMMA RejectFacts ==
    ASSUME CallsOK, RejectActive,
           \/ restart'.pc = restart.pc
           \/ restart'.pc # "none" /\ AtTurn(Restart)
    PROVE  Told
<1>1. TurnsKept /\ call \in [Cells -> CallState] /\ active' = NoCell /\ heard' = {}
  BY DEF CallsOK, TurnsKept, RejectActive
<1>2. CASE active # NoCell /\ call[active].pc = "sent"
  <2>1. Settle(active, "failed") /\ active \in Cells
    BY <1>2 DEF RejectActive, CallsOK, Spoken, WireOK, Sent
  <2>2. AtTurn(active)
    BY <1>1, <1>2, <2>1 DEF TurnsKept
  <2>3. restart'.pc = restart.pc
    BY <2>1, <2>2, KernelAssumption DEF AtTurn
  <2> DEFINE r == Ended(call[active], "failed")
  <2>4. r \in CallState /\ r.pc = "done" /\ r.seen = call[active].seen /\ r.end = "failed"
    BY <1>1, <2>1, EndedFacts DEF CallEnds
  <2> HIDE DEF r
  <2>5. TurnsKept' /\ call'[active] = r /\ \A d \in Cells : d # active => call'[d] = call[d]
    BY <1>1, <2>1, <2>2, <2>3, SettleTurns DEF CallEnds, r
  <2>6. \A c \in Sent : c \in Sent'
    BY <2>4, <2>5 DEF Sent
  <2> QED
    BY <1>1, <2>4, <2>5, <2>6 DEF Told, TurnsKept
<1>3. CASE ~(active # NoCell /\ call[active].pc = "sent")
  <2>1. call' = call /\ turns' = turns
    BY <1>3 DEF RejectActive
  <2>2. TurnsKept'
    BY <1>1, <2>1, TurnsStay
  <2> QED
    BY <1>1, <2>1, <2>2 DEF Told, Sent
<1> QED
  BY <1>2, <1>3

LEMMA CleanupCalls ==
    ASSUME CallsOK, CleanupResources,
           \/ restart'.pc = restart.pc
           \/ restart'.pc # "none" /\ AtTurn(Restart)
    PROVE  CallsOK'
<1>1. RejectActive /\ wire' = Silent
  BY DEF CleanupResources
<1>2. Told
  BY <1>1, RejectFacts
<1>3. Hushed
  BY <1>1, SilentFacts
<1>4. Spoken'
  BY <1>2, <1>3, LineHushed DEF CallsOK, Told
<1> QED
  BY <1>2, <1>4 DEF CallsOK, Told

\* Nothing happens to the calls nor on the sockets.
LEMMA CallsStay ==
    ASSUME CallsOK, UNCHANGED <<cells, wire>>,
           \/ restart'.pc = restart.pc
           \/ restart'.pc # "none" /\ AtTurn(Restart)
    PROVE  CallsOK'
<1>1. TurnsKept'
  BY TurnsStay DEF CallsOK, cells
<1>2. SameLine
  BY SameWire DEF CallsOK
<1>3. Spoken'
  BY <1>2, NothingSaid DEF CallsOK, cells
<1> QED
  BY <1>1, <1>3 DEF CallsOK

LEMMA StartupCalls ==
    ASSUME CallsOK, NEW a \in Starts,
           Startup(a) \/ PythonFails(a) \/ ForkGivenUp(a) \/ LateFork(a)
    PROVE  CallsOK'
<1>0. restart' = restart
  BY DEF Startup, PythonReady, Forked, Resolved, GivesUp, StartupCleaned, ProbeReady,
         PythonFails, ForkGivenUp, LateFork
<1>1. CASE UNCHANGED <<cells, wire>>
  BY <1>0, <1>1, CallsStay
<1>2. CASE CleanupResources
  BY <1>0, <1>2, CleanupCalls
<1>3. CASE Resolved(a)
  <2>1. UNCHANGED cells /\ wire' = [Silent EXCEPT !.open = TRUE]
    BY <1>3 DEF Resolved
  <2>2. TurnsKept'
    BY <1>0, <2>1, TurnsStay DEF CallsOK, cells
  <2>3. Hushed
    BY <2>1, SilentFacts
  <2>4. Spoken'
    BY <2>1, <2>3, LineHushed DEF CallsOK, cells, TurnsKept, Sent
  <2> QED
    BY <2>2, <2>4 DEF CallsOK
<1> QED
  BY <1>1, <1>2, <1>3 DEF Startup, PythonReady, Forked, GivesUp, StartupCleaned,
     ProbeReady, PythonFails, ForkGivenUp, LateFork

\* The restart gives its turn up.
LEMMA RestartEndsCalls ==
    ASSUME CallsOK, RestartEnds
    PROVE  CallsOK'
<1>1. /\ restart.pc = "starting" /\ restart'.pc = "none" /\ turns' = Tail(turns)
      /\ UNCHANGED <<call, active, heard, wire>> /\ TurnsKept /\ Spoken
  BY DEF RestartEnds, CallsOK
<1>2. turns # <<>> /\ Head(turns) = Restart /\ turns \in Seq(Cells \cup {Restart})
  BY <1>1 DEF TurnsKept, AtTurn
<1>3. /\ Len(turns) \in Nat /\ Len(turns) > 0 /\ turns[1] = Restart
      /\ turns' \in Seq(Cells \cup {Restart}) /\ Len(turns') = Len(turns) - 1
      /\ \A n \in 1 .. Len(turns') :
             n + 1 \in 1 .. Len(turns) /\ n + 1 > 1 /\ turns'[n] = turns[n + 1]
  BY <1>1, <1>2, TailFacts
<1>4. \A n \in 1 .. Len(turns') : turns'[n] # Restart
  BY <1>1, <1>3 DEF TurnsKept
<1>5. \A n \in 1 .. Len(turns') : turns'[n] \in Cells =>
          call'[turns'[n]].pc \in {"queued", "clearing", "sent"}
  BY <1>1, <1>3 DEF TurnsKept
<1>6. ASSUME NEW m \in 1 .. Len(turns'), NEW n \in 1 .. Len(turns'), turns'[m] = turns'[n]
      PROVE  m = n
  <2>1. /\ m + 1 \in 1 .. Len(turns) /\ n + 1 \in 1 .. Len(turns)
        /\ turns[m + 1] = turns[n + 1]
    BY <1>3, <1>6
  <2>2. m + 1 = n + 1
    BY <1>1, <2>1 DEF TurnsKept
  <2> QED
    BY <1>3, <2>2
<1>7. \A c \in Cells : call'[c].pc # "sent"
  BY <1>1, <1>2, KernelAssumption DEF TurnsKept, AtTurn
<1>8. TurnsKept'
  BY <1>1, <1>3, <1>4, <1>5, <1>6, <1>7 DEF TurnsKept
<1>9. Spoken'
  BY <1>1, SameWire, NothingSaid
<1> QED
  BY <1>8, <1>9 DEF CallsOK

LEMMA LifeCalls ==
    ASSUME CallsOK,
           ExitSeen \/ AskRestart \/ Restarting \/ Dispose \/ DisposeEnds \/ Kill
    PROVE  CallsOK'
<1>1. CASE ExitSeen \/ DisposeEnds \/ Kill
  BY <1>1, CleanupCalls DEF ExitSeen, DisposeEnds, Kill
<1>2. CASE Dispose
  <2>1. restart' = restart
    BY <1>2 DEF Dispose
  <2>2. UNCHANGED <<cells, wire>> \/ CleanupResources
    BY <1>2 DEF Dispose
  <2> QED
    BY <2>1, <2>2, CallsStay, CleanupCalls
<1>3. CASE AskRestart
  <2>1. TurnsKept'
    BY <1>3, KernelAssumption, AppendTurns DEF AskRestart, CallsOK, TurnsKept
  <2>2. Spoken'
    BY <1>3, SameWire, NothingSaid DEF AskRestart, CallsOK
  <2> QED
    BY <2>1, <2>2 DEF CallsOK
<1>4. CASE RestartStops
  <2>1. AtTurn(Restart) /\ UNCHANGED <<cells, wire>> /\ restart'.pc # "none"
    <3>1. restart.pc = "queued" /\ restart' = [restart EXCEPT !.pc = "stopping"]
      BY <1>4 DEF RestartStops
    <3>2. restart'.pc = "stopping" \/ restart'.pc = restart.pc
      BY <3>1
    <3> QED
      BY <1>4, <3>1, <3>2 DEF RestartStops
  <2> QED
    BY <2>1, CallsStay
<1>5. CASE RestartLaunches
  <2>1. restart'.pc = "starting" /\ CleanupResources
    BY <1>5 DEF RestartLaunches
  <2>2. AtTurn(Restart)
    BY <1>5 DEF RestartLaunches, CallsOK, TurnsKept
  <2> QED
    BY <2>1, <2>2, CleanupCalls
<1>6. CASE RestartEnds
  BY <1>6, RestartEndsCalls
<1> QED
  BY <1>1, <1>2, <1>3, <1>4, <1>5, <1>6 DEF Restarting

-----------------------------------------------------------------------------
(* The kernel.                                                             *)

\* Something is added to IOPub.
LEMMA AheadStays ==
    ASSUME wire \in Wires, NEW m \in [is : {"output", "idle", "request"}, cell : Cells],
           wire'.iopub = Append(wire.iopub, m)
    PROVE  /\ wire'.iopub \in Seq([is : {"output", "idle", "request"}, cell : Cells])
           /\ Len(wire.iopub) \in Nat /\ Len(wire'.iopub) = Len(wire.iopub) + 1
           /\ wire'.iopub[Len(wire.iopub) + 1] = m
           /\ \A n \in 1 .. Len(wire.iopub) : wire'.iopub[n] = wire.iopub[n]
           /\ \A n \in 1 .. Len(wire'.iopub) : n \in 1 .. Len(wire.iopub) \/ n = Len(wire.iopub) + 1
           /\ \A c \in Cells, n \in 1 .. Len(wire.iopub) :
                  OutputAhead(c, n) => OutputAhead(c, n)'
           /\ \A c \in Cells, n \in Nat :
                  n >= Len(wire.iopub) /\ OutputAhead(c, Len(wire.iopub)) => OutputAhead(c, n)'
<1>1. wire.iopub \in Seq([is : {"output", "idle", "request"}, cell : Cells])
  BY DEF Wires
<1>2. /\ wire'.iopub \in Seq([is : {"output", "idle", "request"}, cell : Cells])
      /\ Len(wire.iopub) \in Nat /\ Len(wire'.iopub) = Len(wire.iopub) + 1
      /\ wire'.iopub[Len(wire.iopub) + 1] = m
      /\ \A n \in 1 .. Len(wire.iopub) : wire'.iopub[n] = wire.iopub[n]
      /\ \A n \in 1 .. Len(wire'.iopub) : n \in 1 .. Len(wire.iopub) \/ n = Len(wire.iopub) + 1
  BY <1>1, AppendFacts
<1>3. ASSUME NEW c \in Cells, NEW n \in 1 .. Len(wire.iopub), OutputAhead(c, n)
      PROVE  OutputAhead(c, n)'
  <2>1. PICK k \in 1 .. n : wire.iopub[k].is = "output" /\ wire.iopub[k].cell = c
    BY <1>3 DEF OutputAhead
  <2>2. k \in 1 .. Len(wire.iopub)
    BY <1>2, <2>1
  <2> QED
    BY <1>2, <2>1, <2>2 DEF OutputAhead
<1>4. ASSUME NEW c \in Cells, NEW n \in Nat, n >= Len(wire.iopub),
             OutputAhead(c, Len(wire.iopub))
      PROVE  OutputAhead(c, n)'
  <2>1. PICK k \in 1 .. Len(wire.iopub) : wire.iopub[k].is = "output" /\ wire.iopub[k].cell = c
    BY <1>4 DEF OutputAhead
  <2>2. k \in 1 .. n
    BY <1>2, <1>4, <2>1
  <2> QED
    BY <1>2, <2>1, <2>2 DEF OutputAhead
<1> QED
  BY <1>2, <1>3, <1>4

\* IOPub delivers something that is no output of c.
LEMMA AheadShifts ==
    ASSUME wire \in Wires, wire.iopub # <<>>, wire'.iopub = Tail(wire.iopub), NEW c \in Cells,
           ~(Head(wire.iopub).is = "output" /\ Head(wire.iopub).cell = c)
    PROVE  /\ OutputAhead(c, Len(wire.iopub)) => OutputAhead(c, Len(wire.iopub))'
           /\ \A n \in 1 .. Len(wire'.iopub) : OutputAhead(c, n + 1) => OutputAhead(c, n)'
<1>1. wire.iopub \in Seq([is : {"output", "idle", "request"}, cell : Cells])
  BY DEF Wires
<1>2. /\ Len(wire.iopub) \in Nat /\ Len(wire.iopub) > 0 /\ Head(wire.iopub) = wire.iopub[1]
      /\ Len(wire'.iopub) = Len(wire.iopub) - 1
      /\ \A n \in 1 .. Len(wire'.iopub) : wire'.iopub[n] = wire.iopub[n + 1]
  BY <1>1, TailFacts
<1>3. ASSUME NEW n \in 1 .. Len(wire.iopub), OutputAhead(c, n)
      PROVE  \E k \in 1 .. n - 1 : wire'.iopub[k].is = "output" /\ wire'.iopub[k].cell = c
  <2>1. PICK k \in 1 .. n : wire.iopub[k].is = "output" /\ wire.iopub[k].cell = c
    BY <1>3 DEF OutputAhead
  <2>2. k # 1
    BY <1>2, <2>1
  <2>3. k - 1 \in 1 .. Len(wire'.iopub) /\ k - 1 \in 1 .. n - 1 /\ (k - 1) + 1 = k
    BY <1>2, <2>1, <2>2
  <2>4. wire'.iopub[k - 1] = wire.iopub[k]
    BY <1>2, <2>3
  <2> QED
    BY <2>1, <2>3, <2>4
<1>4. ASSUME OutputAhead(c, Len(wire.iopub))
      PROVE  OutputAhead(c, Len(wire.iopub))'
  <2>1. Len(wire.iopub) \in 1 .. Len(wire.iopub)
    BY <1>2
  <2>2. \E k \in 1 .. Len(wire.iopub) - 1 : wire'.iopub[k].is = "output" /\ wire'.iopub[k].cell = c
    BY <1>3, <1>4, <2>1
  <2> QED
    BY <1>2, <2>2 DEF OutputAhead
<1>5. ASSUME NEW n \in 1 .. Len(wire'.iopub), OutputAhead(c, n + 1)
      PROVE  OutputAhead(c, n)'
  <2>1. n + 1 \in 1 .. Len(wire.iopub) /\ (n + 1) - 1 = n
    BY <1>2
  <2>2. \E k \in 1 .. n : wire'.iopub[k].is = "output" /\ wire'.iopub[k].cell = c
    BY <1>3, <1>5, <2>1
  <2> QED
    BY <2>2 DEF OutputAhead
<1> QED
  BY <1>4, <1>5

\* The kernel takes a cell and prints.
LEMMA KernelRunsCalls ==
    ASSUME CallsOK, KernelRuns
    PROVE  CallsOK'
<1> DEFINE c == Head(wire.inbox)
           m == [is |-> "output", cell |-> c]
<1>1. /\ wire.busy = NoCell /\ wire.inbox # <<>> /\ UNCHANGED <<cells, restart>>
      /\ wire' = [wire EXCEPT !.busy = c, !.inbox = Tail(@), !.iopub = Append(@, m)]
  BY DEF KernelRuns, Behind, manager
<1>2. wire \in Wires /\ TurnsKept /\ Spoken /\ WireOK
  BY DEF CallsOK, Spoken, WireOK
<1>3. wire.inbox \in Seq(Cells)
  BY <1>2 DEF Wires
<1>4. /\ Len(wire.inbox) \in Nat /\ Len(wire.inbox) > 0 /\ c = wire.inbox[1] /\ c \in Cells
      /\ Tail(wire.inbox) \in Seq(Cells) /\ Len(Tail(wire.inbox)) = Len(wire.inbox) - 1
      /\ \A n \in 1 .. Len(Tail(wire.inbox)) :
             n + 1 \in 1 .. Len(wire.inbox) /\ Tail(wire.inbox)[n] = wire.inbox[n + 1]
  BY <1>1, <1>3, TailFacts
<1>5. m \in [is : {"output", "idle", "request"}, cell : Cells] /\ m.is = "output" /\ m.cell = c
  BY <1>4
<1> HIDE DEF c, m
<1>6. /\ wire'.busy = c /\ wire'.inbox = Tail(wire.inbox) /\ wire'.shell = wire.shell
      /\ wire'.down = wire.down /\ wire'.iopub = Append(wire.iopub, m)
  BY <1>1, <1>2 DEF Wires
<1>7. /\ wire'.iopub \in Seq([is : {"output", "idle", "request"}, cell : Cells])
      /\ Len(wire.iopub) \in Nat /\ Len(wire'.iopub) = Len(wire.iopub) + 1
      /\ wire'.iopub[Len(wire.iopub) + 1] = m
      /\ \A n \in 1 .. Len(wire.iopub) : wire'.iopub[n] = wire.iopub[n]
      /\ \A n \in 1 .. Len(wire'.iopub) : n \in 1 .. Len(wire.iopub) \/ n = Len(wire.iopub) + 1
      /\ \A d \in Cells, n \in 1 .. Len(wire.iopub) :
             OutputAhead(d, n) => OutputAhead(d, n)'
  BY <1>2, <1>5, <1>6, AheadStays
<1>8. wire' \in Wires
  BY <1>1, <1>2, <1>4, <1>6, <1>7 DEF Wires
<1>9. Sent' = Sent /\ active' = active /\ heard' = heard /\ call' = call
  BY <1>1 DEF Sent, cells
<1>10. c \in Sent
  BY <1>2, <1>4 DEF WireOK
<1>11. WireOK'
  BY <1>2, <1>4, <1>5, <1>6, <1>7, <1>8, <1>9, <1>10 DEF WireOK
<1>12. Deaf'
  BY <1>2, <1>6, <1>9 DEF Spoken, Deaf
<1>13. ASSUME wire.down = {}
       PROVE  OfActive'
  <2>1. OfActive
    BY <1>2, <1>13 DEF Spoken, OneByOne
  <2>2. /\ wire.shell = <<>> /\ "reply" \notin heard /\ "idle" \notin heard
        /\ \A n \in 1 .. Len(wire.iopub) : wire.iopub[n].is # "idle"
    BY <1>1, <2>1 DEF OfActive
  <2>3. c = active /\ Len(wire.inbox) = 1
    <3>1. 1 \in 1 .. Len(wire.inbox) /\ Len(wire.inbox) <= 1
      BY <1>4, <2>1 DEF OfActive
    <3>2. wire.inbox[1] = active
      BY <2>1, <3>1 DEF OfActive
    <3>3. c = active
      BY <1>4, <3>2
    <3>4. Len(wire.inbox) = 1
      <4>1. Len(wire.inbox) \in Nat /\ Len(wire.inbox) > 0 /\ Len(wire.inbox) <= 1
        BY <1>4, <2>1 DEF OfActive
      <4>2. \A k \in Nat : k > 0 /\ k <= 1 => k = 1
        OBVIOUS
      <4> QED
        BY <4>1, <4>2
    <3> QED
      BY <3>3, <3>4
  <2>4. \A n \in 1 .. Len(wire'.iopub) :
            wire'.iopub[n].is # "idle" /\ wire'.iopub[n].cell = active
    BY <1>5, <1>7, <2>1, <2>2, <2>3 DEF OfActive
  <2>5. Len(wire'.inbox) = 0 /\ wire'.inbox = <<>>
    BY <1>4, <1>6, <2>3
  <2>6. Len(wire'.shell) = 0 /\ wire'.shell = <<>>
    BY <1>6, <2>2
  <2>7. (\A n \in 1 .. Len(wire'.inbox) : FALSE) /\ (\A n \in 1 .. Len(wire'.shell) : FALSE)
    BY <2>5, <2>6
  <2>8. active' = active /\ "reply" \notin heard' /\ "idle" \notin heard'
    BY <1>9, <2>2
  <2>9. wire'.busy = active'
    BY <1>6, <2>3, <2>8
  <2> QED
    BY <2>4, <2>5, <2>6, <2>7, <2>8, <2>9 DEF OfActive
<1>14. OneByOne'
  BY <1>6, <1>13 DEF OneByOne
<1>15. ASSUME NEW d \in Cells, d = active, call[d].pc = "sent", ~call[d].seen
       PROVE  /\ "idle" \notin heard
              /\ c = d => OutputAhead(d, Len(wire.iopub))'
              /\ \A n \in 1 .. Len(wire'.iopub) :
                     wire'.iopub[n].is = "idle" /\ wire'.iopub[n].cell = d => OutputAhead(d, n)'
  <2>1. /\ "idle" \notin heard
        /\ \A n \in 1 .. Len(wire.iopub) :
               wire.iopub[n].is = "idle" /\ wire.iopub[n].cell = d => OutputAhead(d, n)
    BY <1>2, <1>15 DEF Spoken, OutputFirst
  <2>2. c = d => OutputAhead(d, Len(wire.iopub))'
    BY <1>5, <1>7 DEF OutputAhead
  <2>3. ASSUME NEW n \in 1 .. Len(wire'.iopub), wire'.iopub[n].is = "idle",
               wire'.iopub[n].cell = d
        PROVE  OutputAhead(d, n)'
    <3>1. n \in 1 .. Len(wire.iopub)
      BY <1>5, <1>7, <2>3
    <3> QED
      BY <1>7, <2>1, <2>3, <3>1
  <2> QED
    BY <2>1, <2>2, <2>3
<1>16. OutputFirst'
  BY <1>6, <1>9, <1>15 DEF OutputFirst
<1>17. OwnResult' /\ TurnsKept'
  BY <1>1, <1>2, <1>9, TurnsStay DEF Spoken, OwnResult, cells
<1> QED
  BY <1>11, <1>12, <1>14, <1>16, <1>17 DEF CallsOK, Spoken

\* The cell that runs ends: its reply and its idle go out.
LEMMA FinishedCalls ==
    ASSUME CallsOK, wire.busy # NoCell, NEW ok \in BOOLEAN, UNCHANGED <<cells, restart>>,
           \/ wire' = Finished(ok)
           \/ wire' = [Finished(ok) EXCEPT !.interrupt = FALSE]
    PROVE  CallsOK'
<1> DEFINE c == wire.busy
           m == [is |-> "idle", cell |-> c]
           a == [cell |-> c, ok |-> ok]
           f == Finished(ok)
<1>1. wire \in Wires /\ TurnsKept /\ Spoken /\ WireOK
  BY DEF CallsOK, Spoken, WireOK
<1>2. c \in Cells /\ wire.shell \in Seq([cell : Cells, ok : BOOLEAN])
  BY <1>1 DEF Wires
<1>3. /\ m \in [is : {"output", "idle", "request"}, cell : Cells] /\ m.is = "idle" /\ m.cell = c
      /\ a \in [cell : Cells, ok : BOOLEAN] /\ a.cell = c
  BY <1>2
<1>4. f = [wire EXCEPT !.busy = NoCell, !.shell = Append(@, a), !.iopub = Append(@, m)]
  BY DEF Finished
<1> HIDE DEF m, a, f
<1>5. wire' = f \/ wire' = [f EXCEPT !.interrupt = FALSE]
  BY DEF f
<1>6. /\ wire'.busy = NoCell /\ wire'.inbox = wire.inbox
      /\ wire'.shell = Append(wire.shell, a)
      /\ wire'.down = wire.down /\ wire'.iopub = Append(wire.iopub, m)
  BY <1>1, <1>4, <1>5 DEF Wires
<1>7. /\ wire'.iopub \in Seq([is : {"output", "idle", "request"}, cell : Cells])
      /\ Len(wire.iopub) \in Nat /\ Len(wire'.iopub) = Len(wire.iopub) + 1
      /\ wire'.iopub[Len(wire.iopub) + 1] = m
      /\ \A n \in 1 .. Len(wire.iopub) : wire'.iopub[n] = wire.iopub[n]
      /\ \A n \in 1 .. Len(wire'.iopub) : n \in 1 .. Len(wire.iopub) \/ n = Len(wire.iopub) + 1
      /\ \A d \in Cells, n \in 1 .. Len(wire.iopub) :
             OutputAhead(d, n) => OutputAhead(d, n)'
      /\ \A d \in Cells, n \in Nat :
             n >= Len(wire.iopub) /\ OutputAhead(d, Len(wire.iopub)) => OutputAhead(d, n)'
  BY <1>1, <1>3, <1>6, AheadStays
<1>8. /\ wire'.shell \in Seq([cell : Cells, ok : BOOLEAN])
      /\ Len(wire.shell) \in Nat /\ Len(wire'.shell) = Len(wire.shell) + 1
      /\ wire'.shell[Len(wire.shell) + 1] = a
      /\ \A n \in 1 .. Len(wire.shell) : wire'.shell[n] = wire.shell[n]
      /\ \A n \in 1 .. Len(wire'.shell) : n \in 1 .. Len(wire.shell) \/ n = Len(wire.shell) + 1
  BY <1>2, <1>3, <1>6, AppendFacts
<1>9. wire' \in Wires
  <2>1. f \in Wires
    <3>1. Append(wire.shell, a) \in Seq([cell : Cells, ok : BOOLEAN])
          /\ Append(wire.iopub, m) \in Seq([is : {"output", "idle", "request"}, cell : Cells])
      BY <1>6, <1>7, <1>8
    <3> QED
      BY <1>1, <1>4, <3>1 DEF Wires
  <2> QED
    BY <1>5, <2>1 DEF Wires
<1>10. Sent' = Sent /\ active' = active /\ heard' = heard /\ call' = call
  BY DEF Sent, cells
<1>11. c \in Sent
  BY <1>1 DEF WireOK
<1>12. WireOK'
  BY <1>1, <1>3, <1>6, <1>7, <1>8, <1>9, <1>10, <1>11 DEF WireOK
<1>13. Deaf'
  BY <1>1, <1>6, <1>10 DEF Spoken, Deaf
<1>14. ASSUME wire.down = {}
       PROVE  OfActive'
  <2>1. OfActive
    BY <1>1, <1>14 DEF Spoken, OneByOne
  <2>2. /\ wire.shell = <<>> /\ "reply" \notin heard /\ "idle" \notin heard
        /\ \A n \in 1 .. Len(wire.iopub) : wire.iopub[n].is # "idle"
        /\ c = active
    BY <2>1 DEF OfActive
  <2>3. Len(wire.inbox) = 0 /\ wire.inbox = <<>>
    <3>1. wire.inbox \in Seq(Cells)
      BY <1>1 DEF Wires
    <3>2. ~(1 \in 1 .. Len(wire.inbox))
      BY <2>1 DEF OfActive
    <3> QED
      BY <3>1, <3>2
  <2>4. Len(wire'.shell) = 1 /\ \A n \in 1 .. Len(wire'.shell) : wire'.shell[n].cell = active
    BY <1>3, <1>8, <2>2
  <2>5. \A n \in 1 .. Len(wire'.iopub) :
            /\ wire'.iopub[n].is = "idle" => n = Len(wire'.iopub)
            /\ wire'.iopub[n].cell = active
    BY <1>3, <1>7, <2>1, <2>2 DEF OfActive
  <2> QED
    BY <1>6, <1>10, <2>2, <2>3, <2>4, <2>5 DEF OfActive
<1>15. OneByOne'
  BY <1>6, <1>14 DEF OneByOne
<1>16. ASSUME NEW d \in Cells, d = active, call[d].pc = "sent", ~call[d].seen
       PROVE  /\ "idle" \notin heard
              /\ \A n \in 1 .. Len(wire'.iopub) :
                     wire'.iopub[n].is = "idle" /\ wire'.iopub[n].cell = d => OutputAhead(d, n)'
  <2>1. /\ "idle" \notin heard
        /\ c = d => OutputAhead(d, Len(wire.iopub))
        /\ \A n \in 1 .. Len(wire.iopub) :
               wire.iopub[n].is = "idle" /\ wire.iopub[n].cell = d => OutputAhead(d, n)
    BY <1>1, <1>16 DEF Spoken, OutputFirst
  <2>2. ASSUME NEW n \in 1 .. Len(wire'.iopub), wire'.iopub[n].is = "idle",
               wire'.iopub[n].cell = d
        PROVE  OutputAhead(d, n)'
    <3>1. CASE n \in 1 .. Len(wire.iopub)
      BY <1>7, <2>1, <2>2, <3>1
    <3>2. CASE n = Len(wire.iopub) + 1
      <4>1. OutputAhead(d, Len(wire.iopub)) /\ n \in Nat /\ n >= Len(wire.iopub)
        BY <1>3, <1>7, <2>1, <2>2, <3>2
      <4> QED
        BY <1>7, <4>1
    <3> QED
      BY <1>7, <3>1, <3>2
  <2> QED
    BY <2>1, <2>2
<1>17. OutputFirst'
  BY <1>6, <1>10, <1>16, KernelAssumption DEF OutputFirst
<1>18. OwnResult' /\ TurnsKept'
  BY <1>1, <1>10, TurnsStay DEF Spoken, OwnResult, cells
<1> QED
  BY <1>12, <1>13, <1>15, <1>17, <1>18 DEF CallsOK, Spoken

\* The cell that runs asks the host.
LEMMA KernelAsksCalls ==
    ASSUME CallsOK, KernelAsks
    PROVE  CallsOK'
<1> DEFINE m == [is |-> "request", cell |-> wire.busy]
<1>1. /\ wire.busy \in Cells /\ UNCHANGED <<cells, restart>>
      /\ wire' = [wire EXCEPT !.asked = TRUE, !.iopub = Append(@, m)]
  BY KernelAssumption DEF KernelAsks, Behind, manager
<1>2. wire \in Wires /\ TurnsKept /\ Spoken /\ WireOK
  BY DEF CallsOK, Spoken, WireOK
<1>3. /\ m \in [is : {"output", "idle", "request"}, cell : Cells] /\ m.is = "request"
      /\ m.cell = wire.busy
  BY <1>1
<1> HIDE DEF m
<1>4. /\ wire'.busy = wire.busy /\ wire'.inbox = wire.inbox /\ wire'.shell = wire.shell
      /\ wire'.down = wire.down /\ wire'.iopub = Append(wire.iopub, m)
  BY <1>1, <1>2 DEF Wires
<1>5. /\ wire'.iopub \in Seq([is : {"output", "idle", "request"}, cell : Cells])
      /\ Len(wire.iopub) \in Nat /\ Len(wire'.iopub) = Len(wire.iopub) + 1
      /\ wire'.iopub[Len(wire.iopub) + 1] = m
      /\ \A n \in 1 .. Len(wire.iopub) : wire'.iopub[n] = wire.iopub[n]
      /\ \A n \in 1 .. Len(wire'.iopub) : n \in 1 .. Len(wire.iopub) \/ n = Len(wire.iopub) + 1
      /\ \A d \in Cells, n \in 1 .. Len(wire.iopub) :
             OutputAhead(d, n) => OutputAhead(d, n)'
      /\ \A d \in Cells, n \in Nat :
             n >= Len(wire.iopub) /\ OutputAhead(d, Len(wire.iopub)) => OutputAhead(d, n)'
  BY <1>2, <1>3, <1>4, AheadStays
<1>6. wire' \in Wires
  <2>1. Append(wire.iopub, m) \in Seq([is : {"output", "idle", "request"}, cell : Cells])
    BY <1>4, <1>5
  <2> QED
    BY <1>1, <1>2, <2>1 DEF Wires
<1>7. Sent' = Sent /\ active' = active /\ heard' = heard /\ call' = call
  BY <1>1 DEF Sent, cells
<1>8. WireOK'
  BY <1>1, <1>2, <1>3, <1>4, <1>5, <1>6, <1>7, KernelAssumption DEF WireOK
<1>9. Deaf'
  BY <1>2, <1>4, <1>7 DEF Spoken, Deaf
<1>10. ASSUME wire.down = {}
       PROVE  OfActive'
  <2>1. OfActive
    BY <1>2, <1>10 DEF Spoken, OneByOne
  <2>2. /\ wire.busy # NoCell /\ "idle" \notin heard /\ wire.busy = active
        /\ \A n \in 1 .. Len(wire.iopub) : wire.iopub[n].is # "idle"
    BY <1>1, <2>1, KernelAssumption DEF OfActive
  <2>3. \A n \in 1 .. Len(wire'.iopub) :
            wire'.iopub[n].is # "idle" /\ wire'.iopub[n].cell = active
    BY <1>3, <1>5, <2>1, <2>2 DEF OfActive
  <2> QED
    BY <1>4, <1>7, <2>1, <2>2, <2>3 DEF OfActive
<1>11. OneByOne'
  BY <1>4, <1>10 DEF OneByOne
<1>12. ASSUME NEW d \in Cells, d = active, call[d].pc = "sent", ~call[d].seen
       PROVE  /\ "idle" \notin heard
              /\ wire.busy = d => OutputAhead(d, Len(wire.iopub))'
              /\ \A n \in 1 .. Len(wire'.iopub) :
                     wire'.iopub[n].is = "idle" /\ wire'.iopub[n].cell = d => OutputAhead(d, n)'
  <2>1. /\ "idle" \notin heard
        /\ wire.busy = d => OutputAhead(d, Len(wire.iopub))
        /\ \A n \in 1 .. Len(wire.iopub) :
               wire.iopub[n].is = "idle" /\ wire.iopub[n].cell = d => OutputAhead(d, n)
    BY <1>2, <1>12 DEF Spoken, OutputFirst
  <2>2. ASSUME wire.busy = d
        PROVE  OutputAhead(d, Len(wire.iopub))'
    <3>1. \E k \in 1 .. Len(wire.iopub) : wire.iopub[k].is = "output" /\ wire.iopub[k].cell = d
      BY <2>1, <2>2 DEF OutputAhead
    <3>2. \E k \in 1 .. Len(wire'.iopub) : wire'.iopub[k].is = "output" /\ wire'.iopub[k].cell = d
      BY <1>5, <3>1
    <3> QED
      BY <3>2 DEF OutputAhead
  <2>3. ASSUME NEW n \in 1 .. Len(wire'.iopub), wire'.iopub[n].is = "idle",
               wire'.iopub[n].cell = d
        PROVE  OutputAhead(d, n)'
    <3>1. n \in 1 .. Len(wire.iopub)
      BY <1>3, <1>5, <2>3
    <3> QED
      BY <1>5, <2>1, <2>3, <3>1
  <2> QED
    BY <2>1, <2>2, <2>3
<1>13. OutputFirst'
  BY <1>4, <1>7, <1>12 DEF OutputFirst
<1>14. OwnResult' /\ TurnsKept'
  BY <1>1, <1>2, <1>7, TurnsStay DEF Spoken, OwnResult, cells
<1> QED
  BY <1>8, <1>9, <1>11, <1>13, <1>14 DEF CallsOK, Spoken

\* The kernel dies: what it has not sent is lost.
LEMMA KernelDiesCalls ==
    ASSUME CallsOK, KernelDies
    PROVE  CallsOK'
<1>1. /\ UNCHANGED <<cells, restart>>
      /\ wire' = [wire EXCEPT !.busy = NoCell, !.inbox = <<>>, !.interrupt = FALSE]
  BY DEF KernelDies
<1>2. wire \in Wires /\ TurnsKept /\ Spoken /\ WireOK
  BY DEF CallsOK, Spoken, WireOK
<1>3. /\ wire'.busy = NoCell /\ wire'.inbox = <<>> /\ wire'.shell = wire.shell
      /\ wire'.down = wire.down /\ wire'.iopub = wire.iopub
  BY <1>1, <1>2 DEF Wires
<1>4. wire' \in Wires
  <2>1. <<>> \in Seq(Cells)
    OBVIOUS
  <2> QED
    BY <1>1, <1>2, <2>1 DEF Wires
<1>5. Sent' = Sent /\ active' = active /\ heard' = heard /\ call' = call
  BY <1>1 DEF Sent, cells
<1>6. Len(wire'.inbox) = 0
  BY <1>3
<1>7. WireOK'
  BY <1>2, <1>3, <1>4, <1>5, <1>6 DEF WireOK
<1>8. Deaf'
  BY <1>2, <1>3, <1>5 DEF Spoken, Deaf
<1>9. OneByOne'
  BY <1>2, <1>3, <1>5, <1>6 DEF Spoken, OneByOne, OfActive
<1>10. \A d, n : OutputAhead(d, n) <=> OutputAhead(d, n)'
  BY <1>3 DEF OutputAhead
<1>11. OutputFirst'
  BY <1>2, <1>3, <1>5, <1>10, KernelAssumption DEF Spoken, OutputFirst
<1>12. OwnResult' /\ TurnsKept'
  BY <1>1, <1>2, <1>5, TurnsStay DEF Spoken, OwnResult, cells
<1> QED
  BY <1>7, <1>8, <1>9, <1>11, <1>12 DEF CallsOK, Spoken

LEMMA KernelSteps ==
    ASSUME CallsOK,
           KernelRuns \/ KernelEnds \/ KernelInterrupted \/ KernelAsks \/ KernelDies
    PROVE  CallsOK'
<1>1. CASE KernelEnds
  BY <1>1, FinishedCalls, KernelAssumption DEF KernelEnds, Behind, manager
<1>2. CASE KernelInterrupted
  <2>1. UNCHANGED <<cells, restart>>
    BY <1>2 DEF KernelInterrupted, Behind, manager
  <2>2. CASE wire.busy # NoCell /\ wire' = [Finished(FALSE) EXCEPT !.interrupt = FALSE]
    BY <2>1, <2>2, FinishedCalls
  <2>3. CASE wire' = [wire EXCEPT !.interrupt = FALSE]
    <3>1. SameLine
      BY <2>3, InterruptFacts DEF CallsOK, Spoken, WireOK
    <3>2. TurnsKept' /\ Spoken'
      BY <2>1, <3>1, TurnsStay, NothingSaid DEF CallsOK, cells
    <3> QED
      BY <3>2 DEF CallsOK
  <2> QED
    BY <1>2, <2>2, <2>3 DEF KernelInterrupted
<1> QED
  BY <1>1, <1>2, KernelRunsCalls, KernelAsksCalls, KernelDiesCalls

\* A pump fails: from now on nothing is promised of what meets in the kernel.
LEMMA PumpFailsCalls ==
    ASSUME CallsOK, NEW channel \in {"shell", "iopub"}, PumpFails(channel)
    PROVE  CallsOK'
<1>1. /\ wire' = [wire EXCEPT !.down = @ \cup {channel}] /\ RejectActive
      /\ restart' = restart
  BY DEF PumpFails, manager
<1>2. Told
  BY <1>1, RejectFacts
<1>3. wire \in Wires /\ WireOK /\ OwnResult
  BY DEF CallsOK, Spoken, WireOK
<1>4. /\ wire'.busy = wire.busy /\ wire'.inbox = wire.inbox /\ wire'.shell = wire.shell
      /\ wire'.iopub = wire.iopub /\ wire'.down = wire.down \cup {channel}
  BY <1>1, <1>3 DEF Wires
<1>5. wire' \in Wires
  <2>1. wire.down \cup {channel} \in SUBSET {"shell", "iopub"}
    BY <1>3 DEF Wires
  <2> QED
    BY <1>1, <1>3, <2>1 DEF Wires
<1>6. WireOK'
  BY <1>2, <1>3, <1>4, <1>5 DEF WireOK, Told
<1>7. Deaf' /\ OneByOne'
  BY <1>2, <1>4 DEF Deaf, OneByOne, Told
<1>8. OutputFirst'
  BY <1>2, KernelAssumption DEF OutputFirst, Told
<1>9. OwnResult'
  BY <1>2, <1>3 DEF OwnResult, Told
<1> QED
  BY <1>2, <1>6, <1>7, <1>8, <1>9 DEF CallsOK, Spoken, Told

-----------------------------------------------------------------------------
(* The pumps.                                                              *)

\* A completion signal changes the calls only when it completes the active cell.
LEMMA SignalFacts ==
    ASSUME CallsOK, NEW c \in Cells, NEW signals \in SUBSET {"reply", "idle", "error"},
           Signal(c, signals), restart' = restart,
           c = active /\ call[c].pc = "sent" /\ Complete(heard \cup signals) => call[c].seen
    PROVE  /\ TurnsKept' /\ OwnResult' /\ heard' \subseteq {"reply", "idle", "error"}
           /\ \A d \in Sent : d \in Sent'
           /\ \/ active' = active /\ heard' = heard /\ call' = call /\ active # c
              \/ active' = active /\ heard' = heard \cup signals /\ call' = call /\ active = c
              \/ active' = NoCell /\ heard' = {} /\ active = c /\ Complete(heard \cup signals)
<1>1. TurnsKept /\ OwnResult /\ call \in [Cells -> CallState] /\ heard \subseteq {"reply", "idle", "error"}
  BY DEF CallsOK, Spoken, WireOK, TurnsKept
<1>2. CASE active # c
  BY <1>1, <1>2, TurnsStay DEF Signal, OwnResult, Sent
<1>3. CASE active = c /\ ~Complete(heard \cup signals)
  BY <1>1, <1>3, TurnsStay DEF Signal, OwnResult, Sent
<1>4. CASE active = c /\ Complete(heard \cup signals) /\ call[c].pc # "sent"
  BY <1>1, <1>4, TurnsStay DEF Signal, OwnResult, Sent
<1>5. CASE active = c /\ Complete(heard \cup signals) /\ call[c].pc = "sent"
  <2> DEFINE end == Outcome(c, heard \cup signals)
             r == Ended(call[c], end)
  <2>1. Settle(c, end) /\ active' = NoCell /\ heard' = {} /\ end \in CallEnds
    BY <1>5 DEF Signal, Outcome, CallEnds
  <2> HIDE DEF end
  <2>2. AtTurn(c) /\ call[c].seen
    BY <1>1, <1>5 DEF TurnsKept
  <2>3. r \in CallState /\ r.pc = "done" /\ r.seen = call[c].seen
    BY <1>1, <2>1, EndedFacts
  <2>4. TurnsKept' /\ call'[c] = r /\ \A d \in Cells : d # c => call'[d] = call[d]
    BY <1>1, <2>1, <2>2, SettleTurns
  <2> HIDE DEF r
  <2>5. OwnResult'
    BY <1>1, <2>2, <2>3, <2>4 DEF OwnResult
  <2>6. \A d \in Sent : d \in Sent'
    BY <2>3, <2>4 DEF Sent
  <2> QED
    BY <1>5, <2>1, <2>4, <2>5, <2>6
<1> QED
  BY <1>2, <1>3, <1>4, <1>5

\* The reply of a cell is delivered.
LEMMA ShellPumpCalls ==
    ASSUME CallsOK, ShellPump
    PROVE  CallsOK'
<1> DEFINE a == Head(wire.shell)
           c == a.cell
           signals == {"reply"} \cup (IF a.ok THEN {} ELSE {"error"})
<1>1. /\ wire.shell # <<>> /\ "shell" \notin wire.down /\ Signal(c, signals)
      /\ wire' = [wire EXCEPT !.shell = Tail(@)] /\ restart' = restart
  BY DEF ShellPump, manager
<1>2. wire \in Wires /\ TurnsKept /\ Spoken /\ WireOK
  BY DEF CallsOK, Spoken, WireOK
<1>3. wire.shell \in Seq([cell : Cells, ok : BOOLEAN])
  BY <1>2 DEF Wires
<1>4. /\ Len(wire.shell) \in Nat /\ Len(wire.shell) > 0 /\ a = wire.shell[1]
      /\ Tail(wire.shell) \in Seq([cell : Cells, ok : BOOLEAN])
      /\ Len(Tail(wire.shell)) = Len(wire.shell) - 1
      /\ \A n \in 1 .. Len(Tail(wire.shell)) :
             n + 1 \in 1 .. Len(wire.shell) /\ Tail(wire.shell)[n] = wire.shell[n + 1]
  BY <1>1, <1>3, TailFacts
<1>5. 1 \in 1 .. Len(wire.shell)
  BY <1>4
<1>6. c \in Sent /\ c \in Cells
  BY <1>2, <1>4, <1>5 DEF WireOK, Sent
<1>7. /\ signals \in SUBSET {"reply", "idle", "error"}
      /\ "reply" \in signals /\ "idle" \notin signals
  OBVIOUS
<1> HIDE DEF a, c, signals
<1>8. /\ wire'.busy = wire.busy /\ wire'.inbox = wire.inbox /\ wire'.shell = Tail(wire.shell)
      /\ wire'.iopub = wire.iopub /\ wire'.down = wire.down
  BY <1>1, <1>2 DEF Wires
<1>9. wire' \in Wires
  BY <1>1, <1>2, <1>4 DEF Wires
<1>10. c = active /\ call[c].pc = "sent" /\ Complete(heard \cup signals) => call[c].seen
  BY <1>2, <1>6, <1>7 DEF Spoken, OutputFirst, Complete
<1>11. /\ TurnsKept' /\ OwnResult' /\ heard' \subseteq {"reply", "idle", "error"}
       /\ \A d \in Sent : d \in Sent'
       /\ \/ active' = active /\ heard' = heard /\ call' = call /\ active # c
          \/ active' = active /\ heard' = heard \cup signals /\ call' = call /\ active = c
          \/ active' = NoCell /\ heard' = {} /\ active = c /\ Complete(heard \cup signals)
  BY <1>1, <1>6, <1>7, <1>10, SignalFacts
<1>12. WireOK'
  <2>1. \A n \in 1 .. Len(wire'.shell) : wire'.shell[n].cell \in Sent'
    BY <1>2, <1>4, <1>8, <1>11 DEF WireOK
  <2> QED
    BY <1>2, <1>8, <1>9, <1>11, <2>1 DEF WireOK
<1>13. Deaf'
  BY <1>1, <1>2, <1>7, <1>8, <1>11 DEF Spoken, Deaf
<1>14. ASSUME wire.down = {}
       PROVE  OfActive'
  <2>1. OfActive
    BY <1>2, <1>14 DEF Spoken, OneByOne
  <2>2. c = active /\ Len(wire.shell) <= 1
    BY <1>4, <1>5, <2>1 DEF OfActive, c
  <2>3. Len(wire'.shell) = 0 /\ wire'.shell = <<>>
    <3>1. Len(wire.shell) \in Nat /\ Len(wire.shell) > 0 /\ Len(wire.shell) <= 1
      BY <1>4, <2>2
    <3>2. \A k \in Nat : k > 0 /\ k <= 1 => k - 1 = 0
      OBVIOUS
    <3>3. Len(wire'.shell) = 0 /\ wire'.shell \in Seq([cell : Cells, ok : BOOLEAN])
      BY <1>4, <1>8, <3>1, <3>2
    <3> QED
      BY <3>3
  <2>4. wire.inbox = <<>> /\ wire.busy = NoCell
    BY <1>1, <2>1 DEF OfActive
  <2>5. Len(wire'.inbox) = 0 /\ wire'.inbox = <<>> /\ wire'.busy = NoCell
    BY <1>8, <2>4
  <2>6. CASE active' = active /\ heard' = heard \cup signals
    BY <1>7, <1>8, <2>1, <2>3, <2>5, <2>6 DEF OfActive
  <2>7. CASE active' = NoCell /\ heard' = {} /\ Complete(heard \cup signals)
    <3>1. "idle" \in heard
      BY <1>7, <2>7 DEF Complete
    <3>2. Len(wire'.iopub) = 0 /\ wire'.iopub = <<>>
      BY <1>8, <2>1, <3>1 DEF OfActive
    <3> QED
      BY <2>3, <2>5, <2>7, <3>2 DEF OfActive
  <2> QED
    BY <1>11, <2>2, <2>6, <2>7
<1>15. OneByOne'
  BY <1>8, <1>14 DEF OneByOne
<1>16. \A d, n : OutputAhead(d, n) <=> OutputAhead(d, n)'
  BY <1>8 DEF OutputAhead
<1>17. OutputFirst'
  <2>1. CASE active' = active /\ call' = call /\ ("idle" \in heard' => "idle" \in heard)
    BY <1>2, <1>8, <1>16, <2>1 DEF Spoken, OutputFirst
  <2>2. CASE active' = NoCell
    BY <2>2, KernelAssumption DEF OutputFirst
  <2> QED
    BY <1>7, <1>11, <2>1, <2>2
<1> QED
  BY <1>11, <1>12, <1>13, <1>15, <1>17 DEF CallsOK, Spoken

\* What IOPub delivers is gone from it.
Delivered(m) ==
    /\ wire \in Wires /\ m \in [is : {"output", "idle", "request"}, cell : Cells]
    /\ wire.iopub # <<>> /\ wire.iopub[1] = m /\ Head(wire.iopub) = m
    /\ m.cell \in Sent /\ 1 \in 1 .. Len(wire.iopub)
    /\ wire' \in Wires
    /\ wire'.busy = wire.busy /\ wire'.inbox = wire.inbox /\ wire'.shell = wire.shell
    /\ wire'.down = wire.down /\ wire'.iopub = Tail(wire.iopub)
    /\ Len(wire.iopub) \in Nat /\ Len(wire'.iopub) = Len(wire.iopub) - 1
    /\ \A n \in 1 .. Len(wire'.iopub) :
           n + 1 \in 1 .. Len(wire.iopub) /\ n + 1 > 1 /\ wire'.iopub[n] = wire.iopub[n + 1]

LEMMA DeliveredFacts ==
    ASSUME CallsOK, wire.iopub # <<>>, wire' = [wire EXCEPT !.iopub = Tail(@)]
    PROVE  Delivered(Head(wire.iopub))
<1>1. wire \in Wires /\ WireOK
  BY DEF CallsOK, Spoken, WireOK
<1>2. wire.iopub \in Seq([is : {"output", "idle", "request"}, cell : Cells])
  BY <1>1 DEF Wires
<1>3. /\ Len(wire.iopub) \in Nat /\ Len(wire.iopub) > 0 /\ Head(wire.iopub) = wire.iopub[1]
      /\ Head(wire.iopub) \in [is : {"output", "idle", "request"}, cell : Cells]
      /\ Tail(wire.iopub) \in Seq([is : {"output", "idle", "request"}, cell : Cells])
      /\ Len(Tail(wire.iopub)) = Len(wire.iopub) - 1
      /\ \A n \in 1 .. Len(Tail(wire.iopub)) :
             n + 1 \in 1 .. Len(wire.iopub) /\ n + 1 > 1
             /\ Tail(wire.iopub)[n] = wire.iopub[n + 1]
  BY <1>2, TailFacts
<1>4. 1 \in 1 .. Len(wire.iopub)
  BY <1>3
<1>5. Head(wire.iopub).cell \in Sent
  BY <1>1, <1>3, <1>4 DEF WireOK
<1>6. /\ wire'.busy = wire.busy /\ wire'.inbox = wire.inbox /\ wire'.shell = wire.shell
      /\ wire'.down = wire.down /\ wire'.iopub = Tail(wire.iopub)
  BY <1>1 DEF Wires
<1>7. wire' \in Wires
  BY <1>1, <1>3 DEF Wires
<1> QED
  BY <1>1, <1>3, <1>4, <1>5, <1>6, <1>7 DEF Delivered

\* The sockets after a delivery, when the cells that were sent still were.
LEMMA DeliveredWire ==
    ASSUME CallsOK, NEW m, Delivered(m), \A d \in Sent : d \in Sent',
           active' = active \/ active' = NoCell, heard' \subseteq {"reply", "idle", "error"}
    PROVE  WireOK'
<1>1. WireOK
  BY DEF CallsOK, Spoken
<1>2. \A n \in 1 .. Len(wire'.iopub) : wire'.iopub[n].cell \in Sent'
  BY <1>1 DEF Delivered, WireOK
<1> QED
  BY <1>1, <1>2 DEF Delivered, WireOK

\* A delivery that is no signal leaves what is the active cell's.
LEMMA DeliveredOneByOne ==
    ASSUME CallsOK, NEW m, Delivered(m), UNCHANGED <<active, heard>>
    PROVE  OneByOne'
<1>1. SUFFICES ASSUME wire.down = {} PROVE OfActive'
  BY DEF Delivered, OneByOne
<1>2. OfActive
  BY <1>1 DEF CallsOK, Spoken, OneByOne
<1>3. "idle" \notin heard
  BY <1>2 DEF OfActive, Delivered
<1>4. \A n \in 1 .. Len(wire'.iopub) :
          /\ wire'.iopub[n].cell = active
          /\ wire'.iopub[n].is = "idle" => n = Len(wire'.iopub)
  BY <1>2 DEF OfActive, Delivered
<1>5. wire.inbox # <<>> \/ wire.busy # NoCell =>
          \A n \in 1 .. Len(wire'.iopub) : wire'.iopub[n].is # "idle"
  BY <1>2 DEF OfActive, Delivered
<1> QED
  BY <1>2, <1>3, <1>4, <1>5 DEF OfActive, Delivered

\* The output of the cells whose output was not delivered stays ahead.
LEMMA DeliveredOutput ==
    ASSUME CallsOK, NEW m, Delivered(m), active' = active, heard' = heard,
           \A d \in Cells : call'[d].pc = "sent" /\ ~call'[d].seen =>
                                call[d].pc = "sent" /\ ~call[d].seen,
           \A d \in Cells : m.is = "output" /\ m.cell = d /\ d = active
                            /\ call[d].pc = "sent" => call'[d].seen
    PROVE  OutputFirst'
<1>1. ASSUME NEW d \in Cells, d = active, call'[d].pc = "sent", ~call'[d].seen
      PROVE  /\ "idle" \notin heard
             /\ wire.busy = d => OutputAhead(d, Len(wire.iopub))'
             /\ \A n \in 1 .. Len(wire'.iopub) :
                    wire'.iopub[n].is = "idle" /\ wire'.iopub[n].cell = d => OutputAhead(d, n)'
  <2>1. call[d].pc = "sent" /\ ~call[d].seen
    BY <1>1
  <2>2. ~(m.is = "output" /\ m.cell = d)
    BY <1>1, <2>1
  <2>3. /\ OutputAhead(d, Len(wire.iopub)) => OutputAhead(d, Len(wire.iopub))'
        /\ \A n \in 1 .. Len(wire'.iopub) : OutputAhead(d, n + 1) => OutputAhead(d, n)'
    <3>1. /\ wire \in Wires /\ wire.iopub # <<>> /\ wire'.iopub = Tail(wire.iopub)
          /\ ~(Head(wire.iopub).is = "output" /\ Head(wire.iopub).cell = d)
      BY <2>2 DEF Delivered
    <3> QED
      BY <3>1, AheadShifts
  <2>4. /\ "idle" \notin heard
        /\ wire.busy = d => OutputAhead(d, Len(wire.iopub))
        /\ \A n \in 1 .. Len(wire.iopub) :
               wire.iopub[n].is = "idle" /\ wire.iopub[n].cell = d => OutputAhead(d, n)
    BY <1>1, <2>1 DEF CallsOK, Spoken, OutputFirst
  <2>5. ASSUME NEW n \in 1 .. Len(wire'.iopub), wire'.iopub[n].is = "idle",
               wire'.iopub[n].cell = d
        PROVE  OutputAhead(d, n)'
    <3>1. n + 1 \in 1 .. Len(wire.iopub) /\ wire'.iopub[n] = wire.iopub[n + 1]
      BY DEF Delivered
    <3>2. OutputAhead(d, n + 1)
      BY <2>4, <2>5, <3>1
    <3> QED
      BY <2>3, <3>2
  <2> QED
    BY <2>3, <2>4, <2>5
<1>2. wire'.busy = wire.busy
  BY DEF Delivered
<1> QED
  BY <1>1, <1>2 DEF OutputFirst

\* Output is delivered: its cell has it, if it waits for it.
LEMMA OutputCalls ==
    ASSUME CallsOK, NEW m, Delivered(m), m.is = "output",
           call' = [call EXCEPT ![m.cell].seen =
                        @ \/ (active = m.cell /\ call[m.cell].pc = "sent")],
           UNCHANGED <<turns, active, heard, restart>>
    PROVE  CallsOK'
<1> DEFINE c == m.cell
           b == call[c].seen \/ (active = c /\ call[c].pc = "sent")
           r == [call[c] EXCEPT !.seen = b]
<1>1. TurnsKept /\ Spoken /\ call \in [Cells -> CallState] /\ c \in Cells
  BY DEF CallsOK, TurnsKept, Delivered, Sent
<1>2. call' = [call EXCEPT ![c] = r]
  BY <1>1
<1>3. /\ b \in BOOLEAN
      /\ call[c].seen => b
      /\ active = c /\ call[c].pc = "sent" => b
  BY <1>1 DEF CallState
<1> HIDE DEF b
<1>4. r \in CallState /\ r.pc = call[c].pc /\ r.end = call[c].end /\ r.seen = b
  BY <1>1, <1>3 DEF CallState
<1> HIDE DEF r, c
<1>5. call'[c] = r /\ \A d \in Cells : d # c => call'[d] = call[d]
  BY <1>1, <1>2
<1>6. TurnsKept'
  <2>1. r.pc = "sent" => AtTurn(c)
    BY <1>1, <1>4 DEF TurnsKept
  <2> QED
    BY <1>1, <1>2, <1>4, <2>1, MovesInTurn
<1>7. \A d \in Sent : d \in Sent'
  BY <1>4, <1>5 DEF Sent
<1>8. WireOK'
  BY <1>1, <1>7, DeliveredWire DEF Spoken, WireOK
<1>9. OneByOne' /\ Deaf'
  BY <1>1, DeliveredOneByOne DEF Spoken, Deaf, Delivered
<1>10. OutputFirst'
  <2>1. \A d \in Cells : call'[d].pc = "sent" /\ ~call'[d].seen =>
                             call[d].pc = "sent" /\ ~call[d].seen
    BY <1>3, <1>4, <1>5
  <2>2. \A d \in Cells : m.is = "output" /\ m.cell = d /\ d = active
                         /\ call[d].pc = "sent" => call'[d].seen
    BY <1>3, <1>4, <1>5 DEF c
  <2> QED
    BY <2>1, <2>2, DeliveredOutput
<1>11. OwnResult'
  BY <1>1, <1>3, <1>4, <1>5 DEF Spoken, OwnResult
<1> QED
  BY <1>6, <1>8, <1>9, <1>10, <1>11 DEF CallsOK, Spoken

\* A request is delivered.
LEMMA RequestCalls ==
    ASSUME CallsOK, NEW m, Delivered(m), m.is = "request", UNCHANGED <<cells, restart>>
    PROVE  CallsOK'
<1>1. UNCHANGED <<turns, active, heard, call>> /\ TurnsKept /\ Spoken
  BY DEF cells, CallsOK
<1>2. Sent' = Sent
  BY <1>1 DEF Sent
<1>3. WireOK'
  BY <1>1, <1>2, DeliveredWire DEF Spoken, WireOK
<1>4. OneByOne' /\ Deaf'
  BY <1>1, DeliveredOneByOne DEF Spoken, Deaf, Delivered
<1>5. OutputFirst'
  BY <1>1, DeliveredOutput
<1>6. OwnResult' /\ TurnsKept'
  BY <1>1, TurnsStay DEF Spoken, OwnResult
<1> QED
  BY <1>3, <1>4, <1>5, <1>6 DEF CallsOK, Spoken

\* The end of a cell is delivered.
LEMMA IdleCalls ==
    ASSUME CallsOK, NEW m, Delivered(m), m.is = "idle", Signal(m.cell, {"idle"}),
           "iopub" \notin wire.down, restart' = restart
    PROVE  CallsOK'
<1> DEFINE c == m.cell
<1>1. TurnsKept /\ Spoken /\ c \in Cells
  BY DEF CallsOK, Delivered, Sent
<1>2. /\ 1 \in 1 .. Len(wire.iopub) /\ wire.iopub[1].is = "idle" /\ wire.iopub[1].cell = c
      /\ Len(wire.iopub) \in Nat
  BY DEF Delivered
<1>3. c = active /\ call[c].pc = "sent" => call[c].seen
  <2>1. ~OutputAhead(c, 1)
    BY <1>2 DEF OutputAhead
  <2> QED
    BY <1>1, <1>2, <2>1 DEF Spoken, OutputFirst
<1> HIDE DEF c
<1>4. /\ TurnsKept' /\ OwnResult' /\ heard' \subseteq {"reply", "idle", "error"}
      /\ \A d \in Sent : d \in Sent'
      /\ \/ active' = active /\ heard' = heard /\ call' = call /\ active # c
         \/ active' = active /\ heard' = heard \cup {"idle"} /\ call' = call /\ active = c
         \/ active' = NoCell /\ heard' = {} /\ active = c /\ Complete(heard \cup {"idle"})
  <2>1. Signal(c, {"idle"})
    BY DEF c
  <2> QED
    BY <1>1, <1>3, <2>1, SignalFacts
<1>5. WireOK'
  BY <1>4, DeliveredWire
<1>6. Deaf'
  BY <1>1, <1>4 DEF Spoken, Deaf, Delivered
<1>7. ASSUME wire.down = {}
      PROVE  OfActive'
  <2>1. OfActive
    BY <1>1, <1>7 DEF Spoken, OneByOne
  <2>2. c = active /\ 1 = Len(wire.iopub)
    BY <1>2, <2>1 DEF OfActive
  <2>3. Len(wire'.iopub) = 0 /\ wire'.iopub = <<>>
    <3>1. Len(wire'.iopub) = 0
      BY <2>2 DEF Delivered
    <3>2. wire'.iopub \in Seq([is : {"output", "idle", "request"}, cell : Cells])
      BY DEF Delivered, Wires
    <3> QED
      BY <3>1, <3>2
  <2>4. wire'.inbox = <<>> /\ wire'.busy = NoCell /\ wire'.shell = wire.shell
    BY <1>2, <2>1 DEF OfActive, Delivered
  <2>5. Len(wire'.inbox) = 0
    BY <2>4
  <2>6. CASE active' = active /\ heard' = heard \cup {"idle"}
    BY <2>1, <2>3, <2>4, <2>5, <2>6 DEF OfActive
  <2>7. CASE active' = NoCell /\ heard' = {} /\ Complete(heard \cup {"idle"})
    <3>1. "reply" \in heard
      BY <2>7 DEF Complete
    <3>2. wire'.shell = <<>>
      BY <2>1, <2>4, <3>1 DEF OfActive
    <3>3. Len(wire'.shell) = 0
      BY <3>2
    <3> QED
      BY <2>3, <2>4, <2>5, <2>7, <3>2, <3>3 DEF OfActive
  <2> QED
    BY <1>4, <2>2, <2>6, <2>7
<1>8. OneByOne'
  BY <1>7 DEF OneByOne, Delivered
<1>9. OutputFirst'
  <2>1. CASE active' = active /\ heard' = heard /\ call' = call
    BY <2>1, DeliveredOutput
  <2>2. CASE active' = active /\ call' = call /\ active = c
    <3>1. \A d \in Cells : d = active => ~(call'[d].pc = "sent" /\ ~call'[d].seen)
      BY <1>3, <2>2
    <3> QED
      BY <2>2, <3>1 DEF OutputFirst
  <2>3. CASE active' = NoCell
    BY <2>3, KernelAssumption DEF OutputFirst
  <2> QED
    BY <1>4, <2>1, <2>2, <2>3
<1> QED
  BY <1>4, <1>5, <1>6, <1>8, <1>9 DEF CallsOK, Spoken

LEMMA IopubPumpCalls ==
    ASSUME CallsOK, IopubPump
    PROVE  CallsOK'
<1> DEFINE m == Head(wire.iopub)
<1>1. Delivered(m) /\ restart' = restart /\ "iopub" \notin wire.down
  BY DeliveredFacts DEF IopubPump, manager
<1>2. CASE m.is = "output" /\ UNCHANGED <<turns, active, heard, request>>
           /\ call' = [call EXCEPT ![m.cell].seen =
                           @ \/ (active = m.cell /\ call[m.cell].pc = "sent")]
  <2> HIDE DEF m
  <2> QED
    BY <1>1, <1>2, OutputCalls
<1>3. CASE m.is = "idle" /\ Signal(m.cell, {"idle"})
  <2> HIDE DEF m
  <2> QED
    BY <1>1, <1>3, IdleCalls
<1>4. CASE m.is = "request" /\ UNCHANGED cells
  <2> HIDE DEF m
  <2> QED
    BY <1>1, <1>4, RequestCalls
<1> QED
  BY <1>2, <1>3, <1>4 DEF IopubPump

-----------------------------------------------------------------------------
(* The theorems.                                                           *)

LEMMA StepKInv ==
    ASSUME KInv, [KernelNext]_kernelVars
    PROVE  KInv'
<1>1. ManagerOK /\ CallsOK /\ ManagerOK'
  BY ManagerStep DEF KInv, CallsOK
<1>2. SUFFICES CallsOK'
  BY <1>1 DEF KInv, CallsOK
<1>3. CASE UNCHANGED kernelVars
  BY <1>1, <1>3, CallsStay DEF kernelVars, manager
<1>4. ASSUME NEW c \in Cells, Execute(c) \/ Started(c) \/ Turn(c) \/ Abort(c) \/ GraceOver(c)
      PROVE  CallsOK'
  BY <1>1, <1>4, CallSteps, SendCalls DEF Turn
<1>5. ASSUME NEW a \in Starts, Startup(a) \/ PythonFails(a) \/ ForkGivenUp(a) \/ LateFork(a)
      PROVE  CallsOK'
  BY <1>1, <1>5, StartupCalls
<1>6. CASE ShellPump \/ IopubPump
  BY <1>1, <1>6, ShellPumpCalls, IopubPumpCalls
<1>7. CASE HandlerReturns
  BY <1>1, <1>7, CallsStay DEF HandlerReturns, manager
<1>8. ASSUME NEW channel \in {"shell", "iopub"}, PumpFails(channel)
      PROVE  CallsOK'
  BY <1>1, <1>8, PumpFailsCalls
<1>9. CASE ExitSeen \/ AskRestart \/ Restarting \/ Dispose \/ DisposeEnds \/ Kill
  BY <1>1, <1>9, LifeCalls
<1>10. CASE KernelRuns \/ KernelEnds \/ KernelInterrupted \/ KernelAsks \/ KernelDies
  BY <1>1, <1>10, KernelSteps
<1> QED
  BY <1>3, <1>4, <1>5, <1>6, <1>7, <1>8, <1>9, <1>10 DEF KernelNext

LEMMA KInvHolds == KernelSpec => []KInv
<1>1. KernelInit => KInv
  BY InitKInv
<1>2. KInv /\ [KernelNext]_kernelVars => KInv'
  BY StepKInv
<1> QED
  BY <1>1, <1>2, PTL DEF KernelSpec

\* The fields of the manager and of its activations have their declared
\* ranges, and who is in the queue waits there, once.
THEOREM KernelTypeCorrect == KernelSpec => []KernelTypeOK
<1>1. KInv => KernelTypeOK
  BY KInvImpliesTypeOK
<1> QED
  BY <1>1, KInvHolds, PTL

\* Whatever is aborted, restarted, disposed of or dies, a call that returns a
\* result returns its own, whole, and while no pump has failed two cells never
\* meet in the kernel.
THEOREM CellsAreApart == KernelSpec => []CellsKeptApart
<1>1. KInv => CellsKeptApart
  BY KInvImpliesApart
<1> QED
  BY <1>1, KInvHolds, PTL

-----------------------------------------------------------------------------
(* The processes, when restarts and disposals do not overlap a startup.    *)

Requests == [on : BOOLEAN, from : {Nobody} \cup Processes, generation : Nat,
             revoked : BOOLEAN]

\* A startup is under way alone, and finds no process of the manager.
OneStartup ==
    /\ \A a, b \in Starts : InFlight(a) /\ InFlight(b) => a = b
    /\ \A a \in Starts : InFlight(a) =>
           /\ state \in {"starting", "shutdown"}
           /\ restart.pc \notin {"queued", "stopping"}
           /\ start[a] \in {"python", "forking"} => ~HeldLives
           /\ start[a] = "failing" => state = "shutdown"
    /\ state = "idle" => ~HeldLives

\* A request has the generation in which it was made.
Authority ==
    /\ generation \in Nat
    /\ request \in Requests
    /\ request.on => request.generation <= generation
    /\ AuthorityIsLive

SInv == OneStartup /\ NoOrphan /\ Authority

LEMMA InitSInv ==
    ASSUME KernelInit
    PROVE  SInv
<1>1. OneStartup
  BY DEF KernelInit, OneStartup, InFlight, HeldLives
<1>2. NoOrphan
  BY DEF KernelInit, NoOrphan
<1>3. Authority
  BY DEF KernelInit, Authority, NoRequest, Requests, AuthorityIsLive, IsCurrent
<1> QED
  BY <1>1, <1>2, <1>3 DEF SInv

\* The startup that is under way goes on or ends.
LEMMA StartupMoves ==
    ASSUME ManagerOK, OneStartup, NEW a \in Starts, InFlight(a), NEW to,
           start' = [start EXCEPT ![a] = to], restart' = restart,
           to \in {"failed", "ready"} \/ state' \in {"starting", "shutdown"},
           to \in {"python", "forking"} => ~HeldLives',
           to = "failing" => state' = "shutdown",
           state' = "idle" => ~HeldLives'
    PROVE  OneStartup'
<1>1. start'[a] = to /\ \A b \in Starts : b # a => start'[b] = start[b]
  BY DEF ManagerOK
<1>2. \A b \in Starts : b # a => ~InFlight(b)
  BY DEF OneStartup
<1>3. \A b \in Starts : b # a => ~InFlight(b)'
  BY <1>1, <1>2 DEF InFlight
<1>4. InFlight(a)' => /\ to \notin {"failed", "ready"}
                      /\ restart.pc \notin {"queued", "stopping"}
  BY <1>1 DEF OneStartup, InFlight
<1> QED
  BY <1>1, <1>3, <1>4 DEF OneStartup

\* No startup moves.
LEMMA StartupsWait ==
    ASSUME OneStartup, start' = start, HeldLives' => HeldLives,
           state' \in {state, "shutdown"},
           restart' = restart \/ restart'.pc = "none" \/ \A a \in Starts : ~InFlight(a)
    PROVE  OneStartup'
<1>1. \A a : InFlight(a)' <=> InFlight(a)
  BY DEF InFlight
<1> QED
  BY <1>1 DEF OneStartup

\* A startup begins.
LEMMA StartupBegins ==
    ASSUME ManagerOK, NEW a \in Starts, Launch(a), \A b \in Starts : ~InFlight(b), ~HeldLives',
           restart'.pc \notin {"queued", "stopping"}
    PROVE  OneStartup'
<1>1. start'[a] = "python" /\ \A b \in Starts : b # a => start'[b] = start[b]
  BY DEF ManagerOK, Launch
<1>2. \A b \in Starts : b # a => ~InFlight(b)'
  BY <1>1 DEF InFlight
<1> QED
  BY <1>1, <1>2 DEF OneStartup, Launch

\* After the cleanup the manager has no process, and nobody may act for one.
LEMMA CleanupProcesses ==
    ASSUME ManagerOK, NoOrphan, Authority, CleanupResources,
           abandoned' = abandoned, generation' = generation
    PROVE  ~HeldLives' /\ NoOrphan' /\ Authority'
<1>1. held' = Nobody /\ live' = live \ {held} /\ Nobody \notin live
  BY CleanupFacts DEF ManagerOK, Processes, Starts, Nobody
<1>2. ~HeldLives' /\ NoOrphan'
  BY <1>1 DEF HeldLives, NoOrphan
<1>3. request' = [request EXCEPT !.revoked = TRUE]
  BY DEF CleanupResources
<1>4. Authority'
  BY <1>3 DEF Authority, Requests, AuthorityIsLive, IsCurrent
<1> QED
  BY <1>2, <1>4

\* Nobody gets an authority.
LEMMA AuthorityStays ==
    ASSUME Authority, generation' = generation, request' = request,
           \/ state' \in {state, "shutdown"} /\ held' = held
           \/ state' # "running"
    PROVE  Authority'
BY DEF Authority, AuthorityIsLive, IsCurrent

LEMMA StartupProcesses ==
    ASSUME ManagerOK, SInv, NEW a \in Starts,
           Startup(a) \/ PythonFails(a) \/ ForkGivenUp(a) \/ LateFork(a)
    PROVE  SInv'
<1>1. OneStartup /\ NoOrphan /\ Authority
  BY DEF SInv
<1>2. Nobody \notin Processes
  BY DEF Nobody, Processes, Starts
<1>3. CASE PythonReady(a)
  <2>1. /\ InFlight(a) /\ state' = state /\ restart' = restart /\ start[a] = "python"
        /\ abandoned' = abandoned /\ generation' = generation /\ request' = request
    BY <1>3 DEF PythonReady, InFlight
  <2>2. state \in {"starting", "shutdown"} /\ ~HeldLives
    BY <1>1, <2>1 DEF OneStartup
  <2>3. Authority'
    BY <1>1, <2>1, <2>2, AuthorityStays
  <2>4. CASE \E to \in {"failed", "forking"} :
                 start' = [start EXCEPT ![a] = to] /\ UNCHANGED <<held, live>>
    <3>1. NoOrphan' /\ ~HeldLives'
      BY <1>1, <2>1, <2>2, <2>4 DEF NoOrphan, HeldLives
    <3>2. OneStartup'
      BY <1>1, <2>1, <2>2, <2>4, <3>1, StartupMoves
    <3> QED
      BY <2>3, <3>1, <3>2 DEF SInv
  <2>5. CASE /\ start' = [start EXCEPT ![a] = "resolving"]
             /\ held' = <<a, "child">> /\ live' = live \cup {<<a, "child">>}
    <3>1. NoOrphan'
      BY <1>1, <2>1, <2>2, <2>5 DEF NoOrphan, HeldLives
    <3>2. OneStartup'
      BY <1>1, <2>1, <2>2, <2>5, StartupMoves
    <3> QED
      BY <2>3, <3>1, <3>2 DEF SInv
  <2> QED
    BY <1>3, <2>4, <2>5 DEF PythonReady
<1>4. CASE Forked(a) \/ ForkGivenUp(a)
  <2>1. /\ InFlight(a) /\ state' = state /\ restart' = restart /\ start[a] = "forking"
        /\ start' = [start EXCEPT ![a] = "resolving"]
        /\ generation' = generation /\ request' = request
    BY <1>4 DEF Forked, ForkGivenUp, InFlight
  <2>2. state \in {"starting", "shutdown"} /\ ~HeldLives
    BY <1>1, <2>1 DEF OneStartup
  <2>3. Authority'
    BY <1>1, <2>1, <2>2, AuthorityStays
  <2>4. OneStartup'
    BY <1>1, <2>1, <2>2, StartupMoves
  <2>5. NoOrphan'
    BY <1>1, <1>4, <2>2 DEF Forked, ForkGivenUp, NoOrphan, HeldLives
  <2> QED
    BY <2>3, <2>4, <2>5 DEF SInv
<1>5. CASE Resolved(a)
  <2>1. /\ InFlight(a) /\ UNCHANGED <<state, restart, held, live, abandoned, request, generation>>
        /\ start' = [start EXCEPT ![a] = "probing"]
    BY <1>5 DEF Resolved, InFlight
  <2>2. state \in {"starting", "shutdown"}
    BY <1>1, <2>1 DEF OneStartup
  <2>3. NoOrphan' /\ Authority'
    BY <1>1, <2>1, AuthorityStays DEF NoOrphan
  <2>4. OneStartup'
    BY <1>1, <2>1, <2>2, StartupMoves
  <2> QED
    BY <2>3, <2>4 DEF SInv
<1>6. CASE GivesUp(a) /\ start' = [start EXCEPT ![a] = "failing"]
           /\ state' = "shutdown" /\ UNCHANGED <<request, held, live>>
  <2>1. InFlight(a) /\ UNCHANGED <<restart, abandoned, generation>>
    BY <1>6 DEF GivesUp, InFlight
  <2>2. NoOrphan' /\ Authority'
    BY <1>1, <1>6, <2>1, AuthorityStays DEF NoOrphan
  <2>3. OneStartup'
    BY <1>1, <1>6, <2>1, StartupMoves
  <2> QED
    BY <2>2, <2>3 DEF SInv
<1>7. CASE (GivesUp(a) \/ StartupCleaned(a)) /\ CleanupResources
           /\ start' = [start EXCEPT ![a] = "failed"]
  <2>1. InFlight(a) /\ UNCHANGED <<restart, abandoned, generation>>
    BY <1>7 DEF GivesUp, StartupCleaned, InFlight
  <2>2. ~HeldLives' /\ NoOrphan' /\ Authority'
    BY <1>1, <1>7, <2>1, CleanupProcesses
  <2>3. OneStartup'
    BY <1>1, <1>7, <2>1, <2>2, StartupMoves
  <2> QED
    BY <2>2, <2>3 DEF SInv
<1>8. CASE ProbeReady(a)
  <2>1. /\ InFlight(a) /\ UNCHANGED <<restart, held, live, abandoned, request>>
        /\ start' = [start EXCEPT ![a] = "ready"]
        /\ state' = "running" /\ generation' = generation + 1
    BY <1>8 DEF ProbeReady, InFlight
  <2>2. NoOrphan'
    BY <1>1, <2>1 DEF NoOrphan
  <2>3. Authority'
    <3>1. /\ generation \in Nat /\ request \in Requests /\ request.generation \in Nat
          /\ request.on => request.generation <= generation
      BY <1>1 DEF Authority, Requests
    <3>2. request.on => request.generation # generation + 1
      BY <3>1
    <3> QED
      BY <2>1, <3>1, <3>2 DEF Authority, AuthorityIsLive, IsCurrent
  <2>4. OneStartup'
    BY <1>1, <2>1, StartupMoves
  <2> QED
    BY <2>2, <2>3, <2>4 DEF SInv
<1>9. CASE PythonFails(a)
  <2>1. /\ InFlight(a) /\ UNCHANGED <<restart, held, live, abandoned, request, generation>>
        /\ start' = [start EXCEPT ![a] = "failed"] /\ start[a] = "python"
        /\ state' \in {state, "idle"}
    BY <1>9 DEF PythonFails, InFlight
  <2>2. ~HeldLives' /\ NoOrphan'
    BY <1>1, <2>1 DEF OneStartup, HeldLives, NoOrphan
  <2>3. Authority'
    BY <1>1, <2>1, AuthorityStays
  <2>4. OneStartup'
    BY <1>1, <2>1, <2>2, StartupMoves
  <2> QED
    BY <2>2, <2>3, <2>4 DEF SInv
<1>10. CASE LateFork(a)
  <2>1. /\ UNCHANGED <<state, start, restart, held, request, generation>>
        /\ live' = live \ {<<a, "fork">>} /\ abandoned' = abandoned \ {a}
    BY <1>10 DEF LateFork
  <2>2. OneStartup'
    BY <1>1, <2>1, StartupsWait DEF HeldLives
  <2>3. NoOrphan'
    BY <1>1, <2>1 DEF NoOrphan
  <2>4. Authority'
    BY <1>1, <2>1, AuthorityStays
  <2> QED
    BY <2>2, <2>3, <2>4 DEF SInv
<1> QED
  BY <1>3, <1>4, <1>5, <1>6, <1>7, <1>8, <1>9, <1>10 DEF Startup, GivesUp, StartupCleaned

LEMMA LifeProcesses ==
    ASSUME ManagerOK, SInv, ~Overlapping,
           ExitSeen \/ AskRestart \/ Restarting \/ Dispose \/ DisposeEnds \/ Kill
    PROVE  SInv'
<1>1. OneStartup /\ NoOrphan /\ Authority
  BY DEF SInv
<1>2. CASE /\ CleanupResources /\ UNCHANGED <<start, abandoned, restart, generation>>
           /\ state' \in {state, "shutdown"}
  <2>1. ~HeldLives' /\ NoOrphan' /\ Authority'
    BY <1>1, <1>2, CleanupProcesses
  <2> QED
    BY <1>1, <1>2, <2>1, StartupsWait DEF SInv
<1>3. CASE ExitSeen \/ DisposeEnds \/ Kill
  BY <1>2, <1>3 DEF ExitSeen, DisposeEnds, Kill
<1>4. CASE Dispose
  <2>1. CASE request.on
    <3>1. /\ UNCHANGED <<start, abandoned, restart, generation, held, live>>
          /\ state' = "shutdown" /\ request' = [request EXCEPT !.revoked = TRUE]
      BY <1>4, <2>1 DEF Dispose
    <3>2. OneStartup' /\ NoOrphan'
      BY <1>1, <3>1, StartupsWait DEF HeldLives, NoOrphan
    <3>3. Authority'
      BY <1>1, <3>1 DEF Authority, Requests, AuthorityIsLive, IsCurrent
    <3> QED
      BY <3>2, <3>3 DEF SInv
  <2>2. CASE ~request.on
    BY <1>2, <1>4, <2>2 DEF Dispose
  <2> QED
    BY <2>1, <2>2
<1>5. CASE AskRestart
  <2>1. /\ UNCHANGED <<state, start, held, live, abandoned, request, generation>>
        /\ \A a \in Starts : ~InFlight(a)
    BY <1>5 DEF AskRestart, Quiet
  <2> QED
    BY <1>1, <2>1, StartupsWait, AuthorityStays DEF SInv, HeldLives, NoOrphan
<1>6. CASE RestartStops
  <2>1. /\ UNCHANGED <<start, held, live, abandoned, request, generation>>
        /\ state' = "shutdown" /\ restart.pc = "queued"
    BY <1>6 DEF RestartStops
  <2>2. \A a \in Starts : ~InFlight(a)
    BY <1>1, <2>1 DEF OneStartup
  <2> QED
    BY <1>1, <2>1, <2>2, StartupsWait, AuthorityStays DEF SInv, HeldLives, NoOrphan
<1>7. CASE RestartLaunches
  <2>1. PICK a \in Starts : Launch(a) /\ restart' = [pc |-> "starting", on |-> a]
    BY <1>7 DEF RestartLaunches
  <2>2. /\ CleanupResources /\ UNCHANGED <<abandoned, generation>>
        /\ restart.pc \in {"queued", "stopping"}
    BY <1>7 DEF RestartLaunches
  <2>3. \A b \in Starts : ~InFlight(b)
    BY <1>1, <2>2 DEF OneStartup
  <2>4. ~HeldLives' /\ NoOrphan' /\ Authority'
    BY <1>1, <2>2, CleanupProcesses
  <2>5. restart'.pc \notin {"queued", "stopping"}
    BY <2>1
  <2> QED
    BY <2>1, <2>3, <2>4, <2>5, StartupBegins DEF SInv
<1>8. CASE RestartEnds
  <2>1. /\ UNCHANGED <<state, start, held, live, abandoned, request, generation>>
        /\ restart'.pc = "none"
    BY <1>8 DEF RestartEnds
  <2> QED
    BY <1>1, <2>1, StartupsWait, AuthorityStays DEF SInv, HeldLives, NoOrphan
<1> QED
  BY <1>3, <1>4, <1>5, <1>6, <1>7, <1>8 DEF Restarting

\* Neither startups nor processes are touched.
LEMMA ProcessesStay ==
    ASSUME SInv, UNCHANGED <<manager, request, generation>>
    PROVE  SInv'
BY StartupsWait, AuthorityStays DEF SInv, manager, HeldLives, NoOrphan

LEMMA ExecuteProcesses ==
    ASSUME ManagerOK, SInv, ~Overlapping, NEW c \in Cells, Execute(c)
    PROVE  SInv'
<1>1. UNCHANGED <<held, live, abandoned, restart, disposing, request, generation>>
  BY DEF Execute
<1>2. CASE UNCHANGED <<start, state, memo>>
  BY <1>1, <1>2, ProcessesStay DEF manager
<1>3. ASSUME NEW a \in Starts, Launch(a), state = "idle", restart.pc = "none"
      PROVE  SInv'
  <2>1. OneStartup /\ NoOrphan /\ Authority
    BY DEF SInv
  <2>2. (\A b \in Starts : ~InFlight(b)) /\ ~HeldLives'
    BY <1>1, <1>3, <2>1 DEF OneStartup, HeldLives
  <2>3. OneStartup'
    BY <1>1, <1>3, <2>2, StartupBegins
  <2>4. NoOrphan' /\ Authority'
    BY <1>1, <1>3, <2>1, AuthorityStays DEF NoOrphan, Launch
  <2> QED
    BY <2>3, <2>4 DEF SInv
<1> QED
  BY <1>2, <1>3 DEF Execute

\* A request is handed to its handler, or the handler returns.
LEMMA RequestProcesses ==
    ASSUME ManagerOK, SInv, IopubPump \/ HandlerReturns
    PROVE  SInv'
<1>1. OneStartup /\ NoOrphan /\ Authority /\ UNCHANGED <<manager, generation>>
  BY DEF SInv, IopubPump, HandlerReturns
<1>2. OneStartup' /\ NoOrphan'
  BY <1>1, StartupsWait DEF manager, HeldLives, NoOrphan
<1>3. Authority'
  <2>1. CASE request' = request
    BY <1>1, <2>1, AuthorityStays DEF manager
  <2>2. CASE request' = NoRequest
    BY <1>1, <2>2 DEF Authority, NoRequest, Requests, AuthorityIsLive, IsCurrent
  <2>3. CASE request' = [on |-> TRUE, from |-> held, generation |-> generation,
                         revoked |-> FALSE]
    BY <1>1, <2>3 DEF Authority, ManagerOK, Requests, AuthorityIsLive, IsCurrent, manager
  <2> QED
    BY <2>1, <2>2, <2>3 DEF IopubPump, HandlerReturns
<1> QED
  BY <1>2, <1>3 DEF SInv

LEMMA StepSInv ==
    ASSUME ManagerOK, SInv, ~Overlapping, [KernelNext]_kernelVars
    PROVE  SInv'
<1>1. CASE UNCHANGED kernelVars
  BY <1>1, ProcessesStay DEF kernelVars
<1>2. ASSUME NEW c \in Cells, Execute(c)
      PROVE  SInv'
  BY <1>2, ExecuteProcesses
<1>3. ASSUME NEW c \in Cells, Started(c) \/ Turn(c) \/ Abort(c) \/ GraceOver(c)
      PROVE  SInv'
  <2>1. UNCHANGED <<manager, request, generation>>
    BY <1>3 DEF Started, Turn, InterruptPrevious, StillBusy, Withdraw, Send, SendFails,
                Abort, GraceOver
  <2> QED
    BY <2>1, ProcessesStay
<1>4. ASSUME NEW a \in Starts, Startup(a) \/ PythonFails(a) \/ ForkGivenUp(a) \/ LateFork(a)
      PROVE  SInv'
  BY <1>4, StartupProcesses
<1>5. CASE ShellPump
  BY <1>5, ProcessesStay DEF ShellPump
<1>6. CASE IopubPump \/ HandlerReturns
  BY <1>6, RequestProcesses
<1>7. ASSUME NEW channel \in {"shell", "iopub"}, PumpFails(channel)
      PROVE  SInv'
  BY <1>7, ProcessesStay DEF PumpFails
<1>8. CASE ExitSeen \/ AskRestart \/ Restarting \/ Dispose \/ DisposeEnds \/ Kill
  BY <1>8, LifeProcesses
<1>9. CASE KernelRuns \/ KernelEnds \/ KernelInterrupted \/ KernelAsks
  BY <1>9, ProcessesStay DEF KernelRuns, KernelEnds, KernelInterrupted, KernelAsks, Behind
<1>10. CASE KernelDies
  <2>1. /\ UNCHANGED <<state, start, restart, held, abandoned, request, generation>>
        /\ live' = live \ {held}
    BY <1>10 DEF KernelDies
  <2> QED
    BY <2>1, StartupsWait, AuthorityStays DEF SInv, HeldLives, NoOrphan
<1> QED
  BY <1>1, <1>2, <1>3, <1>4, <1>5, <1>6, <1>7, <1>8, <1>9, <1>10 DEF KernelNext

\* Only the end of a failed startup and the launch of a restart lead out of a
\* shutdown.
LEMMA StepHolds ==
    ASSUME [KernelNext]_kernelVars
    PROVE  ShutdownHolds
<1>1. SUFFICES ASSUME state = "shutdown", state' # "shutdown"
               PROVE  state' \in {"idle", "starting"} /\ held' = Nobody
  BY DEF ShutdownHolds
<1>2. CASE \E a \in Starts : StartupCleaned(a)
  BY <1>2 DEF StartupCleaned, CleanupResources
<1>3. CASE RestartLaunches
  BY <1>3 DEF RestartLaunches, Launch, CleanupResources
<1>4. ASSUME NEW c \in Cells, Execute(c) \/ Started(c) \/ Turn(c) \/ Abort(c) \/ GraceOver(c)
      PROVE  FALSE
  BY <1>1, <1>4 DEF Execute, Started, Turn, InterruptPrevious, StillBusy, Withdraw, Send,
     SendFails, Abort, GraceOver, manager, Launch
<1>5. ASSUME NEW a \in Starts,
             \/ PythonReady(a) \/ Forked(a) \/ Resolved(a) \/ GivesUp(a) \/ ProbeReady(a)
             \/ PythonFails(a) \/ ForkGivenUp(a) \/ LateFork(a)
      PROVE  FALSE
  BY <1>1, <1>5 DEF PythonReady, Forked, Resolved, GivesUp, ProbeReady, PythonFails,
     ForkGivenUp, LateFork, Doomed
<1>6. CASE ShellPump \/ IopubPump \/ HandlerReturns
           \/ \E channel \in {"shell", "iopub"} : PumpFails(channel)
  BY <1>1, <1>6 DEF ShellPump, IopubPump, HandlerReturns, PumpFails, manager
<1>7. CASE ExitSeen \/ AskRestart \/ RestartStops \/ RestartEnds \/ Dispose
           \/ DisposeEnds \/ Kill
  BY <1>1, <1>7 DEF ExitSeen, AskRestart, RestartStops, RestartEnds, Dispose, DisposeEnds,
     Kill
<1>8. CASE KernelRuns \/ KernelEnds \/ KernelInterrupted \/ KernelAsks \/ KernelDies
  BY <1>1, <1>8 DEF KernelRuns, KernelEnds, KernelInterrupted, KernelAsks, KernelDies,
     Behind, manager
<1>9. CASE UNCHANGED kernelVars
  BY <1>1, <1>9 DEF kernelVars, manager
<1> QED
  BY <1>2, <1>3, <1>4, <1>5, <1>6, <1>7, <1>8, <1>9 DEF KernelNext, Startup, Restarting

\* Nothing but a new start leads out of a shutdown, and it finds no process of
\* the manager; this needs no assumption on what overlaps.
THEOREM ShutdownIsKept == KernelSpec => [][ShutdownHolds]_kernelVars
BY StepHolds, PTL DEF KernelSpec

\* For a manager that is neither restarted nor disposed of while a startup is
\* under way: no process escapes it, a handler has its authority only on behalf
\* of the process that asked, and a disposal is not undone by the startup it met.
THEOREM ProcessesAreKept ==
    ASSUME ~Overlapping
    PROVE  KernelSpec => ProcessesAccounted
<1>1. KernelInit => SInv
  BY InitSInv
<1>2. KInv /\ SInv /\ [KernelNext]_kernelVars => SInv'
  BY StepSInv DEF KInv
<1>3. SInv => NoOrphan /\ AuthorityIsLive
  BY DEF SInv, Authority
<1> QED
  BY <1>1, <1>2, <1>3, KInvHolds, ShutdownIsKept, PTL DEF KernelSpec, ProcessesAccounted
=============================================================================
