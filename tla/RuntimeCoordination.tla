------------------------ MODULE RuntimeCoordination ------------------------
(***************************************************************************)
(* How the processes of one installation agree on who may run: a gate (a   *)
(* directory that names its owner) under which the leases of the running   *)
(* runtimes are listed and written (src/runtime-coordination.ts).  A       *)
(* runtime leaves the gate once its lease is on disk; a backup or a        *)
(* restore keeps it, and finds no lease, for as long as it works.          *)
(*                                                                         *)
(* A process is its process id and its birth, so that ids are reused.      *)
(* Each file operation is a step; the staged gate is private until it is   *)
(* renamed, and so part of the rename.                                     *)
(***************************************************************************)
EXTENDS Naturals

CONSTANTS
    Pids,
    MaxBirths,  \* bound: processes that get this id, one after the other
    Recorded,   \* whether leases carry the birth identity (they do on Linux)
    Prompt,     \* whether the gate stays put while a waiter that read its
                \* owner judges it and removes it
    None,       \* no gate
    Empty       \* a gate whose owner file is gone, about to be removed

Ids == UNION {{p} \X (1 .. MaxBirths[p]) : p \in Pids}
Kinds == {"runtime", "successor", "backup", "restore"}

ASSUME CoordinationAssumption ==
    /\ MaxBirths \in [Pids -> Nat]
    /\ Recorded \in BOOLEAN /\ Prompt \in BOOLEAN
    /\ None \notin Ids /\ Empty \notin Ids /\ None # Empty

VARIABLES
    gate,    \* owner of the gate
    leases,  \* lease files, each named after its process
    births,  \* processes that had this id so far
    proc     \* the process that has the id now: where it is, and what it knows

vars == <<gate, leases, births, proc>>

Acquiring == {"publish", "read", "judge", "wait", "remove", "rmdir",
              "listing", "sweeping", "releasing", "closing"}
\* Between the rename and the removal of its owner file.
Inside == {"listing", "sweeping", "guarding", "releasing"}

Asleep == [pc |-> "off", kind |-> "runtime", seen |-> None, todo |-> {}, live |-> {},
           next |-> "off", late |-> FALSE, met |-> FALSE, refused |-> FALSE]

Id(p) == <<p, births[p]>>
Pc(p) == proc[p].pc
Serves(p) == Pc(p) = "serving"
Registered(p) == Pc(p) # "off" /\ Id(p) \in leases
To(p, pc) == [proc EXCEPT ![p].pc = pc]
\* The process ends; of what it knew the outcome of its start is remembered.
Ends(p) == [proc EXCEPT ![p] = [Asleep EXCEPT !.refused = proc[p].refused, !.met = proc[p].met]]
\* The gate is left without having got in.
Leaves(p, active) == [proc EXCEPT ![p] = [@ EXCEPT !.pc = "releasing", !.refused = active,
                                                   !.todo = {}, !.live = {}]]

\* leaseProcessAlive
Alive(e) == Pc(e[1]) # "off" /\ (Recorded => births[e[1]] = e[2])

\* Nobody else is about to remove the gate it has read.
Undisturbed(p) == Prompt => \A q \in Pids \ {p} : Pc(q) \notin {"judge", "remove"}

Init ==
    /\ gate = None /\ leases = {}
    /\ births = [p \in Pids |-> 0]
    /\ proc = [p \in Pids |-> Asleep]

-----------------------------------------------------------------------------
(* The gate *)

\* A successor is launched by a runtime that serves.
Start(p, kind) ==
    /\ Pc(p) = "off" /\ births[p] < MaxBirths[p]
    /\ kind = "successor" => \E q \in Pids : Serves(q)
    /\ births' = [births EXCEPT ![p] = @ + 1]
    /\ proc' = [proc EXCEPT ![p] = [Asleep EXCEPT
          !.pc = "publish", !.kind = kind,
          !.met = \E q \in Pids \ {p} : Registered(q)]]
    /\ UNCHANGED <<gate, leases>>

\* A rename replaces an empty directory, and fails on one that has an owner.
Publish(p) ==
    /\ Pc(p) = "publish" /\ gate \in {None, Empty} /\ Undisturbed(p)
    /\ gate' = Id(p)
    /\ proc' = [proc EXCEPT ![p].pc = "listing", ![p].late = FALSE]
    /\ UNCHANGED <<leases, births>>

Collide(p) ==
    /\ Pc(p) = "publish" /\ gate \notin {None, Empty}
    /\ proc' = To(p, "read")
    /\ UNCHANGED <<gate, leases, births>>

ReadOwner(p) ==
    /\ Pc(p) = "read" /\ gate \notin {None, Empty} /\ Undisturbed(p)
    /\ proc' = [proc EXCEPT ![p].pc = "judge", ![p].seen = gate]
    /\ UNCHANGED <<gate, leases, births>>

\* The owner file went since: at once again without a gate, else after a delay.
ReadNothing(p) ==
    /\ Pc(p) = "read" /\ gate \in {None, Empty}
    /\ proc' = To(p, IF gate = None THEN "publish" ELSE "wait")
    /\ UNCHANGED <<gate, leases, births>>

Judged(p, pc) == [proc EXCEPT ![p].pc = pc, ![p].seen = None]

\* Mutant: a gate is stale when its owner is slow.
JudgeSlow(p) ==
    /\ Pc(p) = "judge"
    /\ proc' = Judged(p, IF Alive(proc[p].seen) /\ ~proc[p].late THEN "wait" ELSE "remove")
    /\ UNCHANGED <<gate, leases, births>>
\* Mutant: nobody is ever found dead, and the deadline is not looked at.
JudgeNever(p) ==
    /\ Pc(p) = "judge"
    /\ proc' = Judged(p, "publish")
    /\ UNCHANGED <<gate, leases, births>>
Judge(p) ==
    /\ Pc(p) = "judge"
    /\ proc' = Judged(p, IF Alive(proc[p].seen) THEN "wait" ELSE "remove")
    /\ UNCHANGED <<gate, leases, births>>

Wait(p) ==
    /\ Pc(p) = "wait"
    /\ proc' = IF proc[p].late THEN Ends(p) ELSE To(p, "publish")
    /\ UNCHANGED <<gate, leases, births>>

\* The removal of a stale gate: the owner file first, the directory after it.
RemoveOwner(p) ==
    /\ Pc(p) = "remove"
    /\ gate' = IF gate = None THEN None ELSE Empty
    /\ proc' = To(p, "rmdir")
    /\ UNCHANGED <<leases, births>>

\* A directory that was renamed over the empty one is not removed with it.
RemoveGate(p) ==
    /\ Pc(p) = "rmdir"
    /\ \/ /\ gate \in {None, Empty} /\ gate' = None
          /\ proc' = To(p, "publish")
       \/ /\ gate \notin {None, Empty} /\ UNCHANGED gate
          /\ proc' = Ends(p)
    /\ UNCHANGED <<leases, births>>

Deadline(p) ==
    /\ Pc(p) \in {"publish", "read", "judge", "wait", "remove", "rmdir"} /\ ~proc[p].late
    /\ proc' = [proc EXCEPT ![p].late = TRUE]
    /\ UNCHANGED <<gate, leases, births>>

-----------------------------------------------------------------------------
(* Inside the gate *)

List(p) ==
    /\ Pc(p) = "listing"
    /\ proc' = [proc EXCEPT ![p].pc = "sweeping", ![p].todo = leases]
    /\ UNCHANGED <<gate, leases, births>>

\* One lease of the listing.  A process that is dead stays dead, so the look
\* at it and the removal of its lease are one step; a runtime that stops
\* removes its own lease without the gate.
Sweep(p) ==
    /\ Pc(p) = "sweeping"
    /\ \E e \in proc[p].todo :
          \/ /\ e \notin leases /\ UNCHANGED leases
             /\ proc' = Leaves(p, FALSE)
          \/ /\ e \in leases /\ Alive(e) /\ UNCHANGED leases
             /\ proc' = [proc EXCEPT ![p].todo = @ \ {e}, ![p].live = @ \cup {e}]
          \/ /\ e \in leases /\ ~Alive(e) /\ leases' = leases \ {e}
             /\ proc' = [proc EXCEPT ![p].todo = @ \ {e}]
    /\ UNCHANGED <<gate, births>>

Swept(p) == Pc(p) = "sweeping" /\ proc[p].todo = {}

Refuse(p) ==
    /\ Swept(p) /\ proc[p].live # {} /\ proc[p].kind # "successor"
    /\ proc' = Leaves(p, TRUE)
    /\ UNCHANGED <<gate, leases, births>>

\* Everyone who is starting meets this runtime.
WriteLease(p) ==
    /\ Swept(p)
    /\ \/ proc[p].kind = "successor"
       \/ proc[p].kind = "runtime" /\ proc[p].live = {}
    /\ leases' = leases \cup {Id(p)}
    /\ proc' = [q \in Pids |->
          IF q = p THEN [proc[p] EXCEPT !.pc = "releasing", !.next = "serving", !.live = {}]
                   ELSE [proc[q] EXCEPT !.met = @ \/ proc[q].pc \in Acquiring]]
    /\ UNCHANGED <<gate, births>>

Guard(p) ==
    /\ Swept(p) /\ proc[p].kind \in {"backup", "restore"} /\ proc[p].live = {}
    /\ proc' = To(p, "guarding")
    /\ UNCHANGED <<gate, leases, births>>

\* The work under the guard is over.
EndGuarded(p) ==
    /\ Pc(p) = "guarding"
    /\ proc' = To(p, "releasing")
    /\ UNCHANGED <<gate, leases, births>>

\* The owner is checked, then its file is removed, then the directory.
ReleaseOwner(p) ==
    /\ Pc(p) = "releasing"
    /\ \/ /\ gate = Id(p) /\ gate' = Empty /\ Undisturbed(p)
          /\ proc' = To(p, "closing")
       \/ /\ gate # Id(p) /\ UNCHANGED gate
          /\ proc' = Ends(p)
    /\ UNCHANGED <<leases, births>>

\* Whoever renamed its gate over the empty one fails the release, although
\* the lease is written; the process ends.
ReleaseGate(p) ==
    /\ Pc(p) = "closing"
    /\ \/ /\ gate \in {None, Empty} /\ gate' = None
          /\ proc' = IF proc[p].next = "off" THEN Ends(p) ELSE To(p, "serving")
       \/ /\ gate \notin {None, Empty} /\ UNCHANGED gate
          /\ proc' = Ends(p)
    /\ UNCHANGED <<leases, births>>

-----------------------------------------------------------------------------
Stop(p) ==
    /\ Serves(p)
    /\ leases' = leases \ {Id(p)}
    /\ proc' = Ends(p)
    /\ UNCHANGED <<gate, births>>

\* Killed, or a shutdown that failed: what is on disk stays there.
Crash(p) ==
    /\ Pc(p) # "off"
    /\ proc' = Ends(p)
    /\ UNCHANGED <<gate, leases, births>>

\* What a process does by itself once it is started.
Acquire(p) ==
    \/ Publish(p) \/ Collide(p) \/ ReadOwner(p) \/ ReadNothing(p) \/ Judge(p) \/ Wait(p)
    \/ RemoveOwner(p) \/ RemoveGate(p)
    \/ List(p) \/ Sweep(p) \/ Refuse(p) \/ WriteLease(p) \/ Guard(p)
    \/ ReleaseOwner(p) \/ ReleaseGate(p)

Next == \E p \in Pids :
    \/ \E kind \in Kinds : Start(p, kind)
    \/ Acquire(p) \/ Deadline(p) \/ EndGuarded(p) \/ Stop(p) \/ Crash(p)

Spec == Init /\ [][Next]_vars

-----------------------------------------------------------------------------
Process == [
    pc : Acquiring \cup {"off", "guarding", "serving"}, kind : Kinds,
    seen : Ids \cup {None}, todo : SUBSET Ids, live : SUBSET Ids,
    next : {"off", "serving"}, late : BOOLEAN, met : BOOLEAN, refused : BOOLEAN]

TypeOK ==
    /\ gate \in Ids \cup {None, Empty}
    /\ leases \subseteq Ids
    /\ births \in [Pids -> Nat]
    /\ proc \in [Pids -> Process]
    /\ \A p \in Pids : births[p] <= MaxBirths[p] /\ (Pc(p) # "off" => births[p] > 0)

\* The gate has one owner, and it is the process that is inside.
GateExclusive == \A p \in Pids : Pc(p) \in Inside => gate = Id(p)

\* "Hold the coordination gate for an operation that requires every runtime
\* stopped": while one works no runtime serves.
GuardAlone == \A p, q \in Pids : ~(Pc(p) = "guarding" /\ Serves(q))

\* Two runtimes serve at a time only while one replaces the other.
OneRuntime == \A p, q \in Pids :
    p # q /\ Serves(p) /\ Serves(q) => "successor" \in {proc[p].kind, proc[q].kind}

\* A process is told that another runtime is active only when one was, at some
\* time since it started: what the dead left behind never keeps it out.
RefusedForCause == \A p \in Pids : proc[p].refused => proc[p].met

Coordinated == GateExclusive /\ GuardAlone /\ OneRuntime /\ RefusedForCause
=============================================================================
