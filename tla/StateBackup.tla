---------------------------- MODULE StateBackup ----------------------------
(***************************************************************************)
(* Backup and restore of the state of an installation under the guard of   *)
(* RuntimeCoordination, beside the runtimes that write it                  *)
(* (src/state-backup.ts).  The state is in several root directories that a *)
(* restore exchanges one after the other, with renames it undoes when a    *)
(* later one fails.  The content of a root is the number of the last write *)
(* to the state: the roots belong together when the numbers agree.         *)
(***************************************************************************)
EXTENDS RuntimeCoordination, FiniteSets, Sequences

CONSTANTS
    Roots,        \* number of roots: home, and the state root if outside of it
    MaxVersion,   \* bound: writes of the runtimes
    MaxBackups,   \* bound: backups made
    FileFaults,   \* kinds of file operations that fail, once each
    MaxFileFaults \* bound: failures

ASSUME BackupAssumption ==
    /\ Roots \in Nat \ {0} /\ MaxVersion \in Nat /\ MaxBackups \in Nat /\ MaxFileFaults \in Nat
    /\ FileFaults \subseteq {"copy", "rename", "rollback", "cut"}
    /\ None \notin 0 .. MaxVersion

VARIABLES
    version,   \* number of the last write
    root,      \* the roots: the version in each, or None without the directory
    backups,   \* published backups: what each holds of every root
    staged,    \* backup -> root -> what a restore of it has laid out
    aside,     \* backup -> root -> what a restore of it has moved away
    lock,      \* .backup.lock
    job,       \* the backup or restore a process makes
    fileFaults \* what has failed

disk == <<version, root, backups, staged, aside, lock>>
backupVars == <<vars, disk, job, fileFaults>>

R == 1 .. Roots
Nothing == [r \in R |-> None]
Idle == [step |-> "idle", of |-> 0, at |-> 0, copy |-> Nothing, from |-> Nothing, done |-> FALSE]
Whole(f) == \A r, s \in R : f[r] # None /\ f[r] = f[s]

BackupInit ==
    /\ Init
    /\ version = 0 /\ root = [r \in R |-> 0] /\ backups = <<>>
    /\ staged = [b \in 1 .. MaxBackups |-> Nothing]
    /\ aside = [b \in 1 .. MaxBackups |-> Nothing]
    /\ lock = FALSE
    /\ job = [p \in Pids |-> Idle] /\ fileFaults = {}

-----------------------------------------------------------------------------
Step(p) == job[p].step
Goes(p, step) == [job EXCEPT ![p].step = step]
Works(p, step) == Pc(p) = "guarding" /\ Step(p) = step
FileFault(kind) ==
    /\ kind \in FileFaults \ fileFaults /\ Cardinality(fileFaults) < MaxFileFaults
    /\ fileFaults' = fileFaults \cup {kind}
B(p) == job[p].of
At(p) == job[p].at

\* A failure at a root: the roots exchanged before are taken back.
Fails(p) == [job EXCEPT ![p].step = "undo", ![p].at = @ - 1]

\* The lock of a predecessor that died is removed after a quarter of an hour.
TakeLock(p) ==
    /\ Works(p, "idle")
    /\ lock' = TRUE
    /\ \/ /\ proc[p].kind = "backup" /\ Len(backups) < MaxBackups
          /\ job' = [job EXCEPT ![p] = [Idle EXCEPT !.step = "copy", !.at = 1]]
       \/ /\ proc[p].kind = "restore"
          /\ \E b \in 1 .. Len(backups) :
                job' = [job EXCEPT ![p] = [Idle EXCEPT !.step = "stage", !.of = b,
                                                       !.at = 1, !.from = root]]
    /\ UNCHANGED <<vars, version, root, backups, staged, aside, fileFaults>>

\* The lock is not given up in time, or there is no backup (of this name).
NoLock(p) ==
    /\ Works(p, "idle")
    /\ lock \/ proc[p].kind = "restore" \/ Len(backups) = MaxBackups
    /\ EndGuarded(p)
    /\ UNCHANGED <<disk, job, fileFaults>>

CopyRoot(p) ==
    /\ Works(p, "copy") /\ At(p) <= Roots
    /\ job' = [job EXCEPT ![p].copy[At(p)] = root[At(p)], ![p].at = @ + 1]
    /\ UNCHANGED <<vars, disk, fileFaults>>

CopyFails(p) ==
    /\ Works(p, "copy") /\ At(p) <= Roots /\ FileFault("copy")
    /\ job' = Goes(p, "unlock")
    /\ UNCHANGED <<vars, disk>>

\* The staging directory is renamed once it holds every root.
PublishBackup(p) ==
    /\ Works(p, "copy") /\ At(p) > Roots
    /\ backups' = Append(backups, job[p].copy)
    /\ job' = [Goes(p, "unlock") EXCEPT ![p].done = TRUE]
    /\ UNCHANGED <<vars, version, root, staged, aside, lock, fileFaults>>

-----------------------------------------------------------------------------
(* Restore *)

\* The leftovers of an earlier restore of the same backup are not touched.
Occupied(p) == staged[B(p)][At(p)] # None \/ aside[B(p)][At(p)] # None

Materialize(p) ==
    /\ Works(p, "stage") /\ At(p) <= Roots /\ ~Occupied(p)
    /\ staged' = [staged EXCEPT ![B(p)][At(p)] = backups[B(p)][At(p)]]
    /\ job' = Goes(p, "aside")
    /\ UNCHANGED <<vars, version, root, backups, aside, lock, fileFaults>>

\* What was laid out so far stays there.
MaterializeFails(p) ==
    /\ Works(p, "stage") /\ At(p) <= Roots
    /\ \/ Occupied(p) /\ UNCHANGED <<staged, fileFaults>>
       \/ ~Occupied(p) /\ FileFault("copy") /\ staged' = [staged EXCEPT ![B(p)][At(p)] = Empty]
    /\ job' = Fails(p)
    /\ UNCHANGED <<vars, version, root, backups, aside, lock>>

MoveAside(p) ==
    /\ Works(p, "aside")
    /\ aside' = [aside EXCEPT ![B(p)][At(p)] = root[At(p)]]
    /\ root' = [root EXCEPT ![At(p)] = None]
    /\ job' = Goes(p, "in")
    /\ UNCHANGED <<vars, version, backups, staged, lock, fileFaults>>

MoveAsideFails(p) ==
    /\ Works(p, "aside") /\ root[At(p)] # None /\ FileFault("rename")
    /\ job' = Fails(p)
    /\ UNCHANGED <<vars, disk>>

MoveIn(p) ==
    /\ Works(p, "in")
    /\ root' = [root EXCEPT ![At(p)] = staged[B(p)][At(p)]]
    /\ staged' = [staged EXCEPT ![B(p)][At(p)] = None]
    /\ job' = [Goes(p, "stage") EXCEPT ![p].at = @ + 1]
    /\ UNCHANGED <<vars, version, backups, aside, lock, fileFaults>>

MoveInFails(p) ==
    /\ Works(p, "in") /\ FileFault("rename")
    /\ job' = IF aside[B(p)][At(p)] = None THEN Fails(p) ELSE Goes(p, "back")
    /\ UNCHANGED <<vars, disk>>

\* Mutant: the root whose exchange failed is not put back.
LeaveAside(p) ==
    /\ Works(p, "back")
    /\ job' = Fails(p)
    /\ UNCHANGED <<vars, disk, fileFaults>>
MoveBack(p) ==
    /\ Works(p, "back")
    /\ root' = [root EXCEPT ![At(p)] = aside[B(p)][At(p)]]
    /\ aside' = [aside EXCEPT ![B(p)][At(p)] = None]
    /\ job' = Fails(p)
    /\ UNCHANGED <<vars, version, backups, staged, lock, fileFaults>>

\* The root stays where it was moved; the others are still taken back.
MoveBackFails(p) ==
    /\ Works(p, "back") /\ FileFault("rollback")
    /\ job' = Fails(p)
    /\ UNCHANGED <<vars, disk>>

Restored(p) ==
    /\ Works(p, "stage") /\ At(p) > Roots
    /\ job' = [Goes(p, "unlock") EXCEPT ![p].done = TRUE]
    /\ UNCHANGED <<vars, disk, fileFaults>>

\* Rollback, last root first: out of the way, the previous one back, delete.
UndoOut(p) ==
    /\ Works(p, "undo") /\ At(p) > 0
    /\ staged' = [staged EXCEPT ![B(p)][At(p)] = root[At(p)]]
    /\ root' = [root EXCEPT ![At(p)] = None]
    /\ job' = Goes(p, "undoback")
    /\ UNCHANGED <<vars, version, backups, aside, lock, fileFaults>>

UndoBack(p) ==
    /\ Works(p, "undoback")
    /\ root' = [root EXCEPT ![At(p)] = aside[B(p)][At(p)]]
    /\ aside' = [aside EXCEPT ![B(p)][At(p)] = None]
    /\ job' = Goes(p, "undorm")
    /\ UNCHANGED <<vars, version, backups, staged, lock, fileFaults>>

UndoRemove(p) ==
    /\ Works(p, "undorm")
    /\ staged' = [staged EXCEPT ![B(p)][At(p)] = None]
    /\ job' = Fails(p)
    /\ UNCHANGED <<vars, version, root, backups, aside, lock, fileFaults>>

\* A rollback that fails goes no further.
UndoFails(p) ==
    /\ \/ Works(p, "undo") /\ At(p) > 0
       \/ Works(p, "undoback") \/ Works(p, "undorm")
    /\ FileFault("rollback")
    /\ job' = Goes(p, "unlock")
    /\ UNCHANGED <<vars, disk>>

Undone(p) ==
    /\ Works(p, "undo") /\ At(p) = 0
    /\ job' = Goes(p, "unlock")
    /\ UNCHANGED <<vars, disk, fileFaults>>

\* Mutant: the lock stays behind.
UnlockForgets(p) ==
    /\ Works(p, "unlock")
    /\ EndGuarded(p)
    /\ UNCHANGED <<disk, job, fileFaults>>
\* The lock goes, then the guard is released.
Unlock(p) ==
    /\ Works(p, "unlock")
    /\ lock' = FALSE
    /\ job' = [job EXCEPT ![p] = Idle]
    /\ EndGuarded(p)
    /\ UNCHANGED <<version, root, backups, staged, aside, fileFaults>>

-----------------------------------------------------------------------------
\* A runtime writes its state: a new version of every root.
Write(p) ==
    /\ Serves(p) /\ version < MaxVersion
    /\ version' = version + 1
    /\ root' = [r \in R |-> version + 1]
    /\ UNCHANGED <<vars, backups, staged, aside, lock, job, fileFaults>>

\* A restore that is cut short leaves the roots as they are at that moment.
Dies(p) ==
    /\ Crash(p)
    /\ IF Whole(root) THEN UNCHANGED fileFaults ELSE FileFault("cut")
    /\ job' = [job EXCEPT ![p] = Idle]
    /\ UNCHANGED disk

Coordinates(p) ==
    /\ Deadline(p) \/ Acquire(p) \/ Stop(p) \/ \E kind \in Kinds : Start(p, kind)
    /\ UNCHANGED <<disk, job, fileFaults>>

Operate(p) ==
    \/ TakeLock(p) \/ NoLock(p) \/ CopyRoot(p) \/ CopyFails(p) \/ PublishBackup(p)
    \/ Materialize(p) \/ MaterializeFails(p) \/ MoveAside(p) \/ MoveAsideFails(p)
    \/ MoveIn(p) \/ MoveInFails(p) \/ MoveBack(p) \/ MoveBackFails(p) \/ Restored(p)
    \/ UndoOut(p) \/ UndoBack(p) \/ UndoRemove(p) \/ UndoFails(p) \/ Undone(p) \/ Unlock(p)

BackupNext == \E p \in Pids : Coordinates(p) \/ Operate(p) \/ Write(p) \/ Dies(p)

\* A process goes on, and its deadline comes.
BackupFairness == \A p \in Pids :
    /\ WF_backupVars(Acquire(p) /\ UNCHANGED <<disk, job, fileFaults>>)
    /\ WF_backupVars(Deadline(p) /\ UNCHANGED <<disk, job, fileFaults>>)
    /\ WF_backupVars(Operate(p))

BackupSpec == BackupInit /\ [][BackupNext]_backupVars
FairBackupSpec == BackupSpec /\ BackupFairness

-----------------------------------------------------------------------------
BackupTypeOK ==
    /\ TypeOK
    /\ LET content == 0 .. MaxVersion \cup {None} IN
        /\ version \in 0 .. MaxVersion /\ root \in [R -> content]
        /\ \A b \in 1 .. Len(backups) : backups[b] \in [R -> content]
        /\ staged \in [1 .. MaxBackups -> [R -> content \cup {Empty}]]
        /\ aside \in [1 .. MaxBackups -> [R -> content]]
        /\ \A p \in Pids : /\ At(p) \in 0 .. Roots + 1 /\ B(p) \in 0 .. Len(backups)
                           /\ job[p].copy \in [R -> content] /\ job[p].from \in [R -> content]
    /\ lock \in BOOLEAN /\ fileFaults \subseteq FileFaults
    /\ \A p \in Pids : Step(p) # "idle" => Pc(p) = "guarding" /\ lock

\* What a published backup holds of the roots belongs together.
BackupsWhole == \A b \in 1 .. Len(backups) : Whole(backups[b])

Restores(p) == proc[p].kind = "restore" /\ Step(p) # "idle"

\* The roots belong together whenever no restore exchanges them: a runtime
\* never serves from the home of one moment and the state of another.
RootsWhole == (\A p \in Pids : Restores(p) => Step(p) = "unlock") => Whole(root)

\* A restore that failed leaves the roots as it found them, and one that
\* succeeded leaves what the backup holds.
RestoreOrNothing == \A p \in Pids :
    Restores(p) /\ Step(p) = "unlock"
        => root = IF job[p].done THEN backups[B(p)] ELSE job[p].from

\* Whatever fails, what a restore replaces is still there.
PreviousKept == \A p \in Pids : \A r \in R :
    Restores(p) => job[p].from[r] \in {root[r], aside[B(p)][r]}

\* "Restores atomically", until a rollback fails as well: that much is reported.
WholeState ==
    /\ "rollback" \notin fileFaults => BackupsWhole /\ RootsWhole /\ RestoreOrNothing
    /\ PreviousKept

\* A process that was started serves in the end, or is over: it gets in, is
\* refused or gives up, and what works under the guard comes to an end.
StartSettles == \A p \in Pids :
    Pc(p) \in Acquiring \cup {"guarding"} ~> Pc(p) \in {"off", "serving"}
=============================================================================
