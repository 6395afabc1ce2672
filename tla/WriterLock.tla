------------------------------- MODULE WriterLock -------------------------------
(***************************************************************************)
(* The lock of one document folder: _writer_lock and _compatible_sidecar   *)
(* (_drafting_io.py) with process_instance (_drafting_fs.py).              *)
(*                                                                         *)
(* Current writers exclude each other by flock on the folder.  Earlier     *)
(* releases take no flock: they create the sidecar file of the document    *)
(* with O_EXCL and write their pid into it.  So a current writer, holding  *)
(* flock, also publishes a sidecar, and may first remove one whose owner   *)
(* is proven dead.  A process may be killed before any of its steps, a     *)
(* killed process stays a zombie until it is reaped, and only then its pid *)
(* is given to another process.                                            *)
(***************************************************************************)
EXTENDS FiniteSets

CONSTANTS
    Writer,      \* processes of the current release, one per process instance
    Legacy,      \* processes of earlier releases
    PidOf,       \* [Process -> pid]
    NoFile,      \* no sidecar, nothing opened
    NoOne        \* nobody holds flock

Process == Writer \cup Legacy

ASSUME DisjointReleases == Writer \cap Legacy = {}
ASSUME DistinctMarks == NoOne \notin Process

VARIABLES
    infoFails,   \* whether the host may fail to give process information; fixed
    life,        \* of each process: unborn, alive, zombie, dead
    flock,       \* holder of the flock on the folder
    sidecar,     \* the lock file of the document
    temporaries, \* lock files not yet published
    pc,          \* where each process is
    retried,     \* the second attempt to publish the sidecar
    opened       \* the sidecar a writer is judging

lockVars == <<infoFails, life, flock, sidecar, temporaries, pc, retried, opened>>

\* A lock file is complete once its owner's record has been written.
File == [owner : Process, complete : BOOLEAN]
NewFile(p) == [owner |-> p, complete |-> FALSE]
OwnFile(p) == [owner |-> p, complete |-> TRUE]

ASSUME NoFileIsNoFile == NoFile \notin File

\* Steps of a writer that holds flock, and those of a legacy writer.
Locked == {"sweeping", "creating", "writing", "publishing", "reclaiming",
           "judging", "removing", "inside", "leaving", "unlocking"}
LegacyBusy == {"created", "saving"}

TypeOK ==
    /\ infoFails \in BOOLEAN
    /\ life \in [Process -> {"unborn", "alive", "zombie", "dead"}]
    /\ flock \in Writer \cup {NoOne}
    /\ sidecar \in File \cup {NoFile}
    /\ temporaries \in SUBSET File
    /\ pc \in [Process -> {"idle", "crashed"} \cup Locked \cup LegacyBusy]
    /\ retried \in [Writer -> BOOLEAN]
    /\ opened \in [Writer -> File \cup {NoFile}]

Init ==
    /\ infoFails \in BOOLEAN
    /\ life = [p \in Process |-> "unborn"]
    /\ flock = NoOne
    /\ sidecar = NoFile
    /\ temporaries = {}
    /\ pc = [p \in Process |-> "idle"]
    /\ retried = [p \in Writer |-> FALSE]
    /\ opened = [p \in Writer |-> NoFile]

Goto(p, label) == pc' = [pc EXCEPT ![p] = label]
At(p, label) == life[p] = "alive" /\ pc[p] = label

--------------------------------------------------------------------------------
(* What the operating system says of a recorded owner.                     *)

\* process_instance tells boots and start times apart; a zombie has ended.
InstanceEnded(p) == life[p] # "alive"

\* kill(pid, 0) on a record without an instance: any process with that pid, a
\* zombie or a stranger, counts as the owner.
PidFree(p) == ~ \E q \in Process : /\ PidOf[q] = PidOf[p]
                                   /\ life[q] \in {"alive", "zombie"}

MutantPidOnly(f) == f.complete /\ PidFree(f.owner)

\* Any incomplete file has a living owner, for all one knows.
OwnerEnded(f) ==
    /\ f.complete
    /\ IF f.owner \in Writer THEN InstanceEnded(f.owner) ELSE PidFree(f.owner)

--------------------------------------------------------------------------------
(* A writer of the current release.                                        *)

\* A busy folder refuses at once and leaves no trace.
Flock(p) ==
    /\ At(p, "idle")
    /\ flock = NoOne
    /\ flock' = p
    /\ Goto(p, "sweeping")
    /\ UNCHANGED <<infoFails, life, sidecar, temporaries, retried, opened>>

\* _recover_lock_temporaries: a temporary whose complete record names an ended
\* writer is removed; incomplete ones stay.
SweepTemporaries(p) ==
    /\ At(p, "sweeping")
    /\ \E spared \in SUBSET temporaries :
          /\ ~infoFails => spared = {}
          /\ temporaries' = {f \in temporaries : OwnerEnded(f) => f \in spared}
    /\ Goto(p, "creating")
    /\ UNCHANGED <<infoFails, life, flock, sidecar, retried, opened>>

CreateTemporary(p) ==
    /\ At(p, "creating")
    /\ temporaries' = temporaries \cup {NewFile(p)}
    /\ Goto(p, "writing")
    /\ UNCHANGED <<infoFails, life, flock, sidecar, retried, opened>>

\* The record and its fsync; an error, also of process_instance, leaves.
WriteTemporary(p) ==
    /\ At(p, "writing")
    /\ \/ /\ temporaries' = (temporaries \ {NewFile(p)}) \cup {OwnFile(p)}
          /\ retried' = [retried EXCEPT ![p] = FALSE]
          /\ Goto(p, "publishing")
       \/ /\ infoFails
          /\ Goto(p, "leaving")
          /\ UNCHANGED <<temporaries, retried>>
    /\ UNCHANGED <<infoFails, life, flock, sidecar, opened>>

\* _rename_noreplace, twice at most.
PublishSidecar(p) ==
    /\ At(p, "publishing")
    /\ \/ /\ sidecar = NoFile
          /\ sidecar' = OwnFile(p)
          /\ temporaries' = temporaries \ {OwnFile(p)}
          /\ Goto(p, "inside")
       \/ /\ sidecar # NoFile
          /\ Goto(p, IF retried[p] THEN "leaving" ELSE "reclaiming")
          /\ UNCHANGED <<sidecar, temporaries>>
    /\ UNCHANGED <<infoFails, life, flock, retried, opened>>

\* _reclaim_dead_lock opens the sidecar; its owner may have removed it already.
OpenSidecar(p) ==
    /\ At(p, "reclaiming")
    /\ opened' = [opened EXCEPT ![p] = sidecar]
    /\ IF sidecar = NoFile
       THEN Goto(p, "publishing") /\ retried' = [retried EXCEPT ![p] = TRUE]
       ELSE Goto(p, "judging") /\ UNCHANGED retried
    /\ UNCHANGED <<infoFails, life, flock, sidecar, temporaries>>

\* No information is taken for no process.
MutantUnknownIsDead(p) ==
    /\ At(p, "judging")
    /\ Goto(p, IF OwnerEnded(opened[p]) \/ infoFails THEN "removing" ELSE "leaving")
    /\ UNCHANGED <<infoFails, life, flock, sidecar, temporaries, retried, opened>>

\* No information is no proof.
JudgeOwner(p) ==
    /\ At(p, "judging")
    /\ \/ OwnerEnded(opened[p]) /\ Goto(p, "removing")
       \/ ~OwnerEnded(opened[p]) /\ Goto(p, "leaving")
       \/ infoFails /\ Goto(p, "leaving")
    /\ UNCHANGED <<infoFails, life, flock, sidecar, temporaries, retried, opened>>

\* The version is compared with the path before the unlink.
RemoveDeadSidecar(p) ==
    /\ At(p, "removing")
    /\ IF sidecar = opened[p]
       THEN /\ sidecar' = NoFile
            /\ retried' = [retried EXCEPT ![p] = TRUE]
            /\ Goto(p, "publishing")
       ELSE Goto(p, "leaving") /\ UNCHANGED <<sidecar, retried>>
    /\ UNCHANGED <<infoFails, life, flock, temporaries, opened>>

\* The save itself ends, or the lock was refused: whatever is the writer's own
\* goes, by identity, under either name.
Leave(p) ==
    /\ At(p, "inside") \/ At(p, "leaving")
    /\ sidecar' = IF sidecar = OwnFile(p) THEN NoFile ELSE sidecar
    /\ temporaries' = temporaries \ {NewFile(p), OwnFile(p)}
    /\ Goto(p, "unlocking")
    /\ UNCHANGED <<infoFails, life, flock, retried, opened>>

Unlock(p) ==
    /\ At(p, "unlocking")
    /\ flock' = NoOne
    /\ Goto(p, "idle")
    /\ UNCHANGED <<infoFails, life, sidecar, temporaries, retried, opened>>

--------------------------------------------------------------------------------
(* A writer of an earlier release, and the life of processes.              *)

LegacyCreate(p) ==
    /\ At(p, "idle")
    /\ sidecar = NoFile
    /\ sidecar' = NewFile(p)
    /\ Goto(p, "created")
    /\ UNCHANGED <<infoFails, life, flock, temporaries, retried, opened>>

LegacyWrite(p) ==
    /\ At(p, "created")
    /\ sidecar' = IF sidecar = NewFile(p) THEN OwnFile(p) ELSE sidecar
    /\ Goto(p, "saving")
    /\ UNCHANGED <<infoFails, life, flock, temporaries, retried, opened>>

LegacyLeave(p) ==
    /\ At(p, "saving")
    /\ sidecar' = IF sidecar = OwnFile(p) THEN NoFile ELSE sidecar
    /\ Goto(p, "idle")
    /\ UNCHANGED <<infoFails, life, flock, temporaries, retried, opened>>

\* The kernel gives a pid again only after its last owner was reaped.
Start(p) ==
    /\ life[p] = "unborn"
    /\ PidFree(p)
    /\ life' = [life EXCEPT ![p] = "alive"]
    /\ UNCHANGED <<infoFails, flock, sidecar, temporaries, pc, retried, opened>>

\* The kernel drops flock with the process; files stay.
Crash(p) ==
    /\ life[p] = "alive"
    /\ life' = [life EXCEPT ![p] = "zombie"]
    /\ flock' = IF flock = p THEN NoOne ELSE flock
    /\ Goto(p, "crashed")
    /\ UNCHANGED <<infoFails, sidecar, temporaries, retried, opened>>

Reap(p) ==
    /\ life[p] = "zombie"
    /\ life' = [life EXCEPT ![p] = "dead"]
    /\ UNCHANGED <<infoFails, flock, sidecar, temporaries, pc, retried, opened>>

WriterStep(p) ==
    \/ Flock(p)
    \/ SweepTemporaries(p)
    \/ CreateTemporary(p)
    \/ WriteTemporary(p)
    \/ PublishSidecar(p)
    \/ OpenSidecar(p)
    \/ JudgeOwner(p)
    \/ RemoveDeadSidecar(p)
    \/ Leave(p)
    \/ Unlock(p)

LegacyStep(p) == LegacyCreate(p) \/ LegacyWrite(p) \/ LegacyLeave(p)

Next ==
    \/ \E p \in Writer : WriterStep(p)
    \/ \E p \in Legacy : LegacyStep(p)
    \/ \E p \in Process : Start(p) \/ Crash(p) \/ Reap(p)

Spec == Init /\ [][Next]_lockVars

--------------------------------------------------------------------------------
(* Properties.                                                             *)

Saving(p) == IF p \in Writer THEN pc[p] = "inside" ELSE pc[p] \in LegacyBusy

\* One process at a time saves a document, whatever releases they are of and
\* however many sidecars of killed processes were reclaimed: reclaiming one never
\* takes the lock from a living process that has a recycled pid or was slow.
MutualExclusion ==
    \A p, q \in Process : Saving(p) /\ Saving(q) => p = q

\* Where process information can be had, killed writers of the current release
\* leave nothing behind: who holds flock is refused only on account of a writer of
\* an earlier release, and past the sweep the folder holds no readable temporary.
DeadWritersLeaveNothing ==
    [][\A p \in Writer : ~infoFails =>
          /\ pc[p] \in Locked \ {"inside", "leaving"} /\ pc'[p] = "leaving" =>
                LET blocker == IF pc[p] = "publishing" THEN sidecar ELSE opened[p]
                IN  pc[p] # "writing" /\ blocker.owner \in Legacy
          /\ At(p, "inside") => \A f \in temporaries : ~f.complete]_lockVars

--------------------------------------------------------------------------------
(* The inductive invariant behind MutualExclusion.                         *)

\* Who saves is alive and its sidecar is in place.
Registered ==
    \A p \in Process : Saving(p) =>
        /\ life[p] = "alive"
        /\ sidecar # NoFile
        /\ sidecar.owner = p

\* A writer only gets as far as removing a sidecar whose owner has ended, and an
\* ended process never comes back.
RemovesOnlyTheDead ==
    /\ \A p \in Writer :
          /\ pc[p] \in {"judging", "removing"} => opened[p] \in File
          /\ pc[p] = "removing" => life[opened[p].owner] \in {"zombie", "dead"}
          /\ opened[p] # NoFile => life[opened[p].owner] # "unborn"
    /\ sidecar # NoFile => life[sidecar.owner] # "unborn"

\* Nobody runs after its end or as the other release.
RunsAlive ==
    \A p \in Process :
        /\ pc[p] \notin {"idle", "crashed"} => life[p] = "alive"
        /\ pc[p] \in Locked => p \in Writer
        /\ pc[p] \in LegacyBusy => p \in Legacy

LockInv == Registered /\ RemovesOnlyTheDead /\ RunsAlive

(* The invariant behind DeadWritersLeaveNothing.                           *)

FlockHeld == \A p \in Writer : pc[p] \in Locked => flock = p

\* Only who holds flock has a sidecar while it lives, and it has its record.
SidecarsOfHolders ==
    sidecar # NoFile /\ sidecar.owner \in Writer =>
        /\ sidecar.complete
        /\ life[sidecar.owner] = "alive" => pc[sidecar.owner] = "inside"

\* A sidecar of a current writer stays in place while the holder of flock judges
\* and removes it; and once it is gone only an earlier release makes another.
DeadSidecarsYield ==
    \A p \in Writer :
        /\ pc[p] \in {"judging", "removing"} /\ opened[p].owner \in Writer =>
              /\ sidecar = opened[p] /\ opened[p].complete
              /\ life[opened[p].owner] # "alive"
        /\ pc[p] = "publishing" /\ retried[p] /\ sidecar # NoFile => sidecar.owner \in Legacy

\* A complete temporary belongs to the holder of flock or to a killed writer, and
\* those of killed writers are swept where process information can be had.
TemporariesSwept ==
    /\ \A f \in temporaries :
          /\ f.owner \in Writer
          /\ life[f.owner] # "unborn"
          /\ f.complete /\ life[f.owner] = "alive" =>
                pc[f.owner] \in {"publishing", "reclaiming", "judging", "removing", "leaving"}
    /\ ~infoFails =>
          \A p \in Writer : pc[p] \in Locked \ {"sweeping"} =>
             \A f \in temporaries : f.complete => f.owner = p

LeftInv == FlockHeld /\ SidecarsOfHolders /\ DeadSidecarsYield /\ TemporariesSwept
================================================================================
