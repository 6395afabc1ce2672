---------------------------- MODULE WriterLockProofs ---------------------------
(***************************************************************************)
(* Mutual exclusion of saves, for any number of processes, any reuse of    *)
(* pids and whether or not process information can be had.                 *)
(***************************************************************************)
EXTENDS WriterLock, TLAPS

\* The files a process makes are its own.
LEMMA OwnFiles ==
    ASSUME NEW p \in Process
    PROVE  /\ NewFile(p) \in File /\ NewFile(p).owner = p
           /\ OwnFile(p) \in File /\ OwnFile(p).owner = p
           /\ NewFile(p) # NoFile /\ OwnFile(p) # NoFile
  <1>1. NewFile(p) \in File /\ OwnFile(p) \in File
    BY DEF NewFile, OwnFile, File
  <1>2. NewFile(p).owner = p /\ OwnFile(p).owner = p
    BY DEF NewFile, OwnFile
  <1> QED
    BY <1>1, <1>2, NoFileIsNoFile

\* A step of a current writer keeps the types.
LEMMA TypeOKWriter ==
    ASSUME TypeOK, NEW p \in Writer, WriterStep(p)
    PROVE  TypeOK'
  <1> p \in Process
    BY DEF Process
  <1> USE OwnFiles DEF TypeOK, Goto, At, Locked
  <1>1. CASE Flock(p) \/ CreateTemporary(p) \/ Unlock(p)
    BY <1>1 DEF Flock, CreateTemporary, Unlock
  <1>2. CASE SweepTemporaries(p)
    BY <1>2 DEF SweepTemporaries
  <1>3. CASE WriteTemporary(p)
    BY <1>3 DEF WriteTemporary
  <1>4. CASE PublishSidecar(p)
    BY <1>4 DEF PublishSidecar
  <1>5. CASE OpenSidecar(p) \/ JudgeOwner(p) \/ RemoveDeadSidecar(p)
    BY <1>5 DEF OpenSidecar, JudgeOwner, RemoveDeadSidecar
  <1>6. CASE Leave(p)
    BY <1>6 DEF Leave
  <1> QED
    BY <1>1, <1>2, <1>3, <1>4, <1>5, <1>6 DEF WriterStep

\* So do writers of earlier releases, and the life of processes.
LEMMA TypeOKOther ==
    ASSUME TypeOK,
           \/ \E p \in Legacy : LegacyStep(p)
           \/ \E p \in Process : Start(p) \/ Crash(p) \/ Reap(p)
    PROVE  TypeOK'
  <1> USE OwnFiles DEF TypeOK, Goto, At, LegacyBusy
  <1>1. ASSUME NEW p \in Legacy, LegacyStep(p)
        PROVE  TypeOK'
    <2> p \in Process
      BY DEF Process
    <2> QED
      BY <1>1 DEF LegacyStep, LegacyCreate, LegacyWrite, LegacyLeave
  <1>2. ASSUME NEW p \in Process, Start(p) \/ Crash(p) \/ Reap(p)
        PROVE  TypeOK'
    BY <1>2 DEF Start, Crash, Reap
  <1> QED
    BY <1>1, <1>2

\* The lock, the sidecar and the processes keep their types over everything a
\* writer of either release and the operating system do.
THEOREM LockTypeCorrect == Spec => []TypeOK
  <1>1. Init => TypeOK
    BY DEF Init, TypeOK
  <1>2. TypeOK /\ [Next]_lockVars => TypeOK'
    <2> SUFFICES ASSUME TypeOK, [Next]_lockVars
                 PROVE  TypeOK'
      OBVIOUS
    <2>1. CASE UNCHANGED lockVars
      BY <2>1 DEF TypeOK, lockVars
    <2> QED
      BY <2>1, TypeOKWriter, TypeOKOther DEF Next
  <1> QED
    BY <1>1, <1>2, PTL DEF Spec

--------------------------------------------------------------------------------
\* Each step of a current writer: publishing needs the sidecar's place free, and
\* only the sidecar of an ended process is ever removed, which is never that of a
\* process that saves.
LEMMA LockInvWriter ==
    ASSUME TypeOK, LockInv, NEW p \in Writer, WriterStep(p)
    PROVE  LockInv'
  <1> USE DisjointReleases DEF TypeOK, LockInv, Goto, At, Process, Saving, Locked,
          LegacyBusy, Registered, RemovesOnlyTheDead, RunsAlive
  <1>1. CASE \/ Flock(p) \/ SweepTemporaries(p) \/ CreateTemporary(p)
             \/ WriteTemporary(p) \/ Unlock(p)
    BY <1>1 DEF Flock, SweepTemporaries, CreateTemporary, WriteTemporary, Unlock
  <1>2. CASE PublishSidecar(p)
    BY <1>2, OwnFiles DEF PublishSidecar
  <1>3. CASE OpenSidecar(p)
    BY <1>3, NoFileIsNoFile DEF OpenSidecar
  <1>4. CASE JudgeOwner(p)
    <2>1. opened[p].owner \in Process /\ life[opened[p].owner] # "unborn"
      BY <1>4, NoFileIsNoFile DEF JudgeOwner, File
    <2>2. OwnerEnded(opened[p]) => life[opened[p].owner] \in {"zombie", "dead"}
      BY <2>1 DEF OwnerEnded, InstanceEnded, PidFree
    <2>3. CASE Goto(p, "removing") /\ OwnerEnded(opened[p])
      BY <1>4, <2>2, <2>3 DEF JudgeOwner
    <2>4. CASE Goto(p, "leaving")
      BY <1>4, <2>4 DEF JudgeOwner
    <2> QED
      BY <1>4, <2>3, <2>4 DEF JudgeOwner
  <1>5. CASE RemoveDeadSidecar(p)
    BY <1>5 DEF RemoveDeadSidecar
  <1>6. CASE Leave(p)
    BY <1>6, OwnFiles DEF Leave
  <1> QED
    BY <1>1, <1>2, <1>3, <1>4, <1>5, <1>6 DEF WriterStep

\* An earlier release creates its sidecar only where there is none and removes
\* only its own; and a process that ends no longer saves.
LEMMA LockInvOther ==
    ASSUME TypeOK, LockInv,
           \/ \E p \in Legacy : LegacyStep(p)
           \/ \E p \in Process : Start(p) \/ Crash(p) \/ Reap(p)
           \/ UNCHANGED lockVars
    PROVE  LockInv'
  <1> USE DisjointReleases DEF TypeOK, LockInv, Goto, At, Saving, Locked, LegacyBusy,
          Registered, RemovesOnlyTheDead, RunsAlive
  <1>1. ASSUME NEW p \in Legacy, LegacyStep(p)
        PROVE  LockInv'
    <2> p \in Process /\ p \notin Writer
      BY DEF Process
    <2>1. CASE LegacyCreate(p)
      BY <2>1, OwnFiles DEF LegacyCreate
    <2>2. CASE LegacyWrite(p)
      BY <2>2, OwnFiles DEF LegacyWrite
    <2>3. CASE LegacyLeave(p)
      BY <2>3, OwnFiles DEF LegacyLeave
    <2> QED
      BY <1>1, <2>1, <2>2, <2>3 DEF LegacyStep
  <1>2. ASSUME NEW p \in Process, Start(p) \/ Crash(p) \/ Reap(p)
        PROVE  LockInv'
    <2>1. CASE Start(p)
      BY <2>1 DEF Start, File
    <2>2. CASE Crash(p)
      BY <2>2 DEF Crash, File
    <2>3. CASE Reap(p)
      BY <2>3 DEF Reap, File
    <2> QED
      BY <1>2, <2>1, <2>2, <2>3
  <1>3. CASE UNCHANGED lockVars
    BY <1>3 DEF lockVars
  <1> QED
    BY <1>1, <1>2, <1>3

\* _writer_lock with its sidecar admits one process of either release at a time,
\* over kills, reused pids and reclaimed sidecars.
THEOREM Exclusion == Spec => []MutualExclusion
  <1>1. Init => LockInv
    <2> SUFFICES ASSUME Init PROVE LockInv
      OBVIOUS
    <2>1. \A p \in Process : pc[p] = "idle"
      BY DEF Init
    <2>2. Registered /\ RunsAlive
      BY <2>1 DEF Registered, Saving, RunsAlive, Locked, LegacyBusy
    <2>3. RemovesOnlyTheDead
      BY <2>1 DEF Init, RemovesOnlyTheDead, Process
    <2> QED
      BY <2>2, <2>3 DEF LockInv
  <1>2. TypeOK /\ LockInv /\ [Next]_lockVars => LockInv'
    BY LockInvWriter, LockInvOther DEF Next
  <1>3. LockInv => MutualExclusion
    BY DEF LockInv, Registered, MutualExclusion
  <1> QED
    BY LockTypeCorrect, <1>1, <1>2, <1>3, PTL DEF Spec

--------------------------------------------------------------------------------
(* What killed writers leave.                                              *)

\* Where a current writer ends is decided by process_instance alone.
LEMMA WriterEnded ==
    ASSUME NEW f \in File, f.owner \in Writer, f.complete
    PROVE  OwnerEnded(f) = (life[f.owner] # "alive")
  BY DEF OwnerEnded, InstanceEnded

\* A complete file is the one its owner publishes.
LEMMA CompleteIsOwn ==
    ASSUME NEW f \in File, f.complete
    PROVE  f = OwnFile(f.owner)
  BY DEF File, OwnFile

\* Each step of a current writer: what it finds of other current writers under
\* flock is of processes that have ended.
LEMMA LeftInvWriter ==
    ASSUME TypeOK, LockInv, LeftInv, NEW p \in Writer, WriterStep(p)
    PROVE  LeftInv'
  <1> p \in Process /\ p # NoOne /\ p \notin Legacy
    BY DisjointReleases, DistinctMarks DEF Process
  <1> USE DisjointReleases DEF TypeOK, LockInv, LeftInv, Goto, At, Process, Locked, FlockHeld,
          RemovesOnlyTheDead, RunsAlive
  <1>1. FlockHeld'
    BY DistinctMarks DEF WriterStep, Flock, SweepTemporaries, CreateTemporary, WriteTemporary,
       PublishSidecar, OpenSidecar, JudgeOwner, RemoveDeadSidecar, Leave, Unlock
  <1>2. CASE Flock(p)
    BY <1>1, <1>2 DEF Flock, SidecarsOfHolders, DeadSidecarsYield, TemporariesSwept
  <1>3. CASE SweepTemporaries(p)
    <2>1. SidecarsOfHolders' /\ DeadSidecarsYield'
      BY <1>3 DEF SweepTemporaries, SidecarsOfHolders, DeadSidecarsYield
    <2>2. flock = p /\ pc[p] = "sweeping" /\ UNCHANGED <<infoFails, life>>
          /\ pc' = [pc EXCEPT ![p] = "creating"] /\ temporaries' \subseteq temporaries
      BY <1>3 DEF SweepTemporaries
    <2>3. ASSUME NEW f \in temporaries'
          PROVE  /\ f.owner \in Writer /\ life'[f.owner] # "unborn"
                 /\ ~(f.complete /\ life'[f.owner] = "alive" /\ f.owner = p)
                 /\ f.complete /\ life'[f.owner] = "alive" =>
                      pc'[f.owner] \in {"publishing", "reclaiming", "judging", "removing", "leaving"}
      BY <2>2, <2>3 DEF TemporariesSwept
    <2>4. ASSUME ~infoFails, NEW f \in temporaries', f.complete
          PROVE  FALSE
      <3>1. f \in File /\ f \in temporaries /\ f.owner \in Writer
        BY <2>2, <2>3, <2>4
      <3>2. ~OwnerEnded(f)
        BY <1>3, <2>4 DEF SweepTemporaries
      <3>3. life[f.owner] = "alive"
        BY <2>4, <3>1, <3>2, WriterEnded
      <3> QED
        BY <2>2, <2>3, <2>4, <3>1, <3>3 DEF TemporariesSwept
    <2>5. TemporariesSwept'
      BY <1>1, <2>2, <2>3, <2>4 DEF TemporariesSwept
    <2> QED
      BY <1>1, <2>1, <2>5
  <1>4. CASE CreateTemporary(p)
    <2>1. SidecarsOfHolders'
      BY <1>4, OwnFiles DEF CreateTemporary, SidecarsOfHolders
    <2>2. DeadSidecarsYield'
      BY <1>4, OwnFiles DEF CreateTemporary, SidecarsOfHolders, DeadSidecarsYield
    <2>3. TemporariesSwept'
      <3>1. /\ temporaries' = temporaries \cup {NewFile(p)} /\ ~NewFile(p).complete
            /\ flock = p /\ pc[p] = "creating" /\ pc' = [pc EXCEPT ![p] = "writing"]
            /\ life[p] = "alive" /\ UNCHANGED <<infoFails, life>>
        BY <1>4 DEF CreateTemporary, NewFile
      <3> QED
        BY <1>1, <3>1, OwnFiles DEF TemporariesSwept
    <2> QED
      BY <1>1, <2>1, <2>2, <2>3
  <1>5. CASE WriteTemporary(p)
    BY <1>1, <1>5, OwnFiles DEF WriteTemporary, SidecarsOfHolders, DeadSidecarsYield, TemporariesSwept
  <1>6. CASE PublishSidecar(p)
    <2>1. SidecarsOfHolders'
      <3>1. CASE sidecar' = OwnFile(p)
        BY <1>6, <3>1, OwnFiles DEF PublishSidecar, SidecarsOfHolders, OwnFile
      <3>2. CASE sidecar' = sidecar
        BY <1>6, <3>2 DEF PublishSidecar, SidecarsOfHolders
      <3> QED
        BY <1>6, <3>1, <3>2 DEF PublishSidecar
    <2>2. DeadSidecarsYield'
      BY <1>6, OwnFiles DEF PublishSidecar, SidecarsOfHolders, DeadSidecarsYield
    <2>3. TemporariesSwept'
      <3>1. \A f \in temporaries : f.complete /\ f.owner = p => f = OwnFile(p)
        BY CompleteIsOwn
      <3>2. CASE temporaries' = temporaries \ {OwnFile(p)} /\ pc' = [pc EXCEPT ![p] = "inside"]
        BY <1>1, <1>6, <3>1, <3>2 DEF PublishSidecar, TemporariesSwept
      <3>3. CASE temporaries' = temporaries /\ pc'[p] \in {"leaving", "reclaiming"}
        BY <1>1, <1>6, <3>3 DEF PublishSidecar, TemporariesSwept
      <3> QED
        BY <1>6, <3>2, <3>3 DEF PublishSidecar
    <2> QED
      BY <1>1, <2>1, <2>2, <2>3
  <1>7. CASE OpenSidecar(p)
    BY <1>1, <1>7, OwnFiles DEF OpenSidecar, SidecarsOfHolders, DeadSidecarsYield, TemporariesSwept
  <1>8. CASE JudgeOwner(p)
    BY <1>1, <1>8, OwnFiles DEF JudgeOwner, SidecarsOfHolders, DeadSidecarsYield, TemporariesSwept
  <1>9. CASE RemoveDeadSidecar(p)
    BY <1>1, <1>9, OwnFiles DEF RemoveDeadSidecar, SidecarsOfHolders, DeadSidecarsYield, TemporariesSwept
  <1>10. CASE Leave(p)
    <2>1. SidecarsOfHolders'
      BY <1>10, OwnFiles, CompleteIsOwn DEF Leave, SidecarsOfHolders
    <2>2. DeadSidecarsYield'
      BY <1>10, OwnFiles DEF Leave, SidecarsOfHolders, DeadSidecarsYield
    <2>3. TemporariesSwept'
      <3>1. \A f \in temporaries : f.complete /\ f.owner = p => f = OwnFile(p)
        BY CompleteIsOwn
      <3> QED
        BY <1>1, <1>10, <3>1 DEF Leave, TemporariesSwept
    <2> QED
      BY <1>1, <2>1, <2>2, <2>3
  <1>11. CASE Unlock(p)
    BY <1>1, <1>11, OwnFiles DEF Unlock, SidecarsOfHolders, DeadSidecarsYield, TemporariesSwept
  <1> QED
    BY <1>2, <1>3, <1>4, <1>5, <1>6, <1>7, <1>8, <1>9, <1>10, <1>11 DEF WriterStep

\* Earlier releases know nothing of flock or temporaries; a process that ends keeps
\* its files, and one that starts had none.
LEMMA LeftInvOther ==
    ASSUME TypeOK, LockInv, LeftInv,
           \/ \E p \in Legacy : LegacyStep(p)
           \/ \E p \in Process : Start(p) \/ Crash(p) \/ Reap(p)
           \/ UNCHANGED lockVars
    PROVE  LeftInv'
  <1> USE DisjointReleases DEF TypeOK, LockInv, LeftInv, Goto, At, FlockHeld, SidecarsOfHolders,
          DeadSidecarsYield, TemporariesSwept
  <1>1. ASSUME NEW p \in Legacy, LegacyStep(p)
        PROVE  LeftInv'
    <2> p \in Process /\ p \notin Writer
      BY DEF Process
    <2>1. CASE LegacyCreate(p)
      BY <2>1, OwnFiles, NoFileIsNoFile DEF LegacyCreate, Process, RemovesOnlyTheDead
    <2>2. CASE LegacyWrite(p)
      BY <2>2, OwnFiles DEF LegacyWrite, Process
    <2>3. CASE LegacyLeave(p)
      BY <2>3, OwnFiles DEF LegacyLeave, Process
    <2> QED
      BY <1>1, <2>1, <2>2, <2>3 DEF LegacyStep
  <1>2. ASSUME NEW p \in Process, Start(p)
        PROVE  LeftInv'
    <2> USE <1>2 DEF Start, File, RemovesOnlyTheDead
    <2>1. FlockHeld' /\ SidecarsOfHolders'
      OBVIOUS
    <2>3. TemporariesSwept'
      <3>1. ASSUME NEW f \in temporaries
            PROVE  f.owner # p /\ life'[f.owner] = life[f.owner]
        OBVIOUS
      <3> QED
        BY <3>1
    <2>2. DeadSidecarsYield'
      <3>1. ASSUME NEW q \in Writer, opened[q] # NoFile
            PROVE  opened[q].owner # p /\ life'[opened[q].owner] = life[opened[q].owner]
        BY <3>1
      <3>2. ASSUME NEW q \in Writer, pc[q] \in {"judging", "removing"}
            PROVE  opened[q] # NoFile
        BY <3>2, NoFileIsNoFile
      <3>3. pc' = pc /\ opened' = opened /\ sidecar' = sidecar /\ retried' = retried
        OBVIOUS
      <3> QED
        BY <3>1, <3>2, <3>3
    <2> QED
      BY <2>1, <2>2, <2>3
  <1>3. ASSUME NEW p \in Process, Crash(p)
        PROVE  LeftInv'
    <2>1. FlockHeld'
      BY <1>3, DistinctMarks DEF Crash, Locked, Process
    <2>2. SidecarsOfHolders' /\ DeadSidecarsYield'
      BY <1>3 DEF Crash, File
    <2>3. TemporariesSwept'
      BY <1>3 DEF Crash, File, Locked
    <2> QED
      BY <2>1, <2>2, <2>3
  <1>4. ASSUME NEW p \in Process, Reap(p)
        PROVE  LeftInv'
    BY <1>4 DEF Reap, File
  <1>5. CASE UNCHANGED lockVars
    BY <1>5 DEF lockVars
  <1> QED
    BY <1>1, <1>2, <1>3, <1>4, <1>5

\* The steps on which a writer gives up name a sidecar of an earlier release.
LEMMA GivesUpForLegacyOnly ==
    ASSUME TypeOK, LockInv, LeftInv, [Next]_lockVars, NEW p \in Writer, ~infoFails,
           pc[p] \in Locked \ {"inside", "leaving"}, pc'[p] = "leaving"
    PROVE  LET blocker == IF pc[p] = "publishing" THEN sidecar ELSE opened[p]
           IN  pc[p] # "writing" /\ blocker.owner \in Legacy
  <1> p \in Process
    BY DEF Process
  <1>1. ASSUME NEW q \in Process, q # p
        PROVE  /\ q \in Writer => ~WriterStep(q)
               /\ q \in Legacy => ~LegacyStep(q)
               /\ ~(Start(q) \/ Crash(q) \/ Reap(q))
    BY <1>1 DEF TypeOK, WriterStep, Flock, SweepTemporaries, CreateTemporary, WriteTemporary,
       PublishSidecar, OpenSidecar, JudgeOwner, RemoveDeadSidecar, Leave, Unlock, LegacyStep,
       LegacyCreate, LegacyWrite, LegacyLeave, Start, Crash, Reap, Goto
  <1>2. /\ p \in Legacy => ~LegacyStep(p)
        /\ ~(Start(p) \/ Crash(p) \/ Reap(p))
    BY DEF TypeOK, LegacyStep, LegacyCreate, LegacyWrite, LegacyLeave, Start, Crash, Reap, Goto, At, Locked
  <1>3. WriterStep(p)
    BY <1>1, <1>2 DEF Next, lockVars, Process
  <1> USE DEF TypeOK, LockInv, LeftInv, Goto, At
  <1>4. \/ PublishSidecar(p) /\ sidecar # NoFile /\ retried[p]
        \/ JudgeOwner(p) /\ ~OwnerEnded(opened[p])
        \/ RemoveDeadSidecar(p) /\ sidecar # opened[p]
    BY <1>3 DEF WriterStep, Flock, SweepTemporaries, CreateTemporary, WriteTemporary,
       PublishSidecar, OpenSidecar, JudgeOwner, RemoveDeadSidecar, Leave, Unlock
  <1>5. CASE PublishSidecar(p) /\ sidecar # NoFile /\ retried[p]
    BY <1>5 DEF PublishSidecar, DeadSidecarsYield
  <1>6. CASE JudgeOwner(p) /\ ~OwnerEnded(opened[p])
    <2>1. opened[p] \in File /\ opened[p].owner \in Process
      BY <1>6 DEF JudgeOwner, RemovesOnlyTheDead, File
    <2>2. opened[p].owner \in Writer => opened[p].complete /\ life[opened[p].owner] # "alive"
      BY <1>6 DEF JudgeOwner, DeadSidecarsYield
    <2>3. opened[p].owner \notin Writer
      BY <1>6, <2>1, <2>2, WriterEnded
    <2> QED
      BY <1>6, <2>1, <2>3 DEF JudgeOwner, Process
  <1>7. CASE RemoveDeadSidecar(p) /\ sidecar # opened[p]
    <2>1. opened[p] \in File /\ opened[p].owner \in Process
      BY <1>7 DEF RemoveDeadSidecar, RemovesOnlyTheDead, File
    <2>2. opened[p].owner \notin Writer
      BY <1>7 DEF RemoveDeadSidecar, DeadSidecarsYield
    <2> QED
      BY <1>7, <2>1, <2>2 DEF RemoveDeadSidecar, Process
  <1> QED
    BY <1>4, <1>5, <1>6, <1>7

\* Where process information can be had, a killed writer of the current release
\* keeps no later one out, and its temporary is gone once that one is inside.
THEOREM TheDeadAreSwept == Spec => DeadWritersLeaveNothing
  <1>1. Init => LockInv /\ LeftInv
    <2> SUFFICES ASSUME Init PROVE LockInv /\ LeftInv
      OBVIOUS
    <2>1. \A p \in Process : pc[p] = "idle"
      BY DEF Init
    <2>2. sidecar = NoFile /\ temporaries = {} /\ \A p \in Writer : opened[p] = NoFile
      BY DEF Init
    <2> QED
      BY <2>1, <2>2 DEF LockInv, Registered, Saving, RunsAlive, Locked, LegacyBusy,
         RemovesOnlyTheDead, Process, LeftInv, FlockHeld, SidecarsOfHolders, DeadSidecarsYield,
         TemporariesSwept
  <1>2. TypeOK /\ LockInv /\ LeftInv /\ [Next]_lockVars => (LockInv /\ LeftInv)'
    BY LockInvWriter, LockInvOther, LeftInvWriter, LeftInvOther DEF Next
  <1>3. ASSUME TypeOK, LockInv, LeftInv, NEW p \in Writer, ~infoFails, At(p, "inside"),
               NEW f \in temporaries, f.complete
        PROVE  FALSE
    BY <1>3 DEF TypeOK, LeftInv, TemporariesSwept, At, Locked
  <1>4. TypeOK /\ LockInv /\ LeftInv /\ [Next]_lockVars =>
          [\A p \in Writer : ~infoFails =>
            /\ pc[p] \in Locked \ {"inside", "leaving"} /\ pc'[p] = "leaving" =>
                  LET blocker == IF pc[p] = "publishing" THEN sidecar ELSE opened[p]
                  IN  pc[p] # "writing" /\ blocker.owner \in Legacy
            /\ At(p, "inside") => \A f \in temporaries : ~f.complete]_lockVars
    BY <1>3, GivesUpForLegacyOnly
  <1> QED
    BY LockTypeCorrect, <1>1, <1>2, <1>4, PTL DEF Spec, DeadWritersLeaveNothing
================================================================================
