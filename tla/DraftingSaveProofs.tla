---------------------------- MODULE DraftingSaveProofs -------------------------
(***************************************************************************)
(* The safety of the operation records: SaveInv is inductive, and what     *)
(* publish_document, finish_journal and recover_operation promise follows  *)
(* from it, up to the refinement of OperationLedger.  What the writer lock *)
(* is needed for, and what a save says of the disk, follows at the end,    *)
(* from GuardInv, VerifiedOnDisk and StageUntilSynced.                     *)
(*                                                                         *)
(* Neither the properties nor SaveInv are about the writer lock: that a    *)
(* call finishes its journal after releasing it, or that a record outlives *)
(* it, makes no difference, because prepared.json and result.json are only *)
(* ever created and because candidate bytes come from nowhere but a        *)
(* publication.                                                            *)
(*                                                                         *)
(* They are under ~DirectoryFaults: DurableRecordPrecedesPublication fails *)
(* when the fsync that should make a new operation folder durable is lost, *)
(* and these properties fail with it.                                      *)
(***************************************************************************)
EXTENDS DraftingSave, TLAPS

--------------------------------------------------------------------------------
(* The type invariant: one lemma for the steps of a call, one for those of *)
(* recover_operation, one for the environment.                             *)


\* The fields of a request have their types.
LEMMA RequestTypes ==
    ASSUME NEW c \in Call
    PROVE  /\ Candidate(c) \in ContentOnDisk
           /\ Source(c) \in ContentOnDisk
           /\ OpOf(c) \in Op
           /\ Dest(c) \in Path
  BY RequestsBindTheirInputs DEF Candidate, Source, OpOf, Dest

\* Every variable starts with a value of its type.
LEMMA TypeOKInit == Init => TypeOK
  <1> SUFFICES ASSUME Init PROVE TypeOK
    OBVIOUS
  <1>1. Initial \in ContentOnDisk
    BY DEF ContentOnDisk
  <1>2. NoVersion \in Version /\ [content |-> Initial, by |-> 0] \in Version
    BY <1>1 DEF NoVersion, Version
  <1>3. DocTypeOK
    BY <1>2 DEF Init, DocTypeOK, Path
  <1>4. RecTypeOK /\ LockTypeOK
    BY DEF Init, RecTypeOK, LockTypeOK, Verdict
  <1>5. CallTypeOK /\ RecovererTypeOK
    BY <1>2 DEF Init, CallTypeOK, RecovererTypeOK, Early, Outcome
  <1>6. EnvTypeOK /\ HistoryTypeOK
    BY <1>2 DEF Init, EnvTypeOK, HistoryTypeOK
  <1> QED
    BY <1>3, <1>4, <1>5, <1>6 DEF TypeOK

\* A step of publish_document assigns values of the right type.
LEMMA TypeOKCall ==
    ASSUME TypeOK, NEW c \in Call, CallStep(c)
    PROVE  TypeOK'
  <1> USE RequestTypes, BoundsAndFaults DEF TypeOK, DocTypeOK, RecTypeOK,
            LockTypeOK, CallTypeOK, RecovererTypeOK, EnvTypeOK, HistoryTypeOK,
            docVars, recVars, callVars, rVars, history, env, Path, Version,
            Verdict, Outcome, Early, Guarded, After, Ended
  <1>1. CASE PublishDocument(c)
    BY <1>1, SMTT(30) DEF PublishDocument, Goto
  <1>2. CASE WriterLock(c)
    BY <1>2, SMTT(30) DEF WriterLock, Goto, RecoverStages, DeadStages, SyncFolder,
         SyncFolderFails
  <1>3. CASE CheckSource(c)
    <2>1. DocTypeOK'
      BY <1>3 DEF CheckSource, Goto, Refuse, CleanStage, SyncFolder, SyncFolderFails
    <2>2. RecTypeOK'
      BY <1>3 DEF CheckSource, Goto, Refuse, CleanStage, SyncFolder, SyncFolderFails
    <2>3. LockTypeOK'
      BY <1>3 DEF CheckSource, Goto, Refuse, CleanStage, SyncFolder, SyncFolderFails
    <2>4. CallTypeOK'
      <3>1. file["source"] \in Version
        BY DEF Version
      <3>2. pc' \in [Call -> Early \cup Guarded \cup After \cup Ended]
        BY <1>3 DEF CheckSource, Goto, Refuse
      <3>3. version' \in [Call -> Version]
        BY <1>3, <3>1 DEF CheckSource
      <3>4. answer' \in [Call -> {"none", "saved", "failed", "uncertain"}]
        BY <1>3 DEF CheckSource, Refuse
      <3> QED
        BY <1>3, <3>2, <3>3, <3>4 DEF CheckSource
    <2>5. RecovererTypeOK'
      BY <1>3 DEF CheckSource, Goto, Refuse, CleanStage, SyncFolder, SyncFolderFails
    <2>6. EnvTypeOK'
      BY <1>3 DEF CheckSource, Goto, Refuse, CleanStage, SyncFolder, SyncFolderFails
    <2>7. HistoryTypeOK'
      BY <1>3 DEF CheckSource, Goto, Refuse, CleanStage, SyncFolder, SyncFolderFails
    <2> QED
      BY <2>1, <2>2, <2>3, <2>4, <2>5, <2>6, <2>7
  <1>4. CASE StageCandidate(c)
    BY <1>4 DEF StageCandidate, Goto, Refuse, CleanStage, SyncFolder,
         SyncFolderFails
  <1>5. CASE LinkBackup(c)
    BY <1>5 DEF LinkBackup, Goto
  <1>6. CASE SyncBackup(c)
    <2>1. DocTypeOK'
      BY <1>6 DEF SyncBackup, Goto, Refuse, CleanStage, SyncFolder, SyncFolderFails
    <2>2. RecTypeOK'
      BY <1>6 DEF SyncBackup, Goto, Refuse, CleanStage, SyncFolder, SyncFolderFails
    <2>3. LockTypeOK'
      BY <1>6 DEF SyncBackup, Goto, Refuse, CleanStage, SyncFolder, SyncFolderFails
    <2>4. CallTypeOK'
      <3>1. pc' \in [Call -> Early \cup Guarded \cup After \cup Ended]
        BY <1>6 DEF SyncBackup, Goto, Refuse
      <3>2. answer' \in [Call -> {"none", "saved", "failed", "uncertain"}]
        BY <1>6 DEF SyncBackup, Refuse
      <3> QED
        BY <1>6, <3>1, <3>2 DEF SyncBackup
    <2>5. RecovererTypeOK'
      BY <1>6 DEF SyncBackup, Goto, Refuse, CleanStage, SyncFolder, SyncFolderFails
    <2>6. EnvTypeOK'
      BY <1>6 DEF SyncBackup, Goto, Refuse, CleanStage, SyncFolder, SyncFolderFails
    <2>7. HistoryTypeOK'
      BY <1>6 DEF SyncBackup, Goto, Refuse, CleanStage, SyncFolder, SyncFolderFails
    <2> QED
      BY <2>1, <2>2, <2>3, <2>4, <2>5, <2>6, <2>7
  <1>7. CASE Recheck(c)
    BY <1>7, SMTT(30) DEF Recheck, Goto, Refuse, CleanStage, SyncFolder,
         SyncFolderFails
  <1>8. CASE WritePrepared(c)
    <2>1. DocTypeOK'
      BY <1>8 DEF WritePrepared, Goto, Refuse, CleanStage, SyncFolder,
           SyncFolderFails, MakeFolderFails
    <2>2. RecTypeOK'
      <3>1. opDir' \in [Op -> {"absent", "unsynced", "durable"}]
        BY <1>8 DEF WritePrepared, MakeFolderFails
      <3>2. prepared' \in [Op -> Call \cup {NoOne}]
        BY <1>8 DEF WritePrepared
      <3> QED
        BY <1>8, <3>1, <3>2 DEF WritePrepared
    <2>3. LockTypeOK'
      BY <1>8 DEF WritePrepared, Goto, Refuse, CleanStage, SyncFolder,
           SyncFolderFails, MakeFolderFails
    <2>4. CallTypeOK'
      BY <1>8 DEF WritePrepared, Goto, Refuse, CleanStage, SyncFolder,
           SyncFolderFails, MakeFolderFails
    <2>5. RecovererTypeOK'
      BY <1>8 DEF WritePrepared, Goto, Refuse, CleanStage, SyncFolder,
           SyncFolderFails, MakeFolderFails
    <2>6. EnvTypeOK'
      BY <1>8 DEF WritePrepared, Goto, Refuse, CleanStage, SyncFolder,
           SyncFolderFails, MakeFolderFails
    <2>7. HistoryTypeOK'
      BY <1>8 DEF WritePrepared, Goto, Refuse, CleanStage, SyncFolder,
           SyncFolderFails, MakeFolderFails
    <2> QED
      BY <2>1, <2>2, <2>3, <2>4, <2>5, <2>6, <2>7
  <1>9. CASE SyncPrepared(c)
    BY <1>9, SMTT(30) DEF SyncPrepared, Goto, Refuse, CleanStage, SyncFolder,
         SyncFolderFails
  <1>10. CASE FinalCheck(c)
    BY <1>10, SMTT(30) DEF FinalCheck, Goto
  <1>11. CASE Publish(c)
    <2>1. DocTypeOK'
      <3>1. [content |-> Candidate(c), by |-> c] \in Version
        BY DEF Version
      <3>2. file' \in [Path -> Version]
        BY <1>11, <3>1 DEF Publish, Apply
      <3> QED
        BY <1>11, <3>2 DEF Publish
    <2>2. RecTypeOK'
      BY <1>11 DEF Publish, Goto, Apply
    <2>3. LockTypeOK'
      BY <1>11 DEF Publish, Goto, Apply
    <2>4. CallTypeOK'
      BY <1>11 DEF Publish, Goto, Apply
    <2>5. RecovererTypeOK'
      BY <1>11 DEF Publish, Goto, Apply
    <2>6. EnvTypeOK'
      BY <1>11 DEF Publish, Goto, Apply
    <2>7. HistoryTypeOK'
      <3>1. file[Dest(c)] \in Version
        OBVIOUS
      <3>2. overwritten' \in [Call -> Version]
        BY <1>11, <3>1 DEF Publish, Apply
      <3>3. applied' \in SUBSET Call
        BY <1>11 DEF Publish, Apply
      <3> QED
        BY <1>11, <3>2, <3>3 DEF Publish
    <2> QED
      BY <2>1, <2>2, <2>3, <2>4, <2>5, <2>6, <2>7
  <1>12. CASE SyncPublication(c)
    BY <1>12, SMTT(30) DEF SyncPublication, Goto, SyncFolder, SyncFolderFails
  <1>13. CASE Finish(c)
    <2>1. DocTypeOK'
      BY <1>13 DEF Finish, Goto, WriteResult, Observed, Reply
    <2>2. RecTypeOK'
      BY <1>13 DEF Finish, Goto, WriteResult, Observed, Reply
    <2>3. LockTypeOK'
      BY <1>13 DEF Finish, Goto, WriteResult, Observed, Reply
    <2>4. CallTypeOK'
      <3>1. pc' \in [Call -> Early \cup Guarded \cup After \cup Ended]
        BY <1>13 DEF Finish, Goto
      <3>2. outcome' \in [Call -> Outcome]
        BY <1>13 DEF Finish, Observed
      <3>3. Reply(Observed(c)) \in {"none", "saved", "failed", "uncertain"}
        BY DEF Reply
      <3>4. answer' \in [Call -> {"none", "saved", "failed", "uncertain"}]
        BY <1>13, <3>3 DEF Finish
      <3>5. journal' \in [Call -> {"none", "written", "incomplete"}]
        BY <1>13 DEF Finish
      <3> QED
        BY <1>13, <3>1, <3>2, <3>4, <3>5 DEF Finish
    <2>5. RecovererTypeOK'
      BY <1>13 DEF Finish, Goto, WriteResult, Observed, Reply
    <2>6. EnvTypeOK'
      BY <1>13 DEF Finish, Goto, WriteResult, Observed, Reply
    <2>7. HistoryTypeOK'
      BY <1>13 DEF Finish, Goto, WriteResult, Observed, Reply
    <2> QED
      BY <2>1, <2>2, <2>3, <2>4, <2>5, <2>6, <2>7
  <1>14. CASE Unwind(c)
    BY <1>14, SMTT(30) DEF Unwind, Goto, CleanStage, SyncFolder, SyncFolderFails
  <1>15. CASE FinishLate(c)
    BY <1>15, SMTT(30) DEF FinishLate, Goto, WriteResult, LateVerdict, Reply
  <1>16. CASE SyncResult(c)
    BY <1>16, SMTT(30) DEF SyncResult, Goto, SyncRecord, Reply
  <1> QED
    BY <1>1, <1>2, <1>3, <1>4, <1>5, <1>6, <1>7, <1>8, <1>9, <1>10, <1>11, <1>12,
         <1>13, <1>14, <1>15, <1>16 DEF CallStep

\* So does read_operation,
LEMMA TypeOKRead ==
    ASSUME TypeOK, NEW o \in Op, ReadBegins(o) \/ ReadEnds(o)
    PROVE  TypeOK'
  BY DEF ReadBegins, ReadEnds, TypeOK, DocTypeOK, RecTypeOK, LockTypeOK,
       CallTypeOK, RecovererTypeOK, EnvTypeOK, HistoryTypeOK, docVars, recVars,
       callVars, rVars, history, env

\* recover_operation,
LEMMA TypeOKRecover ==
    ASSUME TypeOK, NEW r \in Recoverer, RecovererStep(r)
    PROVE  TypeOK'
  <1> USE BoundsAndFaults DEF TypeOK, DocTypeOK, RecTypeOK, LockTypeOK, CallTypeOK,
            RecovererTypeOK, EnvTypeOK, HistoryTypeOK, docVars, recVars, callVars,
            rVars, history, env, Path, Version, Verdict, Outcome
  <1>1. ASSUME NEW o \in Op, RecoverOperation(r, o)
        PROVE  TypeOK'
    <2>1. Evidence(prepared[o]) \in BOOLEAN
      BY DEF Evidence, BackupVerified
    <2>2. DocTypeOK' /\ LockTypeOK'
      BY <1>1 DEF RecoverOperation, RecoverStages, DeadStages, SyncFolder,
           SyncFolderFails
    <2>3. RecovererTypeOK'
      BY <1>1, <2>1 DEF RecoverOperation
    <2> QED
      BY <1>1, <2>2, <2>3 DEF RecoverOperation
  <1>2. CASE RecoverDecide(r)
    <2>1. RecTypeOK'
      BY <1>2 DEF RecoverDecide
    <2>2. LockTypeOK'
      BY <1>2 DEF RecoverDecide, RecoverRelease
    <2>3. RecovererTypeOK'
      <3>1. CASE RecoverRelease(r)
        BY <3>1 DEF RecoverRelease
      <3>2. CASE rpc' = [rpc EXCEPT ![r] = "writing"] /\ UNCHANGED <<rop, matched>>
        BY <3>2, <1>2 DEF RecoverDecide
      <3> QED
        BY <1>2, <3>1, <3>2 DEF RecoverDecide
    <2> QED
      BY <1>2, <2>1, <2>2, <2>3 DEF RecoverDecide
  <1>3. CASE RecoverSync(r)
    BY <1>3 DEF RecoverSync, RecoverRelease, SyncRecord
  <1> QED
    BY <1>1, <1>2, <1>3 DEF RecovererStep

\* and everything that happens to the folder from outside.
LEMMA TypeOKEnvironment ==
    ASSUME TypeOK, Environment
    PROVE  TypeOK'
  <1> USE BoundsAndFaults DEF TypeOK, DocTypeOK, RecTypeOK, LockTypeOK, CallTypeOK,
            RecovererTypeOK, EnvTypeOK, HistoryTypeOK, docVars, recVars, callVars,
            rVars, history, env, Path, Version, Verdict, Outcome
  <1>1. CASE WordOpens
    BY <1>1 DEF WordOpens
  <1>2. CASE WordSaves
    <2>1. WordContent \subseteq ContentOnDisk
      BY DEF ContentOnDisk
    <2> QED
      BY <1>2, <2>1 DEF WordSaves
  <1>3. CASE WordCloses
    BY <1>3 DEF WordCloses
  <1>4. ASSUME NEW c \in Call, BackupDamaged(c)
        PROVE  TypeOK'
    BY <1>4 DEF BackupDamaged
  <1>5. ASSUME NEW c \in Call, Crash(c)
        PROVE  TypeOK'
    <2>1. RecTypeOK'
      <3>1. opDir' \in [Op -> {"absent", "unsynced", "durable"}]
        BY <1>5, RequestTypes DEF Crash, MakeFolderFails
      <3>2. leftover' \in SUBSET Op
        BY <1>5, RequestTypes DEF Crash
      <3> QED
        BY <1>5, <3>1, <3>2 DEF Crash
    <2>2. LockTypeOK'
      BY <1>5 DEF Crash
    <2>3. CallTypeOK'
      BY <1>5 DEF Crash, Goto, Early, Guarded, After, Ended
    <2> QED
      BY <1>5, <2>1, <2>2, <2>3 DEF Crash
  <1>6. ASSUME NEW r \in Recoverer, CrashRecoverer(r)
        PROVE  TypeOK'
    BY <1>6 DEF CrashRecoverer, RecoverRelease
  <1>7. CASE PowerLoss
    <2>1. DocTypeOK'
      BY <1>7 DEF PowerLoss, Survivors
    <2>2. RecTypeOK'
      BY <1>7 DEF PowerLoss, Survivors
    <2>3. RecovererTypeOK'
      BY <1>7 DEF PowerLoss
    <2>5. LockTypeOK'
      BY <1>7 DEF PowerLoss
    <2>6. EnvTypeOK'
      <3>1. word' = FALSE /\ session' = session /\ faults' = faults + 1
        BY <1>7 DEF PowerLoss
      <3>2. session' \in Nat /\ faults' \in Nat
        BY <3>1
      <3>3. word' \in BOOLEAN
        BY <3>1
      <3> QED
        BY <3>2, <3>3
    <2>7. HistoryTypeOK'
      BY <1>7 DEF PowerLoss
    <2>4. CallTypeOK'
      BY <1>7 DEF PowerLoss, Early, Guarded, After, Ended
    <2> QED
      BY <2>1, <2>2, <2>3, <2>4, <2>5, <2>6, <2>7
  <1> QED
    BY <1>1, <1>2, <1>3, <1>4, <1>5, <1>6, <1>7 DEF Environment

\* The states of a save, of the records beside it and of the recoveries, over all
\* interleavings, faults and power losses, stay within the declared types.
THEOREM TypeCorrect == Spec => []TypeOK
  <1>1. TypeOK /\ [Next]_vars => TypeOK'
    <2> SUFFICES ASSUME TypeOK, [Next]_vars PROVE TypeOK'
      OBVIOUS
    <2>1. ASSUME NEW c \in Call, CallStep(c) PROVE TypeOK'
      BY <2>1, TypeOKCall
    <2>2. ASSUME NEW r \in Recoverer, RecovererStep(r) PROVE TypeOK'
      BY <2>2, TypeOKRecover
    <2>3. ASSUME NEW o \in Op, ReadBegins(o) \/ ReadEnds(o) PROVE TypeOK'
      BY <2>3, TypeOKRead
    <2>4. CASE Environment
      BY <2>4, TypeOKEnvironment
    <2>5. CASE UNCHANGED vars
      BY <2>5 DEF vars, TypeOK, DocTypeOK, RecTypeOK, LockTypeOK, CallTypeOK,
           RecovererTypeOK, EnvTypeOK, HistoryTypeOK, docVars, recVars, callVars,
           rVars, history, env
    <2> QED
      BY <2>1, <2>2, <2>3, <2>4, <2>5 DEF Next
  <1> QED
    BY TypeOKInit, <1>1, PTL DEF Spec

--------------------------------------------------------------------------------
(* SaveInv, action by action.                                              *)

\* A step that moves a call along without touching records, outcome or document.
LEMMA QuietStep ==
    ASSUME TypeOK, SaveInv, NEW c \in Call, NEW label,
           pc' = [pc EXCEPT ![c] = label],
           pc[c] \notin Ended \cup {"late_finishing"},
           label \notin {"preparing", "finishing", "late_finishing"},
           label \in Committed => pc[c] \in Committed,
           label \in BeforePublish => pc[c] \in BeforePublish,
           label \in {"published", "synced"} => pc[c] \in {"published", "synced"},
           \/ answer' = answer
           \/ /\ answer' = [answer EXCEPT ![c] = "failed"]
              /\ label = "done"
              /\ pc[c] \in BeforePublish,
           disk' \in {disk, file},
           UNCHANGED <<file, recVars, outcome, journal, rVars, applied>>
    PROVE  SaveInv'
  <1> USE DEF TypeOK, SaveInv, recVars, rVars
  <1>1. RecordsKept' /\ PreparedBeforePublished'
    BY DEF RecordsKept, PreparedBeforePublished
  <1>2. CommittedHasRecord'
    BY DEF CommittedHasRecord, CallTypeOK
  <1>3. OutcomeExact'
    BY DEF OutcomeExact, CallTypeOK
  <1>4. ResultsTrue'
    BY DEF ResultsTrue, CallTypeOK, Ended
  <1>5. FinishingWrites'
    BY DEF FinishingWrites, LateVerdict, CallTypeOK
  <1>6. ContentExplained' /\ EvidenceConclusive'
    BY DEF ContentExplained, Explained, EvidenceConclusive
  <1>7. AnswersFromOutcome'
    BY DEF AnswersFromOutcome, OutcomeExact, LateVerdict, CallTypeOK, Ended
  <1> QED
    BY <1>1, <1>2, <1>3, <1>4, <1>5, <1>6, <1>7

\* Ten of the sixteen steps of a call are of that kind.
LEMMA QuietActions ==
    ASSUME TypeOK, SaveInv, NEW c \in Call,
           \/ PublishDocument(c) \/ WriterLock(c) \/ CheckSource(c)
           \/ StageCandidate(c) \/ LinkBackup(c) \/ SyncBackup(c) \/ Recheck(c)
           \/ FinalCheck(c) \/ SyncPublication(c) \/ Unwind(c)
    PROVE  SaveInv'
  <1> USE QuietStep DEF Goto, Refuse, CleanStage, SyncFolder, SyncFolderFails,
          docVars, rVars, history, Committed, BeforePublish, Early, After, Ended
  <1>1. CASE PublishDocument(c)
    BY <1>1 DEF PublishDocument
  <1>2. CASE WriterLock(c)
    BY <1>2 DEF WriterLock, RecoverStages
  <1>3. CASE CheckSource(c)
    BY <1>3 DEF CheckSource
  <1>4. CASE StageCandidate(c)
    BY <1>4 DEF StageCandidate
  <1>5. CASE LinkBackup(c)
    BY <1>5 DEF LinkBackup
  <1>6. CASE SyncBackup(c)
    BY <1>6 DEF SyncBackup
  <1>7. CASE Recheck(c)
    BY <1>7 DEF Recheck
  <1>8. CASE FinalCheck(c)
    BY <1>8 DEF FinalCheck
  <1>9. CASE SyncPublication(c)
    BY <1>9 DEF SyncPublication
  <1>10. CASE Unwind(c)
    BY <1>10 DEF Unwind
  <1> QED
    BY <1>1, <1>2, <1>3, <1>4, <1>5, <1>6, <1>7, <1>8, <1>9, <1>10

\* OperationJournal.prepare creates the record and makes it durable.
LEMMA RecordActions ==
    ASSUME TypeOK, SaveInv, ~DirectoryFaults, NEW c \in Call,
           WritePrepared(c) \/ SyncPrepared(c)
    PROVE  SaveInv'
  <1> USE RequestTypes DEF TypeOK, RecTypeOK, CallTypeOK, RecovererTypeOK,
          SaveInv, Goto, docVars, rVars, history
  <1>1. CASE Refuse(c) /\ UNCHANGED recVars
    <2>1. pc[c] \in {"rechecked", "preparing"}
      BY DEF WritePrepared, SyncPrepared
    <2>2. disk' \in {disk, file}
      BY <1>1 DEF Refuse, CleanStage, SyncFolder, SyncFolderFails
    <2> QED
      BY <1>1, <2>1, <2>2, QuietStep DEF WritePrepared, SyncPrepared, Refuse,
         Committed, BeforePublish, Early, After, Ended
  <1>2. CASE WritePrepared(c) /\ ~PrepareRefused(c) /\ Goto(c, "preparing")
    <2> DEFINE o == OpOf(c)
    <2>1. /\ prepared[o] = NoOne
          /\ prepared' = [prepared EXCEPT ![o] = c]
          /\ pc' = [pc EXCEPT ![c] = "preparing"]
          /\ UNCHANGED <<preparedDisk, result, resultDisk, outcome, journal,
                         answer, rVars, applied, file, disk>>
      BY <1>2 DEF WritePrepared, PrepareRefused, Refuse
    <2>2. opDir' = [opDir EXCEPT ![o] = IF @ = "absent" THEN "durable" ELSE @]
      BY <1>2 DEF WritePrepared, Refuse
    <2>3. preparedDisk[o] = NoOne /\ result[o] = "none" /\ resultDisk[o] = "none"
      BY <2>1 DEF RecordsKept, ResultsTrue, Verdict
    <2>4. RecordsKept'
      BY <2>1, <2>2, <2>3 DEF RecordsKept
    <2>5. CommittedHasRecord'
      BY <2>1, <2>3, DistinctValues DEF CommittedHasRecord, Committed, After
    <2>6. PreparedBeforePublished' /\ OutcomeExact'
      BY <1>2, <2>1 DEF PreparedBeforePublished, OutcomeExact, BeforePublish,
         WritePrepared
    <2>7. ResultsTrue'
      BY <1>2, <2>1, <2>3 DEF ResultsTrue, WritePrepared, Ended
    <2>8. FinishingWrites' /\ ContentExplained'
      BY <2>1 DEF FinishingWrites, LateVerdict, ContentExplained, Explained
    <2>9. EvidenceConclusive'
      BY <2>1, DistinctValues DEF EvidenceConclusive, HistoryTypeOK
    <2>10. AnswersFromOutcome'
      BY <1>2, <2>1 DEF AnswersFromOutcome, LateVerdict, WritePrepared, Ended
    <2> QED
      BY <2>4, <2>5, <2>6, <2>7, <2>8, <2>9, <2>10
  <1>3. CASE SyncPrepared(c) /\ Goto(c, "prepared")
    <2> DEFINE o == OpOf(c)
    <2>1. /\ pc[c] = "preparing"
          /\ prepared[o] = c
          /\ preparedDisk' = [preparedDisk EXCEPT ![o] = c]
          /\ pc' = [pc EXCEPT ![c] = "prepared"]
          /\ UNCHANGED <<opDir, prepared, result, resultDisk, outcome, journal,
                         answer, rVars, applied, file, disk>>
      BY <1>3 DEF SyncPrepared, CommittedHasRecord, Refuse
    <2>2. preparedDisk[o] \in {NoOne, c}
      BY <2>1 DEF RecordsKept
    <2>3. RecordsKept'
      BY <2>1 DEF RecordsKept
    <2>4. CommittedHasRecord'
      BY <2>1, <2>2, DistinctValues DEF CommittedHasRecord
    <2>5. PreparedBeforePublished'
      BY <2>1, <2>2, DistinctValues DEF PreparedBeforePublished, HistoryTypeOK
    <2>6. OutcomeExact'
      BY <2>1 DEF OutcomeExact, BeforePublish
    <2>7. ResultsTrue'
      BY <2>1, DistinctValues DEF ResultsTrue, Ended
    <2>8. FinishingWrites' /\ ContentExplained' /\ EvidenceConclusive'
      BY <2>1 DEF FinishingWrites, LateVerdict, ContentExplained, Explained,
         EvidenceConclusive
    <2>9. AnswersFromOutcome'
      BY <2>1, <2>2, DistinctValues DEF AnswersFromOutcome, LateVerdict, Ended
    <2> QED
      BY <2>3, <2>4, <2>5, <2>6, <2>7, <2>8, <2>9
  <1> QED
    BY <1>1, <1>2, <1>3 DEF WritePrepared, SyncPrepared, MakeFolderFails, recVars

\* os.replace, os.link, or an EIO that says nothing of either.
LEMMA PublishAction ==
    ASSUME TypeOK, SaveInv, NEW c \in Call, Publish(c)
    PROVE  SaveInv'
  <1> USE RequestTypes DEF TypeOK, CallTypeOK, SaveInv, Goto, recVars, rVars
  <1>1. /\ pc[c] = "cleared"
        /\ pc' = [pc EXCEPT ![c] = "published"] \/ pc' = [pc EXCEPT ![c] = "raised"]
        /\ UNCHANGED <<disk, recVars, answer, journal, rVars>>
    BY DEF Publish
  <1>2. /\ applied \subseteq applied'
        /\ applied' \subseteq applied \cup {c}
        /\ outcome' \in {outcome, [outcome EXCEPT ![c] = "unknown"],
                                  [outcome EXCEPT ![c] = "completed"]}
        /\ outcome'[c] = "none" => c \notin applied'
        /\ outcome'[c] = "completed" \/ pc'[c] = "published" =>
               c \in applied' /\ outcome'[c] = "completed"
    BY <1>1 DEF Publish, Apply, OutcomeExact, BeforePublish
  <1>3. preparedDisk[OpOf(c)] = c
    BY <1>1 DEF CommittedHasRecord, Committed
  <1>4. RecordsKept' /\ PreparedBeforePublished'
    BY <1>1, <1>2, <1>3 DEF RecordsKept, PreparedBeforePublished
  <1>5. CommittedHasRecord'
    BY <1>1, <1>3 DEF CommittedHasRecord
  <1>6. OutcomeExact'
    BY <1>1, <1>2 DEF OutcomeExact, BeforePublish, Early
  <1>7. ResultsTrue'
    BY <1>1, <1>2 DEF ResultsTrue, Ended
  <1>8. FinishingWrites'
    BY <1>1, <1>2 DEF FinishingWrites, LateVerdict
  <1>9. ContentExplained'
    <2>1. CASE file' = file
      BY <1>1, <1>2, <2>1 DEF ContentExplained, Explained
    <2>2. CASE Apply(c)
      BY <1>1, <2>2 DEF Apply, ContentExplained, Explained, DocTypeOK
    <2> QED
      BY <2>1, <2>2 DEF Publish
  <1>10. EvidenceConclusive'
    BY <1>1, <1>2 DEF EvidenceConclusive
  <1>11. AnswersFromOutcome'
    BY <1>1, <1>2 DEF AnswersFromOutcome, LateVerdict, Ended
  <1> QED
    BY <1>4, <1>5, <1>6, <1>7, <1>8, <1>9, <1>10, <1>11

\* finish_journal concludes from the flags of the call, and creates result.json.
LEMMA FinishActions ==
    ASSUME TypeOK, SaveInv, NEW c \in Call, Finish(c) \/ FinishLate(c)
    PROVE  SaveInv'
  <1> USE RequestTypes, DistinctValues DEF TypeOK, RecTypeOK, CallTypeOK,
          RecovererTypeOK, HistoryTypeOK, SaveInv, docVars, rVars, history
  <1> DEFINE o == OpOf(c)
  <1>1. /\ pc[c] \in {"synced", "late"}
        /\ preparedDisk[o] = c
        /\ prepared[o] = c
    BY DEF Finish, FinishLate, CommittedHasRecord, Committed, After, RecordsKept
  \* The observation made on the success path does not change what is concluded.
  <1>2. /\ outcome' \in [Call -> Outcome]
        /\ \A d \in Call \ {c} : outcome'[d] = outcome[d]
        /\ LateVerdict(c)' = LateVerdict(c)
        /\ outcome'[c] \in {"completed", "verified"} => c \in applied
        /\ outcome'[c] = "none" => c \notin applied
        /\ pc[c] = "synced" => outcome'[c] \in {"completed", "verified"}
        /\ pc[c] = "synced" => LateVerdict(c) = "published" /\ c \in applied
        /\ LateVerdict(c) = "not_published" => c \notin applied
        /\ outcome[c] # "unknown" /\ LateVerdict(c) = "published" => c \in applied
    BY <1>1 DEF Finish, FinishLate, Observed, OutcomeExact, LateVerdict, Outcome
  <1>3. \A d \in Call : LateVerdict(d)' = LateVerdict(d)
    BY <1>2 DEF LateVerdict
  <1>4. CASE /\ result[o] = "none"
             /\ result' = [result EXCEPT ![o] = LateVerdict(c)]
             /\ \/ pc[c] = "synced" /\ pc' = [pc EXCEPT ![c] = "finishing"]
                \/ /\ pc[c] = "late" /\ pc' = [pc EXCEPT ![c] = "late_finishing"]
                   /\ outcome[c] # "unknown"
             /\ UNCHANGED <<file, disk, opDir, prepared, preparedDisk, resultDisk,
                            answer, journal, rVars, applied>>
    <2>1. RecordsKept' /\ PreparedBeforePublished'
      BY <1>4 DEF RecordsKept, PreparedBeforePublished, Verdict
    <2>2. CommittedHasRecord'
      BY <1>1, <1>4 DEF CommittedHasRecord, Committed, After
    <2>3. OutcomeExact'
      BY <1>1, <1>2, <1>4 DEF OutcomeExact, BeforePublish, Early
    <2>4. ResultsTrue'
      BY <1>1, <1>2, <1>4 DEF ResultsTrue, LateVerdict, Ended
    <2>5. FinishingWrites'
      BY <1>1, <1>3, <1>4 DEF FinishingWrites, CommittedHasRecord, Committed, After
    <2>6. ContentExplained' /\ EvidenceConclusive'
      BY <1>4 DEF ContentExplained, Explained, EvidenceConclusive, LateVerdict
    <2>7. AnswersFromOutcome'
      BY <1>1, <1>2, <1>3, <1>4 DEF AnswersFromOutcome, Ended
    <2> QED
      BY <2>1, <2>2, <2>3, <2>4, <2>5, <2>6, <2>7
  <1>5. CASE /\ pc' = [pc EXCEPT ![c] = "done"]
             /\ answer' = [answer EXCEPT ![c] = Reply(outcome'[c])]
             /\ journal' = [journal EXCEPT ![c] = "incomplete"]
             /\ UNCHANGED <<file, disk, recVars, rVars, applied>>
    <2>1. RecordsKept' /\ PreparedBeforePublished'
      BY <1>5 DEF RecordsKept, PreparedBeforePublished, recVars
    <2>2. CommittedHasRecord'
      BY <1>5 DEF CommittedHasRecord, Committed, After, recVars
    <2>3. OutcomeExact'
      BY <1>2, <1>5 DEF OutcomeExact, BeforePublish, Early
    <2>4. ResultsTrue'
      BY <1>1, <1>5 DEF ResultsTrue, Ended, recVars
    <2>5. FinishingWrites'
      BY <1>3, <1>5 DEF FinishingWrites, recVars
    <2>6. ContentExplained' /\ EvidenceConclusive'
      BY <1>5 DEF ContentExplained, Explained, EvidenceConclusive, recVars
    <2>7. AnswersFromOutcome'
      BY <1>1, <1>2, <1>3, <1>5 DEF AnswersFromOutcome, Ended, Reply, recVars
    <2> QED
      BY <2>1, <2>2, <2>3, <2>4, <2>5, <2>6, <2>7
  <1>6. CASE Finish(c)
    <2>1. LateVerdict(c) = "published" /\ outcome'[c] = Observed(c)
      BY <1>2, <1>6 DEF Finish
    <2> QED
      BY <1>4, <1>5, <1>6, <2>1 DEF Finish, CanFinish, WriteResult, Goto, recVars
  <1>7. CASE FinishLate(c)
    BY <1>4, <1>5, <1>7 DEF FinishLate, CanFinish, KnownOutcome, WriteResult, Goto,
         recVars
  <1> QED
    BY <1>6, <1>7

\* The fsync behind result.json, and the answer to the client.
LEMMA SyncResultAction ==
    ASSUME TypeOK, SaveInv, NEW c \in Call, SyncResult(c)
    PROVE  SaveInv'
  <1> USE RequestTypes, DistinctValues DEF TypeOK, RecTypeOK, CallTypeOK,
          RecovererTypeOK, SaveInv, docVars, rVars, history, Goto
  <1>1. /\ pc[c] \in {"finishing", "late_finishing"}
        /\ pc' = [pc EXCEPT ![c] = "done"]
        /\ answer' = [answer EXCEPT ![c] = Reply(outcome[c])]
        /\ UNCHANGED <<file, disk, opDir, prepared, preparedDisk, result, outcome,
                       rVars, applied>>
    BY DEF SyncResult
  <1>2. \/ /\ resultDisk' = [resultDisk EXCEPT ![OpOf(c)] = result[OpOf(c)]]
           /\ journal' = [journal EXCEPT ![c] = "written"]
        \/ /\ resultDisk' = resultDisk
           /\ journal' = [journal EXCEPT ![c] = "incomplete"]
    BY DEF SyncResult, SyncRecord
  <1>3. result[OpOf(c)] = LateVerdict(c) /\ preparedDisk[OpOf(c)] = c
    BY <1>1 DEF FinishingWrites, CommittedHasRecord, Committed, After
  <1>4. RecordsKept' /\ PreparedBeforePublished'
    BY <1>1, <1>2 DEF RecordsKept, PreparedBeforePublished
  <1>5. CommittedHasRecord' /\ OutcomeExact'
    BY <1>1 DEF CommittedHasRecord, Committed, After, OutcomeExact, BeforePublish,
         Early
  <1>6. ResultsTrue'
    BY <1>1, <1>2 DEF ResultsTrue, Ended
  <1>7. FinishingWrites' /\ ContentExplained' /\ EvidenceConclusive'
    BY <1>1 DEF FinishingWrites, LateVerdict, ContentExplained, Explained,
       EvidenceConclusive
  <1>8. AnswersFromOutcome'
    BY <1>1, <1>2, <1>3 DEF AnswersFromOutcome, Reply, LateVerdict, Ended,
       FinishingWrites, RecordsKept
  <1> QED
    BY <1>4, <1>5, <1>6, <1>7, <1>8

\* Evidence in favour of an operation can only come from its own publication.
LEMMA EvidenceMeansApplied ==
    ASSUME TypeOK, SaveInv, NEW o \in Op, prepared[o] # NoOne, Evidence(prepared[o])
    PROVE  prepared[o] \in applied
  <1> DEFINE c == prepared[o]
  <1>1. c \in Call /\ OpOf(c) = o
    BY DEF TypeOK, RecTypeOK, SaveInv, RecordsKept
  <1>2. Candidate(c) \notin WordContent \cup {Initial, Absent}
    BY <1>1, CandidatesIdentifyOperations, RequestTypes, DistinctValues
  <1>3. PICK d \in applied : Candidate(d) = Candidate(c)
    BY <1>1, <1>2, RequestTypes DEF Evidence, SaveInv, ContentExplained, Explained
  <1>4. d \in Call /\ OpOf(d) = o
    BY <1>1, <1>3, CandidatesIdentifyOperations DEF TypeOK, HistoryTypeOK
  <1>5. preparedDisk[o] = d
    BY <1>3, <1>4 DEF SaveInv, PreparedBeforePublished
  <1> QED
    BY <1>3, <1>4, <1>5, DistinctValues DEF SaveInv, RecordsKept

\* recover_operation decides on what it observed, both locks held.
LEMMA RecoverActions ==
    ASSUME TypeOK, SaveInv, NEW r \in Recoverer, RecovererStep(r)
    PROVE  SaveInv'
  <1> USE DistinctValues DEF TypeOK, RecTypeOK, RecovererTypeOK, SaveInv, docVars,
          callVars, history
  <1>1. ASSUME NEW o \in Op, RecoverOperation(r, o)
        PROVE  SaveInv'
    <2>1. /\ rpc' = [rpc EXCEPT ![r] = "observed"]
          /\ rop' = [rop EXCEPT ![r] = o]
          /\ matched' = [matched EXCEPT ![r] = Evidence(prepared[o])]
          /\ disk' \in {disk, file}
          /\ UNCHANGED <<file, recVars, callVars, applied>>
      BY <1>1 DEF RecoverOperation, RecoverStages, SyncFolder, SyncFolderFails
    <2>2. Evidence(prepared[o]) => prepared[o] \in applied
      BY <1>1, EvidenceMeansApplied DEF RecoverOperation
    <2>3. EvidenceConclusive'
      BY <2>1, <2>2 DEF EvidenceConclusive, recVars
    <2>4. /\ RecordsKept' /\ CommittedHasRecord' /\ PreparedBeforePublished'
          /\ OutcomeExact' /\ ResultsTrue' /\ FinishingWrites'
      BY <2>1 DEF RecordsKept, CommittedHasRecord, PreparedBeforePublished,
         OutcomeExact, ResultsTrue, FinishingWrites, LateVerdict, recVars
    <2>5. ContentExplained' /\ AnswersFromOutcome'
      BY <2>1 DEF ContentExplained, Explained, AnswersFromOutcome, LateVerdict,
           recVars
    <2> QED
      BY <2>3, <2>4, <2>5
  <1>2. CASE RecoverDecide(r)
    <2>1. /\ rpc[r] = "observed" /\ rop[r] \in Op
          /\ UNCHANGED <<file, disk, opDir, prepared, preparedDisk, resultDisk,
                         callVars, applied>>
      BY <1>2 DEF RecoverDecide
    <2>2. result[rop[r]] = "none" /\ result'[rop[r]] # "none" =>
              /\ result'[rop[r]] = "recovered"
              /\ prepared[rop[r]] \in applied
      BY <1>2, <2>1 DEF RecoverDecide, EvidenceConclusive, RecoverRelease
    <2>3. /\ result' \in [Op -> Verdict]
          /\ \A o \in Op : result[o] # "none" \/ o # rop[r] => result'[o] = result[o]
      BY <1>2, <2>1 DEF RecoverDecide, Verdict
    <2>4. RecordsKept' /\ CommittedHasRecord' /\ PreparedBeforePublished' /\ OutcomeExact'
      BY <2>1, <2>3 DEF RecordsKept, CommittedHasRecord, PreparedBeforePublished,
           OutcomeExact
    <2>5. ResultsTrue'
      <3>1. prepared[rop[r]] \in applied => preparedDisk[rop[r]] # NoOne
        BY <2>1 DEF PreparedBeforePublished, RecordsKept, HistoryTypeOK
      <3> QED
        BY <2>1, <2>2, <2>3, <3>1 DEF ResultsTrue
    <2>6. FinishingWrites'
      BY <2>1, <2>3, RequestTypes DEF FinishingWrites, LateVerdict
    <2>7. ContentExplained' /\ AnswersFromOutcome'
      BY <2>1 DEF ContentExplained, Explained, AnswersFromOutcome, LateVerdict
    <2>8. EvidenceConclusive'
      BY <1>2, <2>1, <2>3 DEF EvidenceConclusive, RecoverDecide, RecoverRelease
    <2> QED
      BY <2>4, <2>5, <2>6, <2>7, <2>8
  <1>3. CASE RecoverSync(r)
    <2>1. /\ rpc[r] = "writing" /\ rop[r] \in Op
          /\ rpc' = [rpc EXCEPT ![r] = "idle"]
          /\ rop' = [rop EXCEPT ![r] = NoOne]
          /\ matched' = [matched EXCEPT ![r] = FALSE]
          /\ UNCHANGED <<file, disk, opDir, prepared, preparedDisk, result,
                         callVars, applied>>
      BY <1>3 DEF RecoverSync, RecoverRelease
    <2>2. \/ resultDisk' = resultDisk
          \/ resultDisk' = [resultDisk EXCEPT ![rop[r]] = result[rop[r]]]
      BY <1>3 DEF RecoverSync, SyncRecord
    <2>3. RecordsKept' /\ ResultsTrue'
      BY <2>1, <2>2 DEF RecordsKept, ResultsTrue
    <2>4. /\ CommittedHasRecord' /\ PreparedBeforePublished' /\ OutcomeExact'
          /\ FinishingWrites' /\ ContentExplained' /\ EvidenceConclusive'
      BY <2>1 DEF CommittedHasRecord, PreparedBeforePublished, OutcomeExact,
         FinishingWrites, LateVerdict, ContentExplained, Explained, EvidenceConclusive
    <2>5. AnswersFromOutcome'
      <3>1. \A c \in Call : LateVerdict(c) # "none"
        BY DEF LateVerdict
      <3> QED
        BY <2>1, <2>2, <3>1, RequestTypes DEF AnswersFromOutcome, LateVerdict,
             RecordsKept
    <2> QED
      BY <2>3, <2>4, <2>5
  <1> QED
    BY <1>1, <1>2, <1>3 DEF RecovererStep

\* Word, killed processes and power losses.
LEMMA EnvironmentActions ==
    ASSUME TypeOK, SaveInv, ~DirectoryFaults, Environment
    PROVE  SaveInv'
  <1> USE DistinctValues DEF TypeOK, RecTypeOK, CallTypeOK, RecovererTypeOK,
            SaveInv,
          docVars, recVars, callVars, rVars, history
  \* What happens to Word and to backups touches none of it.
  <1>1. ASSUME UNCHANGED <<disk, recVars, callVars, rVars, applied>>,
               \A p \in Path : file'[p] = file[p] \/ file'[p].content \in WordContent
        PROVE  SaveInv'
    <2>1. /\ RecordsKept' /\ CommittedHasRecord' /\ PreparedBeforePublished'
          /\ OutcomeExact' /\ ResultsTrue' /\ EvidenceConclusive'
      BY <1>1 DEF RecordsKept, CommittedHasRecord, PreparedBeforePublished,
         OutcomeExact, ResultsTrue, EvidenceConclusive
    <2>2. FinishingWrites' /\ AnswersFromOutcome'
      BY <1>1 DEF FinishingWrites, AnswersFromOutcome, LateVerdict
    <2>3. ContentExplained'
      BY <1>1 DEF ContentExplained, Explained
    <2> QED
      BY <2>1, <2>2, <2>3
  <1>2. CASE WordOpens \/ WordCloses
    BY <1>1, <1>2 DEF WordOpens, WordCloses
  <1>3. CASE WordSaves
    <2>1. \A p \in Path : file'[p] = file[p] \/ file'[p].content \in WordContent
      BY <1>3 DEF WordSaves, DocTypeOK, Path
    <2> QED
      BY <1>1, <1>3, <2>1 DEF WordSaves
  <1>4. ASSUME NEW c \in Call, BackupDamaged(c)
        PROVE  SaveInv'
    BY <1>1, <1>4 DEF BackupDamaged
  <1>5. ASSUME NEW c \in Call, Crash(c)
        PROVE  SaveInv'
    <2>1. /\ pc[c] \in Running
          /\ pc' = [pc EXCEPT ![c] = "crashed"]
          /\ UNCHANGED <<file, disk, prepared, preparedDisk, result, resultDisk,
                         outcome, answer, journal, rVars, applied>>
      BY <1>5 DEF Crash, Goto
    <2>2. \A o \in Op : opDir'[o] # "unsynced"
      BY <1>5, RequestTypes DEF Crash, MakeFolderFails, RecordsKept
    <2>3. RecordsKept'
      BY <2>1, <2>2 DEF RecordsKept
    <2>4. CommittedHasRecord' /\ PreparedBeforePublished' /\ OutcomeExact'
      BY <2>1 DEF CommittedHasRecord, Committed, After, PreparedBeforePublished,
         OutcomeExact, BeforePublish, Early
    <2>5. ResultsTrue'
      BY <2>1 DEF ResultsTrue, Ended
    <2>6. FinishingWrites' /\ ContentExplained' /\ EvidenceConclusive'
      BY <2>1 DEF FinishingWrites, LateVerdict, ContentExplained, Explained,
         EvidenceConclusive
    <2>7. AnswersFromOutcome'
      BY <2>1 DEF AnswersFromOutcome, LateVerdict, Ended
    <2> QED
      BY <2>3, <2>4, <2>5, <2>6, <2>7
  <1>6. ASSUME NEW r \in Recoverer, CrashRecoverer(r)
        PROVE  SaveInv'
    <2>1. /\ \A q \in Recoverer : rpc'[q] # "idle" =>
                rpc'[q] = rpc[q] /\ rop'[q] = rop[q] /\ matched'[q] = matched[q]
          /\ UNCHANGED <<file, disk, recVars, callVars, applied>>
      BY <1>6 DEF CrashRecoverer, RecoverRelease
    <2>2. /\ RecordsKept' /\ CommittedHasRecord' /\ PreparedBeforePublished'
          /\ OutcomeExact' /\ ResultsTrue' /\ EvidenceConclusive'
      BY <2>1 DEF RecordsKept, CommittedHasRecord, PreparedBeforePublished,
         OutcomeExact, ResultsTrue, EvidenceConclusive
    <2>3. FinishingWrites' /\ AnswersFromOutcome' /\ ContentExplained'
      BY <2>1 DEF FinishingWrites, AnswersFromOutcome, LateVerdict,
         ContentExplained, Explained
    <2> QED
      BY <2>2, <2>3
  <1>7. CASE PowerLoss
    <2>1. /\ \A p \in Path : file'[p] \in {file[p], disk[p]} /\ disk'[p] = file'[p]
          /\ UNCHANGED <<outcome, answer, journal, applied>>
      BY <1>7 DEF PowerLoss, Survivors, DocTypeOK
    <2>2. \A o \in Op :
              /\ opDir'[o] # "unsynced"
              /\ prepared'[o] \in {prepared[o], preparedDisk[o]}
              /\ preparedDisk'[o] = prepared'[o]
              /\ result'[o] \in {result[o], resultDisk[o]}
              /\ resultDisk'[o] = result'[o]
      BY <1>7 DEF PowerLoss, Survivors, RecordsKept
    <2>3. \A c \in Call :
              /\ pc'[c] \in {"idle", "done", "crashed"}
              /\ pc'[c] \notin Ended => pc'[c] = pc[c]
              /\ pc[c] \in {"late_finishing"} \cup Ended => pc'[c] \in Ended
      BY <1>7 DEF PowerLoss, Running, Early, Guarded, After, Ended
    <2>4. \A r \in Recoverer : rpc'[r] = "idle"
      BY <1>7 DEF PowerLoss
    <2>5. \A o \in Op : /\ preparedDisk[o] # NoOne => prepared'[o] = preparedDisk[o]
                        /\ resultDisk[o] # "none" => result'[o] = resultDisk[o]
      BY <2>2 DEF RecordsKept
    <2>6. RecordsKept'
      BY <2>2 DEF RecordsKept
    <2>7. CommittedHasRecord' /\ FinishingWrites' /\ EvidenceConclusive'
      BY <2>3, <2>4 DEF CommittedHasRecord, FinishingWrites, EvidenceConclusive,
         Committed, After, Ended
    <2>8. PreparedBeforePublished'
      BY <2>1, <2>2, <2>5, RequestTypes DEF PreparedBeforePublished, HistoryTypeOK
    <2>9. OutcomeExact'
      BY <2>1, <2>3 DEF OutcomeExact, BeforePublish, Early, Ended
    <2>10. ResultsTrue'
      BY <2>1, <2>2, <2>3, <2>5 DEF ResultsTrue, RecordsKept
    <2>11. ContentExplained'
      BY <2>1 DEF ContentExplained, Explained
    <2>12. AnswersFromOutcome'
      <3>1. \A c \in Call : LateVerdict(c)' = LateVerdict(c) /\ LateVerdict(c) # "none"
        BY <2>1 DEF LateVerdict
      <3> QED
        BY <2>1, <2>2, <2>3, <2>5, <3>1, RequestTypes DEF AnswersFromOutcome
    <2> QED
      BY <2>6, <2>7, <2>8, <2>9, <2>10, <2>11, <2>12
  <1> QED
    BY <1>2, <1>3, <1>4, <1>5, <1>6, <1>7 DEF Environment

\* The inductive step, for everything that can happen.
LEMMA SaveInvStep ==
    ASSUME TypeOK, SaveInv, ~DirectoryFaults, [Next]_vars
    PROVE  SaveInv'
  <1>1. ASSUME NEW c \in Call, CallStep(c)
        PROVE  SaveInv'
    BY <1>1, QuietActions, RecordActions, PublishAction, FinishActions,
       SyncResultAction DEF CallStep
  <1>2. ASSUME NEW r \in Recoverer, RecovererStep(r)
        PROVE  SaveInv'
    BY <1>2, RecoverActions
  <1>3. CASE \/ \E o \in Op : ReadBegins(o) \/ ReadEnds(o)
             \/ UNCHANGED vars
    <2>1. UNCHANGED <<file, disk, recVars, callVars, rVars, applied>>
      BY <1>3 DEF ReadBegins, ReadEnds, vars, docVars, history
    <2> USE <2>1 DEF SaveInv, recVars, callVars, rVars
    <2>2. /\ RecordsKept' /\ CommittedHasRecord' /\ PreparedBeforePublished'
          /\ OutcomeExact' /\ ResultsTrue' /\ EvidenceConclusive'
      BY DEF RecordsKept, CommittedHasRecord, PreparedBeforePublished,
         OutcomeExact, ResultsTrue, EvidenceConclusive
    <2>3. FinishingWrites' /\ AnswersFromOutcome' /\ ContentExplained'
      BY DEF FinishingWrites, AnswersFromOutcome, LateVerdict, ContentExplained,
           Explained
    <2> QED
      BY <2>2, <2>3
  <1>4. CASE Environment
    BY <1>4, EnvironmentActions
  <1> QED
    BY <1>1, <1>2, <1>3, <1>4 DEF Next

\* Nothing is recorded and nothing applied at the start.
LEMMA SaveInvInit == Init => SaveInv
  <1> SUFFICES ASSUME Init PROVE SaveInv
    OBVIOUS
  <1>1. RecordsKept /\ CommittedHasRecord /\ PreparedBeforePublished /\ OutcomeExact
    BY DEF Init, RecordsKept, CommittedHasRecord, Committed, After,
       PreparedBeforePublished, OutcomeExact
  <1>2. ResultsTrue /\ FinishingWrites /\ EvidenceConclusive /\ AnswersFromOutcome
    BY DEF Init, ResultsTrue, FinishingWrites, EvidenceConclusive,
         AnswersFromOutcome
  <1>3. ContentExplained
    BY DEF Init, ContentExplained, Explained, NoVersion, Path
  <1> QED
    BY <1>1, <1>2, <1>3 DEF SaveInv

\* The records, the flags of the calls and the document agree as SaveInv says in
\* every reachable state of publish_document and recover_operation.
THEOREM SaveInvariant ==
    ASSUME ~DirectoryFaults
    PROVE  Spec => []SaveInv
  <1>1. TypeOK /\ SaveInv /\ [Next]_vars => SaveInv'
    BY SaveInvStep
  <1> QED
    BY TypeCorrect, SaveInvInit, <1>1, PTL DEF Spec

--------------------------------------------------------------------------------
(* What clients and readers of the records rely on.                         *)

\* publish_document never changes a document before the prepared record of that
\* very call is durable, for any number of calls, ids, crashes and power losses.
THEOREM PreparedFirst ==
    ASSUME ~DirectoryFaults
    PROVE  Spec => []PreparedBeforePublished
  <1>1. SaveInv => PreparedBeforePublished
    BY DEF SaveInv
  <1> QED
    BY SaveInvariant, <1>1, PTL

\* No operation id publishes twice, over crashes, retries and reuse of the id.
THEOREM PublishedOnce ==
    ASSUME ~DirectoryFaults
    PROVE  Spec => [](\A c, d \in applied : OpOf(c) = OpOf(d) => c = d)
  <1>1. SaveInv => \A c, d \in applied : OpOf(c) = OpOf(d) => c = d
    BY DEF SaveInv, PreparedBeforePublished
  <1> QED
    BY SaveInvariant, <1>1, PTL

\* A result record never says of its operation what did not happen.
THEOREM ResultsAreTruthful ==
    ASSUME ~DirectoryFaults
    PROVE  Spec => []TruthfulResult
  <1>1. SaveInv => TruthfulResult
    BY DEF SaveInv, TruthfulResult, ResultsTrue
  <1> QED
    BY SaveInvariant, <1>1, PTL

\* What a client was told about its save is what happened to the document.
THEOREM AnswersHonest ==
    ASSUME ~DirectoryFaults
    PROVE  Spec => []AnswersAreHonest
  <1>1. SaveInv => AnswersAreHonest
    BY DEF SaveInv, AnswersAreHonest, AnswersFromOutcome, OutcomeExact
  <1> QED
    BY SaveInvariant, <1>1, PTL

\* A result reported as written is there after every crash and power loss.
THEOREM WrittenStays ==
    ASSUME ~DirectoryFaults
    PROVE  Spec => []WrittenMeansDurable
  <1>1. SaveInv => WrittenMeansDurable
    BY DEF SaveInv, WrittenMeansDurable, AnswersFromOutcome
  <1> QED
    BY SaveInvariant, <1>1, PTL

\* Records, answers and the status of the journal are true and stay true
\* (publish_document, finish_journal, recover_operation).
THEOREM StatementsTrue ==
    ASSUME ~DirectoryFaults
    PROVE  Spec => []StatementsAreTrue
  <1>1. TruthfulResult /\ AnswersAreHonest /\ WrittenMeansDurable => StatementsAreTrue
    BY DEF StatementsAreTrue
  <1> QED
    BY <1>1, ResultsAreTruthful, AnswersHonest, WrittenStays, PTL

--------------------------------------------------------------------------------
(* The refinement.                                                         *)

\* What one step does to the three variables the ledger is a view of.
LEMMA LedgerMoves ==
    ASSUME TypeOK, SaveInv, ~DirectoryFaults, [Next]_vars
    PROVE  \/ UNCHANGED <<applied, preparedDisk, resultDisk>>
           \/ \E c \in Call : /\ pc[c] = "cleared"
                              /\ applied' = applied \cup {c}
                              /\ UNCHANGED <<preparedDisk, result, resultDisk>>
           \/ /\ UNCHANGED applied
              /\ \A o \in Op :
                    /\ preparedDisk[o] # NoOne => preparedDisk'[o] = preparedDisk[o]
                    /\ resultDisk[o] # "none" => resultDisk'[o] = resultDisk[o]
                    /\ resultDisk'[o] # resultDisk[o] => preparedDisk[o] # NoOne
  <1> USE DEF TypeOK, RecTypeOK, SaveInv
  <1> DEFINE Still == UNCHANGED <<applied, preparedDisk, resultDisk>>
             Kept == /\ UNCHANGED applied
                     /\ \A o \in Op :
                          /\ preparedDisk[o] # NoOne => preparedDisk'[o] = preparedDisk[o]
                          /\ resultDisk[o] # "none" => resultDisk'[o] = resultDisk[o]
                          /\ resultDisk'[o] # resultDisk[o] => preparedDisk[o] # NoOne
  <1>1. ASSUME NEW c \in Call, CallStep(c), ~Publish(c), ~SyncPrepared(c), ~SyncResult(c)
        PROVE  Still
    BY <1>1 DEF CallStep, PublishDocument, WriterLock, CheckSource, StageCandidate,
       LinkBackup, SyncBackup, Recheck, WritePrepared, FinalCheck, SyncPublication,
       Finish, Unwind, FinishLate, recVars, history
  <1>2. ASSUME NEW c \in Call, Publish(c)
        PROVE  \/ Still
               \/ /\ pc[c] = "cleared"
                  /\ applied' = applied \cup {c}
                  /\ UNCHANGED <<preparedDisk, result, resultDisk>>
    BY <1>2 DEF Publish, Apply, recVars
  <1>3. ASSUME NEW c \in Call, SyncPrepared(c)
        PROVE  Kept
    BY <1>3, RequestTypes, DistinctValues DEF SyncPrepared, RecordsKept, history
  <1>4. ASSUME NEW c \in Call, SyncResult(c)
        PROVE  Kept
    <2>1. result[OpOf(c)] # "none" => preparedDisk[OpOf(c)] # NoOne
      BY RequestTypes DEF ResultsTrue
    <2>2. /\ UNCHANGED <<applied, preparedDisk>>
          /\ \/ resultDisk' = resultDisk
             \/ resultDisk' = [resultDisk EXCEPT ![OpOf(c)] = result[OpOf(c)]]
      BY <1>4 DEF SyncResult, SyncRecord, history
    <2> QED
      BY <2>1, <2>2, RequestTypes DEF RecordsKept
  <1>5. ASSUME NEW r \in Recoverer, RecovererStep(r)
        PROVE  Kept
    <2>1. CASE RecoverSync(r)
      <3>1. rop[r] \in Op
        BY <2>1 DEF RecoverSync, RecovererTypeOK
      <3>2. /\ UNCHANGED <<applied, preparedDisk>>
            /\ \/ resultDisk' = resultDisk
               \/ resultDisk' = [resultDisk EXCEPT ![rop[r]] = result[rop[r]]]
        BY <2>1 DEF RecoverSync, SyncRecord, history
      <3> QED
        BY <3>1, <3>2 DEF RecordsKept, ResultsTrue
    <2>2. CASE ~RecoverSync(r)
      BY <1>5, <2>2 DEF RecovererStep, RecoverOperation, RecoverDecide, recVars,
           history
    <2> QED
      BY <2>1, <2>2
  <1>6. CASE PowerLoss
    <2>1. \A o \in Op : /\ preparedDisk'[o] \in {prepared[o], preparedDisk[o]}
                        /\ resultDisk'[o] \in {result[o], resultDisk[o]}
      BY <1>6 DEF PowerLoss, Survivors, RecordsKept
    <2> QED
      BY <1>6, <2>1 DEF PowerLoss, RecordsKept, ResultsTrue, history
  <1>7. CASE Environment /\ ~PowerLoss
    BY <1>7 DEF Environment, WordOpens, WordSaves, WordCloses, BackupDamaged, Crash,
       CrashRecoverer, recVars, history
  <1>8. CASE \/ \E o \in Op : ReadBegins(o) \/ ReadEnds(o)
             \/ UNCHANGED vars
    BY <1>8 DEF ReadBegins, ReadEnds, vars, recVars, history
  <1> QED
    BY <1>1, <1>2, <1>3, <1>4, <1>5, <1>6, <1>7, <1>8 DEF Next

\* Each operation takes one ledger step or none.
LEMMA LedgerStep ==
    ASSUME TypeOK, SaveInv, SaveInv', TypeOK', ~DirectoryFaults, [Next]_vars
    PROVE  Ledger!LedgerNext
  <1> USE DistinctValues DEF TypeOK, RecTypeOK, HistoryTypeOK, SaveInv
  <1> SUFFICES ASSUME NEW o \in Op
               PROVE  \/ Ledger!Stay(o) \/ Ledger!Prepare(o)
                      \/ Ledger!Publish(o) \/ Ledger!Conclude(o)
    BY DEF Ledger!LedgerNext
  <1>1. /\ \A c \in applied : OpOf(c) = o => preparedDisk[o] = c
        /\ \A c \in applied' : OpOf(c) = o => preparedDisk'[o] = c
    BY DEF PreparedBeforePublished
  <1>2. CASE UNCHANGED <<applied, preparedDisk, resultDisk>>
    BY <1>2 DEF Ledger!Stay, PhaseOf, VerdictOf
  <1>3. ASSUME NEW c \in Call, pc[c] = "cleared", applied' = applied \cup {c},
               UNCHANGED <<preparedDisk, result, resultDisk>>
        PROVE  Ledger!Stay(o) \/ Ledger!Publish(o)
    <2>1. preparedDisk[OpOf(c)] = c /\ c \notin applied
      BY <1>3 DEF CommittedHasRecord, Committed, OutcomeExact, BeforePublish
    <2>2. CASE OpOf(c) = o
      <3>1. resultDisk[o] = "none"
        BY <1>3, <2>1, <2>2 DEF RecordsKept, ResultsTrue, Ended, Verdict
      <3>2. PhaseOf(o) = "prepared" /\ PhaseOf(o)' = "published"
        BY <1>1, <1>3, <2>1, <2>2 DEF PhaseOf
      <3> QED
        BY <1>3, <3>1, <3>2 DEF Ledger!Publish, VerdictOf
    <2>3. CASE OpOf(c) # o
      BY <1>3, <2>3 DEF Ledger!Stay, PhaseOf, VerdictOf
    <2> QED
      BY <2>2, <2>3
  <1>4. ASSUME UNCHANGED applied,
               preparedDisk[o] # NoOne => preparedDisk'[o] = preparedDisk[o],
               resultDisk[o] # "none" => resultDisk'[o] = resultDisk[o],
               resultDisk'[o] # resultDisk[o] => preparedDisk[o] # NoOne
        PROVE  Ledger!Stay(o) \/ Ledger!Prepare(o) \/ Ledger!Conclude(o)
    <2>1. CASE preparedDisk'[o] # preparedDisk[o]
      <3>1. PhaseOf(o) = "unused" /\ PhaseOf(o)' = "prepared" /\ resultDisk'[o] = resultDisk[o]
        BY <1>1, <1>4, <2>1 DEF PhaseOf
      <3> QED
        BY <3>1 DEF Ledger!Prepare, VerdictOf
    <2>2. CASE preparedDisk'[o] = preparedDisk[o] /\ resultDisk'[o] # resultDisk[o]
      <3>1. /\ resultDisk[o] = "none"
            /\ resultDisk'[o] = result'[o] /\ result'[o] # "none"
            /\ prepared'[o] = preparedDisk'[o] /\ prepared'[o] # NoOne
            /\ OpOf(prepared'[o]) = o
        BY <1>4, <2>2 DEF RecordsKept
      <3>2. PhaseOf(o)' = PhaseOf(o)
        BY <1>4, <2>2 DEF PhaseOf
      <3>3. CASE result'[o] \in {"published", "recovered"}
        <4>1. PhaseOf(o)' = "published"
          BY <3>1, <3>3 DEF PhaseOf, ResultsTrue
        <4> QED
          BY <3>1, <3>2, <3>3, <4>1 DEF Ledger!Conclude, VerdictOf
      <3>4. CASE result'[o] = "not_published"
        <4>1. PhaseOf(o)' = "prepared"
          BY <1>1, <3>1, <3>4 DEF PhaseOf, ResultsTrue
        <4> QED
          BY <3>1, <3>2, <3>4, <4>1 DEF Ledger!Conclude, VerdictOf
      <3> QED
        BY <3>1, <3>3, <3>4 DEF Verdict
    <2>3. CASE preparedDisk'[o] = preparedDisk[o] /\ resultDisk'[o] = resultDisk[o]
      BY <1>4, <2>3 DEF Ledger!Stay, PhaseOf, VerdictOf
    <2> QED
      BY <2>1, <2>2, <2>3
  <1> QED
    BY <1>2, <1>3, <1>4, LedgerMoves

\* publish_document and recover_operation implement the operation ledger: on the
\* disk an operation is unused, then prepared, then published at most once, and
\* gets at most one verdict, which agrees with what happened.
THEOREM ImplementsLedger ==
    ASSUME ~DirectoryFaults
    PROVE  Spec => LedgerImplemented
  <1>1. Init => Ledger!LedgerInit
    BY DEF Init, Ledger!LedgerInit, PhaseOf, VerdictOf
  <1>2. TypeOK /\ SaveInv /\ TypeOK' /\ SaveInv' /\ [Next]_vars
            => [Ledger!LedgerNext]_Ledger!ledgerVars
    BY LedgerStep
  <1> QED
    BY <1>1, <1>2, TypeCorrect, SaveInvariant, PTL
    DEF Spec, LedgerImplemented, Ledger!LedgerSpec

-----------------------------------------------------------------------------
(***************************************************************************)
(* What a save overwrites.  GuardInv is about the writer lock and the      *)
(* checks made under it: past the last check only Word or the owner of the *)
(* folder can have moved anything, so the version a save replaces is the   *)
(* one in its durable backup.  It holds with every fault, those of         *)
(* directories included.  Then what a save and a record say of the disk:   *)
(* a verified publication was synced before, and as long as fsync does not *)
(* fail no record certifies one that was not.                              *)
(***************************************************************************)

\* Each step of a call keeps the lock and what it checked under it.
LEMMA GuardInvCall ==
    ASSUME TypeOK, GuardInv, NEW c \in Call, CallStep(c)
    PROVE  GuardInv'
  <1> USE RequestTypes, DistinctValues DEF TypeOK, LockTypeOK, CallTypeOK,
            DocTypeOK,
          GuardInv, Guarded, After, Ended, Early, Goto, docVars, callVars, rVars, env, history,
          LockHeld, NothingMoved, Captured, BackedUp, SourceCurrent, BackupVerified
  <1>1. CASE PublishDocument(c)
    BY <1>1 DEF PublishDocument
  <1>2. CASE WriterLock(c)
    BY <1>2 DEF WriterLock
  <1>3. CASE CheckSource(c)
    BY <1>3 DEF CheckSource, Refuse
  <1>4. CASE StageCandidate(c)
    BY <1>4 DEF StageCandidate, Refuse
  <1>5. CASE LinkBackup(c)
    BY <1>5 DEF LinkBackup, Refuse
  <1>6. CASE SyncBackup(c)
    BY <1>6 DEF SyncBackup, Refuse
  <1>7. CASE Recheck(c)
    BY <1>7 DEF Recheck, Refuse
  <1>8. CASE WritePrepared(c)
    BY <1>8 DEF WritePrepared, Refuse
  <1>9. CASE SyncPrepared(c)
    BY <1>9 DEF SyncPrepared, Refuse
  <1>10. CASE FinalCheck(c)
    BY <1>10 DEF FinalCheck
  <1>11. CASE Publish(c)
    BY <1>11 DEF Publish
  <1>12. CASE SyncPublication(c)
    BY <1>12 DEF SyncPublication
  <1>13. CASE Finish(c)
    BY <1>13 DEF Finish
  <1>14. CASE Unwind(c)
    BY <1>14 DEF Unwind
  <1>15. CASE FinishLate(c)
    BY <1>15 DEF FinishLate
  <1>16. CASE SyncResult(c)
    BY <1>16 DEF SyncResult
  <1> QED
    BY <1>1, <1>2, <1>3, <1>4, <1>5, <1>6, <1>7, <1>8, <1>9, <1>10, <1>11, <1>12,
         <1>13, <1>14, <1>15, <1>16 DEF CallStep

\* Recoveries take the same lock; the rest is recorded in raced.
LEMMA GuardInvOther ==
    ASSUME TypeOK, GuardInv,
           \/ \E r \in Recoverer : RecovererStep(r)
           \/ \E o \in Op : ReadBegins(o) \/ ReadEnds(o)
           \/ Environment
           \/ UNCHANGED vars
    PROVE  GuardInv'
  <1> USE DistinctValues DEF TypeOK, LockTypeOK, CallTypeOK, RecovererTypeOK,
            DocTypeOK,
          GuardInv, docVars, callVars, rVars, env, history,
          LockHeld, NothingMoved, SourceCurrent, BackupVerified
  <1>1. ASSUME NEW r \in Recoverer, RecovererStep(r)
        PROVE  GuardInv'
    <2>1. ASSUME NEW o \in Op, RecoverOperation(r, o)
          PROVE  GuardInv'
      BY <2>1 DEF RecoverOperation, Guarded
    <2>2. CASE RecoverDecide(r)
      BY <2>2 DEF RecoverDecide, RecoverRelease, Guarded
    <2>3. CASE RecoverSync(r)
      BY <2>3 DEF RecoverSync, RecoverRelease, Guarded
    <2> QED
      BY <1>1, <2>1, <2>2, <2>3 DEF RecovererStep
  <1>2. ASSUME NEW o \in Op, ReadBegins(o) \/ ReadEnds(o)
        PROVE  GuardInv'
    BY <1>2 DEF ReadBegins, ReadEnds
  <1>3. CASE WordOpens
    BY <1>3 DEF WordOpens
  <1>4. CASE WordSaves \/ WordCloses
    BY <1>4 DEF WordSaves, WordCloses
  <1>5. ASSUME NEW c \in Call, BackupDamaged(c)
        PROVE  GuardInv'
    BY <1>5 DEF BackupDamaged
  <1>6. ASSUME NEW c \in Call, Crash(c)
        PROVE  GuardInv'
    BY <1>6 DEF Crash, Goto, Guarded, Captured, BackedUp
  <1>7. ASSUME NEW r \in Recoverer, CrashRecoverer(r)
        PROVE  GuardInv'
    BY <1>7 DEF CrashRecoverer, RecoverRelease, Guarded
  <1>8. CASE PowerLoss
    <2>1. /\ \A c \in Call : pc'[c] \in {"idle"} \cup Ended
          /\ \A r \in Recoverer : rpc'[r] = "idle"
      BY <1>8 DEF PowerLoss, Running, Early, Guarded, After, Ended
    <2> QED
      BY <2>1 DEF Guarded, Captured, BackedUp, Ended
  <1>9. CASE UNCHANGED vars
    BY <1>9 DEF vars
  <1> QED
    BY <1>1, <1>2, <1>3, <1>4, <1>5, <1>6, <1>7, <1>8, <1>9 DEF Environment

\* No call has captured anything yet.
LEMMA GuardInvInit == Init => GuardInv
  BY DistinctValues DEF Init, GuardInv, LockHeld, NothingMoved, Guarded, Captured,
       BackedUp

\* One call or recovery works in a document folder at a time, and what the holder
\* checked still stands when it publishes, unless it was overtaken from outside.
THEOREM GuardInvariant == Spec => []GuardInv
  <1>1. TypeOK /\ GuardInv /\ [Next]_vars => GuardInv'
    <2> SUFFICES ASSUME TypeOK, GuardInv, [Next]_vars
                 PROVE  GuardInv'
      OBVIOUS
    <2> QED
      BY GuardInvCall, GuardInvOther DEF Next
  <1> QED
    BY TypeCorrect, GuardInvInit, <1>1, PTL DEF Spec

\* Only Publish applies a candidate, and it replaces what was checked.
LEMMA PublishReplacesBackup ==
    ASSUME TypeOK, GuardInv, NEW c \in Call, c \in applied' \ applied, c \notin raced,
           [Next]_vars
    PROVE  overwritten'[c].content = IF InPlace(c) THEN backupDisk[c] ELSE Absent
  <1> USE DEF TypeOK, HistoryTypeOK
  <1>1. Publish(c)
    <2>1. ASSUME NEW d \in Call, CallStep(d)
          PROVE  Publish(d) /\ d = c
      BY <2>1 DEF CallStep, PublishDocument, WriterLock, CheckSource,
           StageCandidate,
         LinkBackup, SyncBackup, Recheck, WritePrepared, SyncPrepared, FinalCheck,
         Publish, Apply, SyncPublication, Finish, Unwind, FinishLate, SyncResult, history
    <2>2. ASSUME NEW r \in Recoverer, RecovererStep(r)
          PROVE  FALSE
      BY <2>2 DEF RecovererStep, RecoverOperation, RecoverDecide, RecoverSync,
           history
    <2>3. CASE Environment
      BY <2>3 DEF Environment, WordOpens, WordSaves, WordCloses, BackupDamaged,
           Crash,
         CrashRecoverer, PowerLoss, history
    <2>4. CASE (\E o \in Op : ReadBegins(o) \/ ReadEnds(o)) \/ UNCHANGED vars
      BY <2>4 DEF ReadBegins, ReadEnds, vars, history
    <2> QED
      BY <2>1, <2>2, <2>3, <2>4 DEF Next
  <1>2. pc[c] = "cleared" /\ Apply(c)
    BY <1>1 DEF Publish
  <1>3. /\ version[c].content = Source(c)
        /\ file["source"] = version[c]
        /\ InPlace(c) => backup[c] = Source(c) /\ backupDisk[c] = backup[c]
    BY <1>2 DEF GuardInv, NothingMoved, Guarded, Captured, BackedUp, SourceCurrent,
       BackupVerified
  <1>4. overwritten'[c] = file[Dest(c)]
    BY <1>2 DEF Apply
  <1> QED
    BY <1>2, <1>3, <1>4 DEF Apply, InPlace

\* No save of a document destroys a version that is not in a durable backup, and
\* no copy replaces a file, unless Word or the owner acts after the last check of
\* publish_document.
THEOREM NothingIsLost == Spec => ReplacedVersionIsBackedUp
  <1>1. TypeOK /\ GuardInv /\ [Next]_vars
            => [\A c \in Call : c \in applied' \ applied /\ c \notin raced =>
                  overwritten'[c].content = IF InPlace(c) THEN backupDisk[c]
                                                           ELSE Absent]_vars
    BY PublishReplacesBackup
  <1> QED
    BY <1>1, TypeCorrect, GuardInvariant, PTL DEF Spec, ReplacedVersionIsBackedUp

--------------------------------------------------------------------------------
(* What is on the disk.                                                    *)

\* Every step of a call but Publish leaves the document alone, and the disk as it
\* was or as the document is.
LEMMA CallSyncs ==
    ASSUME NEW c \in Call, CallStep(c), ~Publish(c)
    PROVE  file' = file /\ disk' \in {disk, file}
  <1> USE DEF docVars, Refuse, CleanStage, SyncFolder, SyncFolderFails, RecoverStages
  <1>1. CASE PublishDocument(c) \/ WriterLock(c) \/ CheckSource(c) \/ StageCandidate(c)
    BY <1>1 DEF PublishDocument, WriterLock, CheckSource, StageCandidate
  <1>2. CASE LinkBackup(c) \/ SyncBackup(c) \/ Recheck(c) \/ WritePrepared(c)
    BY <1>2 DEF LinkBackup, SyncBackup, Recheck, WritePrepared
  <1>3. CASE SyncPrepared(c) \/ FinalCheck(c) \/ SyncPublication(c) \/ Finish(c)
    BY <1>3 DEF SyncPrepared, FinalCheck, SyncPublication, Finish
  <1>4. CASE Unwind(c) \/ FinishLate(c) \/ SyncResult(c)
    BY <1>4 DEF Unwind, FinishLate, SyncResult
  <1> QED
    BY <1>1, <1>2, <1>3, <1>4 DEF CallStep

LEMMA OnDiskKept ==
    ASSUME NEW d \in Call, OnDisk(d), file' = file, disk' \in {disk, file}
    PROVE  OnDisk(d)'
  BY DEF OnDisk

\* What the rest of the system does to the document and the disk: a save of Word
\* carries no call's name, and after a power loss the document is what is on disk.
LEMMA OthersSync ==
    ASSUME TypeOK, NEW d \in Call, OnDisk(d),
           \/ \E r \in Recoverer : RecovererStep(r)
           \/ \E o \in Op : ReadBegins(o) \/ ReadEnds(o)
           \/ Environment
           \/ UNCHANGED vars
    PROVE  OnDisk(d)'
  <1> USE OnDiskKept DEF docVars
  <1>1. ASSUME NEW r \in Recoverer, RecovererStep(r)
        PROVE  OnDisk(d)'
    BY <1>1 DEF RecovererStep, RecoverOperation, RecoverStages, SyncFolder,
         SyncFolderFails, RecoverDecide, RecoverSync
  <1>2. ASSUME NEW o \in Op, ReadBegins(o) \/ ReadEnds(o)
        PROVE  OnDisk(d)'
    BY <1>2 DEF ReadBegins, ReadEnds
  <1>3. CASE WordSaves
    <2>1. d \notin Nat /\ session \in Nat /\ Dest(d) \in Path
      BY DistinctValues, RequestTypes DEF TypeOK, EnvTypeOK
    <2>2. PICK k \in WordContent :
             file' = [file EXCEPT !["source"] = [content |-> k, by |-> session]]
      BY <1>3 DEF WordSaves
    <2>3. disk' = disk
      BY <1>3 DEF WordSaves
    <2>4. CASE Dest(d) = "source"
      BY <2>1, <2>2, <2>4 DEF OnDisk, TypeOK, DocTypeOK
    <2>5. CASE Dest(d) # "source"
      BY <2>1, <2>2, <2>3, <2>5 DEF OnDisk, TypeOK, DocTypeOK
    <2> QED
      BY <2>4, <2>5
  <1>4. CASE PowerLoss
    <2>1. disk' = file'
      BY <1>4 DEF PowerLoss
    <2> QED
      BY <2>1 DEF OnDisk
  <1>5. CASE WordOpens \/ WordCloses
    BY <1>5 DEF WordOpens, WordCloses
  <1>6. ASSUME NEW c \in Call, BackupDamaged(c) \/ Crash(c)
        PROVE  OnDisk(d)'
    BY <1>6 DEF BackupDamaged, Crash
  <1>7. ASSUME NEW r \in Recoverer, CrashRecoverer(r)
        PROVE  OnDisk(d)'
    BY <1>7 DEF CrashRecoverer
  <1>8. CASE UNCHANGED vars
    BY <1>8 DEF vars
  <1> QED
    BY <1>1, <1>2, <1>3, <1>4, <1>5, <1>6, <1>7, <1>8 DEF Environment

\* A call publishes under its own name only.
LEMMA PublishIsItsOwn ==
    ASSUME TypeOK, NEW c \in Call, Publish(c), NEW d \in Call, d # c, OnDisk(d)
    PROVE  OnDisk(d)'
  <1>1. disk' = disk /\ Dest(c) \in Path /\ Dest(d) \in Path
    BY RequestTypes DEF Publish
  <1>2. \/ file' = file
        \/ file' = [file EXCEPT ![Dest(c)] = [content |-> Candidate(c), by |-> c]]
    BY DEF Publish, Apply
  <1>3. ASSUME file' = [file EXCEPT ![Dest(c)] = [content |-> Candidate(c), by |-> c]],
               Dest(c) = Dest(d)
        PROVE  OnDisk(d)'
    BY <1>1, <1>3 DEF OnDisk, TypeOK, DocTypeOK
  <1>4. ASSUME file' = [file EXCEPT ![Dest(c)] = [content |-> Candidate(c), by |-> c]],
               Dest(c) # Dest(d)
        PROVE  OnDisk(d)'
    BY <1>1, <1>4 DEF OnDisk, TypeOK, DocTypeOK
  <1> QED
    BY <1>1, <1>2, <1>3, <1>4 DEF OnDisk

--------------------------------------------------------------------------------
(* SavedIsDurable, with every fault.                                       *)

\* finish_journal only verifies behind the fsync of SyncPublication.
LEMMA VerifiedCall ==
    ASSUME TypeOK, VerifiedOnDisk, NEW c \in Call, CallStep(c)
    PROVE  VerifiedOnDisk'
  <1> USE DEF TypeOK, CallTypeOK, VerifiedOnDisk, Goto
  <1>1. CASE Publish(c)
    <2>1. \A d \in Call \ {c} : pc'[d] = pc[d] /\ outcome'[d] = outcome[d]
      BY <1>1 DEF Publish
    <2>2. answer' = answer /\ answer[c] # "saved" /\ pc'[c] # "synced" /\ disk' = disk
      BY <1>1 DEF Publish, Ended
    <2>3. outcome'[c] = "verified" => outcome[c] = "verified" /\ file' = file
      BY <1>1 DEF Publish
    <2> QED
      BY <1>1, <2>1, <2>2, <2>3, PublishIsItsOwn, OnDiskKept
  <1>2. CASE ~Publish(c)
    <2>1. file' = file /\ disk' \in {disk, file}
      BY <1>2, CallSyncs
    <2>2. \A d \in Call \ {c} : /\ pc'[d] = pc[d] /\ outcome'[d] = outcome[d]
                                /\ answer'[d] = answer[d]
      BY <1>2 DEF CallStep, PublishDocument, WriterLock, CheckSource, StageCandidate,
           LinkBackup, SyncBackup, Recheck, WritePrepared, SyncPrepared, FinalCheck,
           SyncPublication, Finish, Unwind, FinishLate, SyncResult, Refuse
    <2>3. /\ pc'[c] = "synced" \/ outcome'[c] = "verified" => OnDisk(c)'
          /\ answer'[c] = "saved" => outcome'[c] = "verified" /\ pc'[c] \in Ended
      <3> USE <2>1, OnDiskKept DEF Refuse, Ended, callVars
      <3>1. CASE PublishDocument(c) \/ WriterLock(c) \/ CheckSource(c) \/ StageCandidate(c)
        BY <3>1 DEF PublishDocument, WriterLock, CheckSource, StageCandidate
      <3>2. CASE LinkBackup(c) \/ SyncBackup(c) \/ Recheck(c) \/ WritePrepared(c)
        BY <3>2 DEF LinkBackup, SyncBackup, Recheck, WritePrepared
      <3>3. CASE SyncPrepared(c) \/ FinalCheck(c) \/ Unwind(c)
        BY <3>3 DEF SyncPrepared, FinalCheck, Unwind
      <3>4. CASE SyncPublication(c)
        BY <3>4 DEF SyncPublication, SyncFolder, OnDisk
      <3>5. CASE Finish(c)
        BY <3>5 DEF Finish, Reply, Observed
      <3>6. CASE FinishLate(c)
        BY <3>6 DEF FinishLate, Reply
      <3>7. CASE SyncResult(c)
        BY <3>7 DEF SyncResult, Reply
      <3> QED
        BY <1>2, <3>1, <3>2, <3>3, <3>4, <3>5, <3>6, <3>7 DEF CallStep
    <2> QED
      BY <2>1, <2>2, <2>3, OnDiskKept
  <1> QED
    BY <1>1, <1>2

LEMMA VerifiedOther ==
    ASSUME TypeOK, VerifiedOnDisk,
           \/ \E r \in Recoverer : RecovererStep(r)
           \/ \E o \in Op : ReadBegins(o) \/ ReadEnds(o)
           \/ Environment
           \/ UNCHANGED vars
    PROVE  VerifiedOnDisk'
  <1>1. \A d \in Call : /\ pc'[d] = pc[d] \/ pc'[d] = "crashed"
                        /\ pc[d] \in Ended => pc'[d] = pc[d]
                        /\ outcome'[d] = outcome[d] /\ answer'[d] = answer[d]
    <2> USE DEF TypeOK, CallTypeOK, callVars
    <2>1. CASE (\E r \in Recoverer : RecovererStep(r)) \/ (\E o \in Op : ReadBegins(o) \/ ReadEnds(o))
      BY <2>1 DEF RecovererStep, RecoverOperation, RecoverDecide, RecoverSync,
           ReadBegins, ReadEnds
    <2>2. CASE \/ WordOpens \/ WordSaves \/ WordCloses \/ (\E c \in Call : BackupDamaged(c))
               \/ (\E r \in Recoverer : CrashRecoverer(r))
               \/ UNCHANGED vars
      BY <2>2 DEF WordOpens, WordSaves, WordCloses, BackupDamaged, CrashRecoverer, vars
    <2>3. CASE (\E c \in Call : Crash(c)) \/ PowerLoss
      BY <2>3 DEF Crash, Goto, PowerLoss, Running, Guarded, After, Ended
    <2> QED
      BY <2>1, <2>2, <2>3 DEF Environment
  <1> QED
    BY <1>1, OthersSync DEF VerifiedOnDisk, Ended

\* A save whose client was told "saved", and whose candidate is still the
\* document, is not undone by a power loss: SyncPublication comes before the
\* verification, and whatever changes the document later does not carry its name.
THEOREM SavedStaysOnDisk == Spec => []SavedIsDurable
  <1>1. Init => VerifiedOnDisk
    BY DEF Init, VerifiedOnDisk
  <1>2. TypeOK /\ VerifiedOnDisk /\ [Next]_vars => VerifiedOnDisk'
    BY VerifiedCall, VerifiedOther DEF Next
  <1>3. VerifiedOnDisk => SavedIsDurable
    BY DEF VerifiedOnDisk, SavedIsDurable, OnDisk
  <1> QED
    BY TypeCorrect, <1>1, <1>2, <1>3, PTL DEF Spec

--------------------------------------------------------------------------------
(* CertifiedIsDurable, as long as fsync and mkdir do not fail.             *)

\* The calls whose stage has to be there.
Staging == {"staged", "linked", "published", "raised"} \cup BackedUp

\* Without failing syncs a stage is removed with an fsync of the folder, and only
\* by its own call or after that call has ended.
LEMMA StagesGoWithSync ==
    ASSUME ~SyncFaults, TypeOK, StageUntilSynced, NEW c \in Call, CallStep(c), ~Publish(c),
           NEW d \in Call, d \in stages, d \notin stages'
    PROVE  disk' = file' /\ (d = c \/ pc[d] = "crashed")
  <1> USE DEF docVars, Refuse, CleanStage, SyncFolder, SyncFolderFails
  <1>1. CASE PublishDocument(c) \/ CheckSource(c) \/ StageCandidate(c)
    BY <1>1 DEF PublishDocument, CheckSource, StageCandidate
  <1>2. CASE WriterLock(c)
    BY <1>2 DEF WriterLock, RecoverStages, DeadStages
  <1>3. CASE LinkBackup(c) \/ SyncBackup(c) \/ Recheck(c) \/ WritePrepared(c)
    BY <1>3 DEF LinkBackup, SyncBackup, Recheck, WritePrepared
  <1>4. CASE SyncPrepared(c) \/ FinalCheck(c) \/ SyncPublication(c) \/ Unwind(c)
    BY <1>4 DEF SyncPrepared, FinalCheck, SyncPublication, Unwind
  <1>5. CASE Finish(c) \/ FinishLate(c) \/ SyncResult(c)
    BY <1>5 DEF Finish, FinishLate, SyncResult
  <1> QED
    BY <1>1, <1>2, <1>3, <1>4, <1>5 DEF CallStep

\* A call has its stage from staging to the fsync behind the publication.
LEMMA OwnStage ==
    ASSUME ~SyncFaults, TypeOK, StageUntilSynced, NEW c \in Call, CallStep(c)
    PROVE  /\ pc'[c] \in Staging => c \in stages'
           /\ pc[c] \in {"published", "raised"} => pc'[c] \in {"published", "raised"} \/ disk' = file'
           /\ pc[c] # "crashed" /\ pc'[c] # "crashed"
           /\ \A d \in Call \ {c} : pc'[d] = pc[d]
  <1> USE DEF TypeOK, CallTypeOK, StageUntilSynced, Staging, BackedUp, Goto, Refuse,
          CleanStage, SyncFolder, SyncFolderFails
  <1>1. CASE PublishDocument(c) \/ CheckSource(c) \/ StageCandidate(c)
    BY <1>1 DEF PublishDocument, CheckSource, StageCandidate
  <1>2. CASE WriterLock(c)
    BY <1>2 DEF WriterLock
  <1>3. CASE LinkBackup(c) \/ SyncBackup(c) \/ Recheck(c) \/ WritePrepared(c)
    BY <1>3 DEF LinkBackup, SyncBackup, Recheck, WritePrepared
  <1>4. CASE SyncPrepared(c) \/ FinalCheck(c) \/ SyncPublication(c) \/ Unwind(c)
    BY <1>4 DEF SyncPrepared, FinalCheck, SyncPublication, Unwind
  <1>5. CASE Finish(c) \/ FinishLate(c) \/ SyncResult(c)
    BY <1>5 DEF Finish, FinishLate, SyncResult
  <1>6. CASE Publish(c)
    BY <1>6 DEF Publish
  <1> QED
    BY <1>1, <1>2, <1>3, <1>4, <1>5, <1>6 DEF CallStep

LEMMA StageCall ==
    ASSUME ~SyncFaults, TypeOK, StageUntilSynced, NEW c \in Call, CallStep(c)
    PROVE  StageUntilSynced'
  <1>1. ASSUME NEW d \in Call, d # c
        PROVE  /\ pc'[d] \in Staging => d \in stages'
               /\ OnDisk(d)' \/ (d \in stages' /\ pc'[d] \in {"published", "raised", "crashed"})
    <2>1. pc'[d] = pc[d] /\ (pc[d] \in Staging => d \in stages)
      BY <1>1, OwnStage DEF StageUntilSynced, Staging
    <2>2. CASE Publish(c)
      BY <1>1, <2>1, <2>2, PublishIsItsOwn DEF Publish, StageUntilSynced
    <2>3. CASE ~Publish(c)
      <3>1. d \in stages => d \in stages' \/ (disk' = file' /\ pc[d] = "crashed")
        BY <1>1, <2>3, StagesGoWithSync
      <3>2. OnDisk(d) => OnDisk(d)'
        BY <2>3, CallSyncs, OnDiskKept
      <3>3. disk' = file' => OnDisk(d)'
        BY DEF OnDisk
      <3> QED
        BY <2>1, <3>1, <3>2, <3>3 DEF StageUntilSynced, Staging, BackedUp
    <2> QED
      BY <2>2, <2>3
  <1>2. /\ pc'[c] \in Staging => c \in stages'
        /\ OnDisk(c)' \/ (c \in stages' /\ pc'[c] \in {"published", "raised", "crashed"})
    <2>1. disk' = file' => OnDisk(c)'
      BY DEF OnDisk
    <2>2. CASE Publish(c)
      <3>1. pc'[c] \in {"published", "raised"}
        BY <2>2 DEF Publish, Goto, TypeOK, CallTypeOK
      <3> QED
        BY <3>1, OwnStage DEF Staging
    <2>3. CASE ~Publish(c)
      <3>1. OnDisk(c) => OnDisk(c)'
        BY <2>3, CallSyncs, OnDiskKept
      <3> QED
        BY <2>1, <3>1, OwnStage DEF StageUntilSynced, Staging
    <2> QED
      BY <2>2, <2>3
  <1> QED
    BY <1>1, <1>2 DEF StageUntilSynced, Staging

LEMMA StageOther ==
    ASSUME ~SyncFaults, TypeOK, StageUntilSynced,
           \/ \E r \in Recoverer : RecovererStep(r)
           \/ \E o \in Op : ReadBegins(o) \/ ReadEnds(o)
           \/ Environment
           \/ UNCHANGED vars
    PROVE  StageUntilSynced'
  <1>1. \A d \in Call : OnDisk(d) => OnDisk(d)'
    BY OthersSync
  <1>2. \/ stages' = stages
        \/ /\ disk' = file' /\ pc' = pc
           /\ \A d \in stages \ stages' : pc[d] = "crashed"
    BY DEF RecovererStep, RecoverOperation, RecoverStages, SyncFolder, SyncFolderFails,
         DeadStages, RecoverDecide, RecoverSync, ReadBegins, ReadEnds, Environment,
         WordOpens, WordSaves, WordCloses, BackupDamaged, Crash, CrashRecoverer, PowerLoss,
         vars, callVars
  <1>3. \A d \in Call : pc'[d] = pc[d] \/ pc'[d] = "crashed"
    BY DEF RecovererStep, RecoverOperation, RecoverDecide, RecoverSync, ReadBegins,
         ReadEnds, Environment, WordOpens, WordSaves, WordCloses, BackupDamaged, Crash,
         Goto, CrashRecoverer, PowerLoss, vars, callVars, TypeOK, CallTypeOK
  <1>4. ASSUME NEW d \in Call
        PROVE  /\ pc'[d] \in Staging => d \in stages'
               /\ OnDisk(d)' \/ (d \in stages' /\ pc'[d] \in {"published", "raised", "crashed"})
    BY <1>1, <1>2, <1>3 DEF StageUntilSynced, Staging, BackedUp, OnDisk
  <1> QED
    BY <1>4 DEF StageUntilSynced, Staging

\* The step that publishes is of a call that no record and no recovery certifies.
LEMMA CertifiedPublish ==
    ASSUME TypeOK, SaveInv, LockHeld, CertifiedOnDisk, NEW c \in Call, Publish(c)
    PROVE  CertifiedOnDisk'
  <1>1. pc[c] = "cleared" /\ c \notin applied
    BY DEF Publish, SaveInv, OutcomeExact, BeforePublish
  <1>2. UNCHANGED <<prepared, result, rVars>>
    BY DEF Publish, recVars
  <1>3. ASSUME NEW o \in Op, result[o] \in {"published", "recovered"}
        PROVE  OnDisk(prepared[o])'
    <2>1. prepared[o] \in applied /\ prepared[o] \in Call
      BY <1>3 DEF SaveInv, ResultsTrue, TypeOK, HistoryTypeOK
    <2> QED
      BY <1>1, <1>2, <1>3, <2>1, PublishIsItsOwn DEF CertifiedOnDisk, OnDisk
  <1>4. ASSUME NEW r \in Recoverer
        PROVE  rpc[r] # "observed"
    BY <1>1, DistinctValues DEF LockHeld, Guarded
  <1> QED
    BY <1>2, <1>3, <1>4 DEF CertifiedOnDisk, rVars

\* finish_journal certifies what SyncPublication or the cleanup of the stage synced.
LEMMA CertifiedCall ==
    ASSUME ~SyncFaults, ~DirectoryFaults, TypeOK, SaveInv, LockHeld, CertifiedInv,
           NEW c \in Call, CallStep(c), ~Publish(c)
    PROVE  CertifiedOnDisk'
  <1>1. \A d \in Call : OnDisk(d) => OnDisk(d)'
    BY CallSyncs, OnDiskKept
  <1>2. rpc' = rpc /\ rop' = rop /\ matched' = matched
    BY DEF CallStep, PublishDocument, WriterLock, CheckSource, StageCandidate,
       LinkBackup, SyncBackup, Recheck, WritePrepared, SyncPrepared, FinalCheck,
       Publish, SyncPublication, Finish, Unwind, FinishLate, SyncResult, rVars
  <1>3. \/ prepared' = prepared
        \/ /\ pc[c] = "rechecked" /\ prepared[OpOf(c)] = NoOne /\ result' = result
           /\ prepared' = [prepared EXCEPT ![OpOf(c)] = c]
    BY DEF CallStep, PublishDocument, WriterLock, CheckSource, StageCandidate,
       LinkBackup, SyncBackup, Recheck, WritePrepared, PrepareRefused, SyncPrepared,
       FinalCheck, Publish, SyncPublication, Finish, Unwind, FinishLate, SyncResult, recVars
  <1>4. \/ result' = result
        \/ /\ pc[c] \in {"synced", "late"} /\ prepared[OpOf(c)] = c
           /\ result' = [result EXCEPT ![OpOf(c)] = result'[OpOf(c)]]
    BY DEF CallStep, PublishDocument, WriterLock, CheckSource, StageCandidate,
       LinkBackup, SyncBackup, Recheck, WritePrepared, SyncPrepared, FinalCheck,
       Publish, SyncPublication, Finish, Unwind, FinishLate, SyncResult, CanFinish,
       WriteResult, recVars, TypeOK, RecTypeOK
  <1>5. ASSUME NEW o \in Op, result'[o] \in {"published", "recovered"}
        PROVE  OnDisk(prepared[o])'
    <2>1. CASE result[o] \in {"published", "recovered"}
      <3>1. prepared[o] \in Call
        BY <2>1 DEF SaveInv, ResultsTrue, TypeOK, HistoryTypeOK
      <3>2. prepared'[o] = prepared[o]
        BY <1>3, <3>1, DistinctValues, RequestTypes DEF TypeOK, RecTypeOK
      <3> QED
        BY <1>1, <2>1, <3>1, <3>2 DEF CertifiedInv, CertifiedOnDisk, OnDisk
    <2>2. CASE result[o] \notin {"published", "recovered"}
      <3>1. o = OpOf(c) /\ pc[c] \in {"synced", "late"} /\ prepared[o] = c
        BY <1>4, <1>5, <2>2, RequestTypes DEF TypeOK, RecTypeOK
      <3>2. OnDisk(c) /\ prepared'[o] = c
        BY <1>3, <3>1 DEF CertifiedInv, StageUntilSynced
      <3> QED
        BY <1>1, <3>2 DEF OnDisk
    <2> QED
      BY <2>1, <2>2
  <1>6. ASSUME NEW r \in Recoverer, rpc[r] = "observed", matched[r]
        PROVE  OnDisk(prepared[rop[r]])'
    <2>1. rop[r] \in Op /\ prepared[rop[r]] \in Call
      BY <1>6 DEF SaveInv, EvidenceConclusive, TypeOK, RecovererTypeOK, HistoryTypeOK
    <2>2. prepared'[rop[r]] = prepared[rop[r]]
      BY <1>3, <2>1, DistinctValues, RequestTypes DEF TypeOK, RecTypeOK
    <2> QED
      BY <1>1, <1>2, <1>6, <2>1, <2>2 DEF CertifiedInv, CertifiedOnDisk, OnDisk
  <1> QED
    BY <1>2, <1>5, <1>6 DEF CertifiedOnDisk, OnDisk

\* recover_operation certifies what it observed, and what it observed was synced
\* by the call, by the cleanup of its stage, or by its own removal of that stage.
LEMMA CertifiedRecover ==
    ASSUME ~SyncFaults, TypeOK, SaveInv, LockHeld, CertifiedInv,
           NEW r \in Recoverer, RecovererStep(r)
    PROVE  CertifiedOnDisk'
  <1>1. \A d \in Call : OnDisk(d) => OnDisk(d)'
    BY OthersSync
  <1>2. prepared' = prepared
    BY DEF RecovererStep, RecoverOperation, RecoverDecide, RecoverSync, recVars
  <1>3. ASSUME NEW o \in Op, result[o] \in {"published", "recovered"}
        PROVE  OnDisk(prepared[o])'
    <2>1. prepared[o] \in Call
      BY <1>3 DEF SaveInv, ResultsTrue, TypeOK, HistoryTypeOK
    <2> QED
      BY <1>1, <1>2, <1>3, <2>1 DEF CertifiedInv, CertifiedOnDisk, OnDisk
  <1>4. ASSUME NEW q \in Recoverer, rpc[q] = "observed", matched[q], rop'[q] = rop[q]
        PROVE  OnDisk(prepared[rop[q]])'
    <2>1. prepared[rop[q]] \in Call
      BY <1>4 DEF SaveInv, EvidenceConclusive, TypeOK, HistoryTypeOK
    <2> QED
      BY <1>1, <1>2, <1>4, <2>1 DEF CertifiedInv, CertifiedOnDisk, OnDisk
  <1>5. ASSUME NEW o \in Op, RecoverOperation(r, o)
        PROVE  CertifiedOnDisk'
    <2>1. prepared[o] \in Call /\ lock = NoOne
      BY <1>5 DEF RecoverOperation, TypeOK, RecTypeOK
    <2>2. OnDisk(prepared[o])'
      <3>1. CASE OnDisk(prepared[o])
        BY <1>1, <1>2, <2>1, <3>1 DEF OnDisk
      <3>2. CASE ~OnDisk(prepared[o])
        <4>1. prepared[o] \in stages /\ pc[prepared[o]] \in {"published", "raised", "crashed"}
          BY <2>1, <3>2 DEF CertifiedInv, StageUntilSynced
        <4>2. pc[prepared[o]] \notin Guarded
          BY <2>1, DistinctValues DEF LockHeld
        <4>3. prepared[o] \in DeadStages
          BY <4>1, <4>2 DEF Guarded, DeadStages
        <4>4. disk' = file /\ file' = file
          BY <1>5, <4>3 DEF RecoverOperation, RecoverStages, SyncFolder, SyncFolderFails
        <4> QED
          BY <4>4 DEF OnDisk
      <3> QED
        BY <3>1, <3>2
    <2>3. /\ result' = result
          /\ \A q \in Recoverer \ {r} : rpc'[q] = rpc[q] /\ rop'[q] = rop[q] /\ matched'[q] = matched[q]
          /\ rop'[r] = o
      BY <1>5 DEF RecoverOperation, recVars, TypeOK, RecovererTypeOK
    <2> QED
      BY <1>2, <1>3, <1>4, <2>2, <2>3 DEF CertifiedOnDisk, OnDisk
  <1>6. CASE RecoverDecide(r)
    <2>1. \A q \in Recoverer : rpc'[q] = "observed" /\ matched'[q] =>
             rpc[q] = "observed" /\ matched[q] /\ rop'[q] = rop[q]
      BY <1>6 DEF RecoverDecide, RecoverRelease, TypeOK, RecovererTypeOK
    <2>2. ASSUME NEW o \in Op, result'[o] \in {"published", "recovered"}
          PROVE  \/ result[o] \in {"published", "recovered"}
                 \/ rpc[r] = "observed" /\ matched[r] /\ rop[r] = o /\ rop' = rop
      BY <1>6, <2>2 DEF RecoverDecide, TypeOK, RecTypeOK
    <2>3. ASSUME NEW o \in Op, result'[o] \in {"published", "recovered"}
          PROVE  OnDisk(prepared[o])'
      BY <1>3, <1>4, <2>2, <2>3
    <2> QED
      BY <1>2, <1>3, <1>4, <2>1, <2>3 DEF CertifiedOnDisk
  <1>7. CASE RecoverSync(r)
    BY <1>2, <1>3, <1>4, <1>7 DEF RecoverSync, RecoverRelease, CertifiedOnDisk, TypeOK,
         RecovererTypeOK
  <1> QED
    BY <1>5, <1>6, <1>7 DEF RecovererStep

\* Word, the owner and kills certify nothing; a power loss leaves only what the
\* disk shows.
LEMMA CertifiedOther ==
    ASSUME TypeOK, SaveInv, CertifiedOnDisk,
           \/ \E o \in Op : ReadBegins(o) \/ ReadEnds(o)
           \/ Environment
           \/ UNCHANGED vars
    PROVE  CertifiedOnDisk'
  <1>1. CASE PowerLoss
    <2>1. disk' = file'
      BY <1>1 DEF PowerLoss
    <2> QED
      BY <2>1 DEF CertifiedOnDisk, OnDisk
  <1>2. CASE ~PowerLoss
    <2>1. prepared' = prepared /\ result' = result
      BY <1>2 DEF ReadBegins, ReadEnds, Environment, WordOpens, WordSaves, WordCloses,
           BackupDamaged, Crash, CrashRecoverer, vars, recVars
    <2>2. \A q \in Recoverer : rpc'[q] = "observed" /\ matched'[q] =>
             rpc[q] = "observed" /\ matched[q] /\ rop'[q] = rop[q]
      BY <1>2 DEF ReadBegins, ReadEnds, Environment, WordOpens, WordSaves, WordCloses,
           BackupDamaged, Crash, CrashRecoverer, RecoverRelease, vars, rVars, TypeOK,
           RecovererTypeOK
    <2>3. \A o \in Op : result[o] \in {"published", "recovered"} => prepared[o] \in Call
      BY DEF SaveInv, ResultsTrue, TypeOK, HistoryTypeOK
    <2>4. \A q \in Recoverer : rpc[q] = "observed" /\ matched[q] => prepared[rop[q]] \in Call
      BY DEF SaveInv, EvidenceConclusive, TypeOK, HistoryTypeOK
    <2> QED
      BY <2>1, <2>2, <2>3, <2>4, OthersSync DEF CertifiedOnDisk
  <1> QED
    BY <1>1, <1>2

\* Without failing syncs a record that certifies a publication survives only
\* together with it.  recover_operation never syncs the document folder for that:
\* the removal of the dead call's stage, under the writer lock, has.
THEOREM CertificatesStayOnDisk ==
    ASSUME ~SyncFaults, ~DirectoryFaults
    PROVE  Spec => []CertifiedIsDurable
  <1>1. Init => CertifiedInv
    <2> SUFFICES ASSUME Init PROVE CertifiedInv
      OBVIOUS
    <2>1. \A c \in Call : pc[c] = "idle" /\ file[Dest(c)] = disk[Dest(c)]
      BY DEF Init
    <2>2. /\ \A o \in Op : result[o] = "none"
          /\ \A r \in Recoverer : rpc[r] = "idle"
      BY DEF Init
    <2> QED
      BY <2>1, <2>2 DEF CertifiedInv, StageUntilSynced, CertifiedOnDisk, OnDisk, BackedUp
  <1>2. TypeOK /\ SaveInv /\ GuardInv /\ CertifiedInv /\ [Next]_vars => CertifiedInv'
    <2> SUFFICES ASSUME TypeOK, SaveInv, GuardInv, CertifiedInv, [Next]_vars
                 PROVE  CertifiedInv'
      OBVIOUS
    <2> USE DEF GuardInv, CertifiedInv
    <2>1. ASSUME NEW c \in Call, CallStep(c)
          PROVE  CertifiedInv'
      BY <2>1, StageCall, CertifiedPublish, CertifiedCall
    <2>2. ASSUME NEW r \in Recoverer, RecovererStep(r)
          PROVE  CertifiedInv'
      BY <2>2, StageOther, CertifiedRecover
    <2>3. CASE \/ \E o \in Op : ReadBegins(o) \/ ReadEnds(o)
               \/ Environment
               \/ UNCHANGED vars
      BY <2>3, StageOther, CertifiedOther
    <2> QED
      BY <2>1, <2>2, <2>3 DEF Next
  <1>3. CertifiedInv => CertifiedIsDurable
    BY DEF CertifiedInv, CertifiedOnDisk, CertifiedIsDurable, OnDisk
  <1>4. Spec => []SaveInv
    BY SaveInvariant
  <1> QED
    BY TypeCorrect, GuardInvariant, <1>1, <1>2, <1>3, <1>4, PTL DEF Spec
================================================================================
