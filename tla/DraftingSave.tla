------------------------------ MODULE DraftingSave ------------------------------
(***************************************************************************)
(* Saving a drafting candidate: publish_document (_drafting_io.py) with    *)
(* the operation journal in required mode (operation_journal.py), run by   *)
(* several server processes on one document folder, and                    *)
(* recover_operation and read_operation working on the same folder.        *)
(*                                                                         *)
(* Every directory entry exists twice: as processes see it, and as the     *)
(* disk would show it after a power loss.  A rename, link or unlink        *)
(* changes the first; fsync of the directory brings the second up to date; *)
(* a power loss lets each unsynced entry either survive or revert.  File   *)
(* contents are fsynced before they are linked or renamed into place, so   *)
(* an entry is the whole old file or the whole new one.                    *)
(*                                                                         *)
(* A call is one run of publish_document, with its own thread of control.  *)
(* It can be killed before any of its steps.  Word is the other writer of  *)
(* the document: it takes no Veqtor lock and announces itself by its owner *)
(* file ~$name.                                                            *)
(***************************************************************************)
EXTENDS Naturals, FiniteSets

CONSTANTS
    Call,             \* runs of publish_document
    Recoverer,        \* clients of recover_operation
    Reader,           \* stands for any read_operation holding an operation
    Op,               \* operation ids, allocated by preflight
    Request,          \* [Call -> what the proof of that call binds]
    Initial,          \* the document before the first save
    WordContent,      \* what Word may save
    Absent,           \* no file under that name
    Damaged,          \* a backup its owner deleted or changed
    NoOne,            \* no lock holder, no record
    MaxSessions,      \* bound: times the document is opened in Word
    MaxFaults,        \* bound: killed processes and power losses
    SyncFaults,       \* whether fsync may report an error
    DirectoryFaults   \* whether mkdir may be cut off from the fsync behind it

Path == {"source", "output"}
Candidate(c) == Request[c].candidate
Source(c)    == Request[c].source
OpOf(c)      == Request[c].op
Dest(c)      == Request[c].dest
InPlace(c)   == Dest(c) = "source"

ContentOnDisk == {Initial} \cup WordContent
    \cup {Candidate(c) : c \in Call} \cup {Source(c) : c \in Call}

ASSUME RequestsBindTheirInputs ==
    Request \in [Call -> [op : Op, source : ContentOnDisk,
                          candidate : ContentOnDisk, dest : Path]]

\* A candidate embeds the preflight timestamp and its new revision ids, so two
\* operations have different candidate bytes, and Word never writes them.
ASSUME CandidatesIdentifyOperations ==
    /\ \A c, d \in Call : Candidate(c) = Candidate(d) => OpOf(c) = OpOf(d)
    /\ \A c \in Call : Candidate(c) \notin WordContent \cup {Initial}

ASSUME DistinctValues ==
    /\ NoOne \notin Call \cup Recoverer \cup {Reader}
    /\ Reader \notin Call \cup Recoverer
    /\ Call \cap Recoverer = {}
    /\ Call \cap Nat = {}
    /\ Absent \notin ContentOnDisk
    /\ Damaged \notin ContentOnDisk \cup {Absent}

ASSUME BoundsAndFaults ==
    /\ MaxSessions \in Nat
    /\ MaxFaults \in Nat
    /\ SyncFaults \in BOOLEAN
    /\ DirectoryFaults \in BOOLEAN

VARIABLES
    file, disk,              \* the document and the copy: seen, and durable
    backup, backupDisk,      \* the backup each call made: seen, and durable
    opDir,                   \* .veqtor/operations/<id>
    prepared, preparedDisk,  \* the call whose prepared.json is in it
    result, resultDisk,      \* the outcome its result.json states
    leftover,                \* operations with a torn temporary in their folder
    lock,                    \* flock on the document folder
    opLock,                  \* flock on each operation folder
    stages,                  \* calls whose registered stage folder exists
    word,                    \* Word's owner file is there
    pc, version, outcome,    \* per call: where it is, the file version it
                             \* captured, publication_completed/_unknown
    answer, journal,         \* what the client was told, of save and of journal
    rpc, rop, matched,       \* per recoverer: where it is, on what, evidence
    session, faults,         \* counts of Word sessions and of faults
    applied,                 \* history: calls whose candidate reached its path
    overwritten,             \* history: the version each of them replaced
    raced                    \* history: calls overtaken after their last check

docVars  == <<file, disk, backup, backupDisk>>
recVars  == <<opDir, prepared, preparedDisk, result, resultDisk, leftover>>
callVars == <<pc, version, outcome, answer, journal>>
rVars    == <<rpc, rop, matched>>
history  == <<applied, overwritten, raced>>
env      == <<word, session, faults>>
vars == <<docVars, recVars, lock, opLock, stages, callVars, rVars, env, history>>

Version == [content : ContentOnDisk \cup {Absent}, by : Call \cup Nat]
NoVersion == [content |-> Absent, by |-> 0]
Verdict == {"none", "published", "not_published", "recovered"}
Outcome == {"none", "completed", "verified", "unknown"}

Early   == {"idle", "waiting"}
Guarded == {"locked", "checked", "staged", "linked", "backed_up", "rechecked",
            "preparing", "prepared", "cleared", "published", "synced",
            "finishing", "raised"}
After   == {"late", "late_finishing"}
Ended   == {"done", "crashed"}
Running == Guarded \cup After \cup {"waiting"}

\* The steps at which OperationJournal.prepared is true.
Committed == {"prepared", "cleared", "published", "synced", "finishing",
              "raised"} \cup After

DocTypeOK ==
    /\ file \in [Path -> Version]
    /\ disk \in [Path -> Version]
    /\ backup \in [Call -> ContentOnDisk \cup {Absent, Damaged}]
    /\ backupDisk \in [Call -> ContentOnDisk \cup {Absent, Damaged}]

RecTypeOK ==
    /\ opDir \in [Op -> {"absent", "unsynced", "durable"}]
    /\ prepared \in [Op -> Call \cup {NoOne}]
    /\ preparedDisk \in [Op -> Call \cup {NoOne}]
    /\ result \in [Op -> Verdict]
    /\ resultDisk \in [Op -> Verdict]
    /\ leftover \in SUBSET Op

LockTypeOK ==
    /\ lock \in Call \cup Recoverer \cup {NoOne}
    /\ opLock \in [Op -> Call \cup Recoverer \cup {Reader, NoOne}]
    /\ stages \in SUBSET Call

CallTypeOK ==
    /\ pc \in [Call -> Early \cup Guarded \cup After \cup Ended]
    /\ version \in [Call -> Version]
    /\ outcome \in [Call -> Outcome]
    /\ answer \in [Call -> {"none", "saved", "failed", "uncertain"}]
    /\ journal \in [Call -> {"none", "written", "incomplete"}]

RecovererTypeOK ==
    /\ rpc \in [Recoverer -> {"idle", "observed", "writing"}]
    /\ rop \in [Recoverer -> Op \cup {NoOne}]
    /\ \A r \in Recoverer : rpc[r] # "idle" => rop[r] \in Op
    /\ matched \in [Recoverer -> BOOLEAN]

EnvTypeOK ==
    /\ word \in BOOLEAN
    /\ session \in Nat
    /\ faults \in Nat

HistoryTypeOK ==
    /\ applied \in SUBSET Call
    /\ overwritten \in [Call -> Version]
    /\ raced \in SUBSET Call

TypeOK ==
    /\ DocTypeOK
    /\ RecTypeOK
    /\ LockTypeOK
    /\ CallTypeOK
    /\ RecovererTypeOK
    /\ EnvTypeOK
    /\ HistoryTypeOK

Init ==
    /\ file = [p \in Path |-> IF p = "source" THEN [content |-> Initial, by |-> 0]
                                              ELSE NoVersion]
    /\ disk = file
    /\ backup = [c \in Call |-> Absent]
    /\ backupDisk = backup
    /\ opDir = [o \in Op |-> "absent"]
    /\ prepared = [o \in Op |-> NoOne]
    /\ preparedDisk = prepared
    /\ result = [o \in Op |-> "none"]
    /\ resultDisk = result
    /\ leftover = {}
    /\ lock = NoOne
    /\ opLock = [o \in Op |-> NoOne]
    /\ stages = {}
    /\ word = FALSE
    /\ pc = [c \in Call |-> "idle"]
    /\ version = [c \in Call |-> NoVersion]
    /\ outcome = [c \in Call |-> "none"]
    /\ answer = [c \in Call |-> "none"]
    /\ journal = [c \in Call |-> "none"]
    /\ rpc = [r \in Recoverer |-> "idle"]
    /\ rop = [r \in Recoverer |-> NoOne]
    /\ matched = [r \in Recoverer |-> FALSE]
    /\ session = 0
    /\ faults = 0
    /\ applied = {}
    /\ overwritten = [c \in Call |-> NoVersion]
    /\ raced = {}

--------------------------------------------------------------------------------
(* Pieces the actions share.                                               *)

Goto(c, label) == pc' = [pc EXCEPT ![c] = label]

MutantNoFolderSync == UNCHANGED disk

\* fsync of the document folder: both paths become durable, or it fails.
SyncFolder == disk' = file
SyncFolderFails == SyncFaults /\ UNCHANGED disk

\* _recover_stages, on entry of _writer_lock: verified stages of dead calls are
\* removed, with an fsync of the folder; a failure leaves them for later.
DeadStages == {c \in stages : pc[c] = "crashed"}
MutantStagesLeft == UNCHANGED <<stages, disk>>

RecoverStages ==
    IF DeadStages = {} THEN UNCHANGED <<stages, disk>>
    ELSE \/ SyncFolder /\ stages' = stages \ DeadStages
         \/ SyncFolderFails /\ UNCHANGED stages

\* Leaving _staged on an exception: cleanup of the call's own stage, which
\* syncs the folder but whose failures are swallowed.
CleanStage(c) ==
    /\ stages' = stages \ {c}
    /\ IF c \in stages THEN SyncFolder \/ SyncFolderFails ELSE UNCHANGED disk

\* An exception before the journal was prepared: nothing was published, the
\* handlers unwind and the client gets the error.
Refuse(c) ==
    /\ Goto(c, "done")
    /\ lock' = NoOne
    /\ CleanStage(c)
    /\ answer' = [answer EXCEPT ![c] = "failed"]

MutantWordIgnored(c) == file["source"] = version[c]

\* _source_current: Word is not there and the path still shows the captured
\* version; create-only copies never look at the output again before link.
SourceCurrent(c) == ~word /\ file["source"] = version[c]

BackupVerified(c) == InPlace(c) => backup[c] = Source(c)

--------------------------------------------------------------------------------
(* publish_document, up to the prepared record.                            *)

\* apply_document_edits read the document and rebuilt the candidate of its
\* proof; on any other content it refuses without a trace.
PublishDocument(c) ==
    /\ pc[c] = "idle"
    /\ file["source"].content = Source(c)
    /\ Goto(c, "waiting")
    /\ UNCHANGED <<docVars, recVars, lock, opLock, stages, version, outcome,
                   answer, journal, rVars, env, history>>

\* A blocking flock.
MutantBlockingLock(c) ==
    /\ pc[c] = "waiting"
    /\ lock = NoOne
    /\ lock' = c
    /\ Goto(c, "locked")
    /\ RecoverStages
    /\ UNCHANGED <<file, backup, backupDisk, recVars, opLock, version, outcome,
                   answer, journal, rVars, env, history>>

WriterLock(c) ==
    /\ pc[c] = "waiting"
    /\ IF lock = NoOne
       THEN /\ lock' = c
            /\ Goto(c, "locked")
            /\ RecoverStages
            /\ UNCHANGED answer
       ELSE /\ Goto(c, "done")
            /\ answer' = [answer EXCEPT ![c] = "failed"]
            /\ UNCHANGED <<lock, stages, disk>>
    /\ UNCHANGED <<file, backup, backupDisk, recVars, opLock, version, outcome,
                   journal, rVars, env, history>>

\* The first checks under the lock capture the version all later ones compare.
CheckSource(c) ==
    /\ pc[c] = "locked"
    /\ \/ /\ ~word
          /\ file["source"].content = Source(c)
          /\ InPlace(c) \/ file["output"].content = Absent
          /\ version' = [version EXCEPT ![c] = file["source"]]
          /\ Goto(c, "checked")
          /\ UNCHANGED <<lock, stages, disk, answer>>
       \/ /\ \/ word
             \/ file["source"].content # Source(c)
             \/ ~InPlace(c) /\ file["output"].content # Absent
          /\ Refuse(c)
          /\ UNCHANGED version
    /\ UNCHANGED <<file, backup, backupDisk, recVars, opLock, outcome, journal,
                   rVars, env, history>>

\* _staged(destination): the candidate waits in a registered private folder.
StageCandidate(c) ==
    /\ pc[c] = "checked"
    /\ \/ /\ stages' = stages \cup {c}
          /\ SyncFolder
          /\ Goto(c, IF InPlace(c) THEN "staged" ELSE "backed_up")
          /\ UNCHANGED <<lock, answer>>
       \/ SyncFaults /\ Refuse(c)
    /\ UNCHANGED <<file, backup, backupDisk, recVars, opLock, version, outcome,
                   journal, rVars, env, history>>

LinkBackup(c) ==
    /\ pc[c] = "staged"
    /\ backup' = [backup EXCEPT ![c] = Source(c)]
    /\ Goto(c, "linked")
    /\ UNCHANGED <<file, disk, backupDisk, recVars, lock, opLock, stages, version,
                   outcome, answer, journal, rVars, env, history>>

\* fsync of .veqtor-backups; on failure the unconfirmed backup is unlinked.
SyncBackup(c) ==
    /\ pc[c] = "linked"
    /\ \/ /\ backupDisk' = [backupDisk EXCEPT ![c] = backup[c]]
          /\ Goto(c, "backed_up")
          /\ UNCHANGED <<backup, lock, stages, disk, answer>>
       \/ /\ SyncFaults
          /\ backup' = [backup EXCEPT ![c] = Absent]
          /\ Refuse(c)
          /\ UNCHANGED backupDisk
    /\ UNCHANGED <<file, recVars, opLock, version, outcome, journal, rVars, env,
                   history>>

Recheck(c) ==
    /\ pc[c] = "backed_up"
    /\ IF SourceCurrent(c)
       THEN Goto(c, "rechecked") /\ UNCHANGED <<lock, stages, disk, answer>>
       ELSE Refuse(c)
    /\ UNCHANGED <<file, backup, backupDisk, recVars, opLock, version, outcome,
                   journal, rVars, env, history>>

MutantRecordReplaced(c) ==
    opLock[OpOf(c)] # NoOne \/ OpOf(c) \in leftover \/ ~BackupVerified(c)

\* OperationJournal.prepare refuses a busy operation folder, an existing record
\* (operation_recovery_required, or operation_id_conflict on another intent), a
\* folder holding anything else, and an unverified backup.
PrepareRefused(c) ==
    \/ opLock[OpOf(c)] # NoOne
    \/ prepared[OpOf(c)] # NoOne
    \/ OpOf(c) \in leftover
    \/ ~BackupVerified(c)

\* _child creates a missing folder and fsyncs its parent.  When that fsync fails
\* the save is refused, and the folder stays: its next user finds it existing.
MakeFolderFails(c) ==
    /\ DirectoryFaults
    /\ opDir[OpOf(c)] = "absent"
    /\ opDir' = [opDir EXCEPT ![OpOf(c)] = "unsynced"]

\* _write: prepared.json appears by a no-replace rename.
WritePrepared(c) ==
    /\ pc[c] = "rechecked"
    /\ \/ /\ ~PrepareRefused(c)
          /\ opDir' = [opDir EXCEPT ![OpOf(c)] = IF @ = "absent" THEN "durable" ELSE @]
          /\ prepared' = [prepared EXCEPT ![OpOf(c)] = c]
          /\ opLock' = [opLock EXCEPT ![OpOf(c)] = c]
          /\ Goto(c, "preparing")
          /\ UNCHANGED <<lock, stages, disk, answer>>
       \/ /\ \/ PrepareRefused(c) /\ UNCHANGED opDir
             \/ ~PrepareRefused(c) /\ MakeFolderFails(c)
          /\ Refuse(c)
          /\ UNCHANGED <<prepared, opLock>>
    /\ UNCHANGED <<file, backup, backupDisk, preparedDisk, result, resultDisk,
                   leftover, version, outcome, journal, rVars, env, history>>

SyncPrepared(c) ==
    /\ pc[c] = "preparing"
    /\ opLock' = [opLock EXCEPT ![OpOf(c)] = NoOne]
    /\ \/ /\ preparedDisk' = [preparedDisk EXCEPT ![OpOf(c)] = prepared[OpOf(c)]]
          /\ Goto(c, "prepared")
          /\ UNCHANGED <<lock, stages, disk, answer>>
       \/ /\ SyncFaults
          /\ Refuse(c)
          /\ UNCHANGED preparedDisk
    /\ UNCHANGED <<file, backup, backupDisk, opDir, prepared, result, resultDisk,
                   leftover, version, outcome, journal, rVars, env, history>>

--------------------------------------------------------------------------------
(* publish_document, from the prepared record to the answer.               *)

\* The source, its directory and the backup are verified a last time.
FinalCheck(c) ==
    /\ pc[c] = "prepared"
    /\ Goto(c, IF SourceCurrent(c) /\ BackupVerified(c) THEN "cleared" ELSE "raised")
    /\ UNCHANGED <<docVars, recVars, lock, opLock, stages, version, outcome,
                   answer, journal, rVars, env, history>>

\* os.replace or os.link takes effect.
Apply(c) ==
    /\ InPlace(c) \/ file[Dest(c)].content = Absent
    /\ file' = [file EXCEPT ![Dest(c)] = [content |-> Candidate(c), by |-> c]]
    /\ applied' = applied \cup {c}
    /\ overwritten' = [overwritten EXCEPT ![c] = file[Dest(c)]]

\* The publication call succeeds, fails, or returns EIO and says nothing.
Publish(c) ==
    /\ pc[c] = "cleared"
    /\ \/ /\ Apply(c)
          /\ outcome' = [outcome EXCEPT ![c] = "completed"]
          /\ Goto(c, "published")
       \/ /\ Apply(c) \/ UNCHANGED <<file, applied, overwritten>>
          /\ outcome' = [outcome EXCEPT ![c] = "unknown"]
          /\ Goto(c, "raised")
       \/ /\ Goto(c, "raised")
          /\ UNCHANGED <<file, applied, overwritten, outcome>>
    /\ UNCHANGED <<disk, backup, backupDisk, recVars, lock, opLock, stages,
                   version, answer, journal, rVars, env, raced>>

SyncPublication(c) ==
    /\ pc[c] = "published"
    /\ \/ /\ SyncFolder
          /\ stages' = stages \ {c}
          /\ Goto(c, "synced")
       \/ SyncFolderFails /\ Goto(c, "raised") /\ UNCHANGED stages
    /\ UNCHANGED <<file, backup, backupDisk, recVars, lock, opLock, version,
                   outcome, answer, journal, rVars, env, history>>

\* OperationJournal.finish: the folder is free, the record is this call's own,
\* and result.json is created, never replaced.
CanFinish(c) ==
    /\ opLock[OpOf(c)] = NoOne
    /\ prepared[OpOf(c)] = c
    /\ result[OpOf(c)] = "none"

MutantEIOIsKnown(c) == TRUE

\* After EIO nothing is recorded: the record stays prepared for recovery.
KnownOutcome(c) == outcome[c] # "unknown"

LateVerdict(c) == IF outcome[c] = "none" THEN "not_published" ELSE "published"

WriteResult(c, verdict) ==
    /\ result' = [result EXCEPT ![OpOf(c)] = verdict]
    /\ opLock' = [opLock EXCEPT ![OpOf(c)] = c]

\* What finish_journal observes of the output and the backup.
Observed(c) ==
    IF file[Dest(c)].content = Candidate(c) /\ BackupVerified(c)
    THEN "verified" ELSE "completed"

\* The answer of a call that returned or raised with a known journal status.
Reply(how) == IF how = "verified" THEN "saved"
              ELSE IF how = "none" THEN "failed" ELSE "uncertain"

\* finish_journal on the success path, the writer lock still held.
Finish(c) ==
    /\ pc[c] = "synced"
    /\ outcome' = [outcome EXCEPT ![c] = Observed(c)]
    /\ IF CanFinish(c)
       THEN /\ WriteResult(c, "published")
            /\ Goto(c, "finishing")
            /\ UNCHANGED <<lock, answer, journal>>
       ELSE /\ Goto(c, "done")
            /\ lock' = NoOne
            /\ answer' = [answer EXCEPT ![c] = Reply(Observed(c))]
            /\ journal' = [journal EXCEPT ![c] = "incomplete"]
            /\ UNCHANGED <<result, opLock>>
    /\ UNCHANGED <<docVars, opDir, prepared, preparedDisk, resultDisk, leftover,
                   stages, version, rVars, env, history>>

\* An exception after prepare leaves both locks before the handler finishes.
Unwind(c) ==
    /\ pc[c] = "raised"
    /\ lock' = NoOne
    /\ CleanStage(c)
    /\ Goto(c, "late")
    /\ UNCHANGED <<file, backup, backupDisk, recVars, opLock, version, outcome,
                   answer, journal, rVars, env, history>>

\* finish_journal in the except block: no writer lock, an unknown outcome
\* leaves only the prepared record.
FinishLate(c) ==
    /\ pc[c] = "late"
    /\ IF CanFinish(c) /\ KnownOutcome(c)
       THEN /\ WriteResult(c, LateVerdict(c))
            /\ Goto(c, "late_finishing")
            /\ UNCHANGED <<answer, journal>>
       ELSE /\ Goto(c, "done")
            /\ answer' = [answer EXCEPT ![c] = Reply(outcome[c])]
            /\ journal' = [journal EXCEPT ![c] = "incomplete"]
            /\ UNCHANGED <<result, opLock>>
    /\ UNCHANGED <<docVars, opDir, prepared, preparedDisk, resultDisk, leftover,
                   lock, stages, version, outcome, rVars, env, history>>

\* _write's fsync of the operation folder, behind the rename of result.json.
SyncRecord(o) == resultDisk' = [resultDisk EXCEPT ![o] = result[o]]

\* It ends either way of finishing.
SyncResult(c) ==
    /\ pc[c] \in {"finishing", "late_finishing"}
    /\ \/ /\ SyncRecord(OpOf(c))
          /\ journal' = [journal EXCEPT ![c] = "written"]
       \/ /\ SyncFaults
          /\ journal' = [journal EXCEPT ![c] = "incomplete"]
          /\ UNCHANGED resultDisk
    /\ opLock' = [opLock EXCEPT ![OpOf(c)] = NoOne]
    /\ lock' = IF pc[c] = "finishing" THEN NoOne ELSE lock
    /\ answer' = [answer EXCEPT ![c] = Reply(outcome[c])]
    /\ Goto(c, "done")
    /\ UNCHANGED <<docVars, opDir, prepared, preparedDisk, result, leftover,
                   stages, version, outcome, rVars, env, history>>

--------------------------------------------------------------------------------
(* recover_operation and read_operation.                                   *)

MutantOutputIgnored(c) == BackupVerified(c) /\ Source(c) # Candidate(c)

\* The output is the candidate, the copy's source and the backup are intact,
\* and the candidate differs from the source.
Evidence(c) ==
    /\ file[Dest(c)].content = Candidate(c)
    /\ InPlace(c) \/ file["source"].content = Source(c)
    /\ BackupVerified(c)
    /\ Source(c) # Candidate(c)

\* Both locks are taken, dead stages recovered, and the files observed.
RecoverOperation(r, o) ==
    /\ rpc[r] = "idle"
    /\ lock = NoOne
    /\ ~word
    /\ opLock[o] = NoOne
    /\ prepared[o] # NoOne
    /\ lock' = r
    /\ RecoverStages
    /\ opLock' = [opLock EXCEPT ![o] = r]
    /\ matched' = [matched EXCEPT ![r] = Evidence(prepared[o])]
    /\ rop' = [rop EXCEPT ![r] = o]
    /\ rpc' = [rpc EXCEPT ![r] = "observed"]
    /\ UNCHANGED <<file, backup, backupDisk, recVars, callVars, env, history>>

MutantLockLeaks(r) ==
    /\ rpc' = [rpc EXCEPT ![r] = "idle"]
    /\ rop' = [rop EXCEPT ![r] = NoOne]
    /\ matched' = [matched EXCEPT ![r] = FALSE]
    /\ lock' = lock
    /\ opLock' = [opLock EXCEPT ![rop[r]] = NoOne]

RecoverRelease(r) ==
    /\ rpc' = [rpc EXCEPT ![r] = "idle"]
    /\ rop' = [rop EXCEPT ![r] = NoOne]
    /\ matched' = [matched EXCEPT ![r] = FALSE]
    /\ lock' = NoOne
    /\ opLock' = [opLock EXCEPT ![rop[r]] = NoOne]

\* An existing result is kept; matching evidence creates one; anything else
\* stays unresolved and writes nothing.
RecoverDecide(r) ==
    /\ rpc[r] = "observed"
    /\ \/ /\ result[rop[r]] # "none" \/ matched[r]
          /\ result' = [result EXCEPT ![rop[r]] = IF @ = "none" THEN "recovered" ELSE @]
          /\ rpc' = [rpc EXCEPT ![r] = "writing"]
          /\ UNCHANGED <<lock, opLock, rop, matched>>
       \/ /\ result[rop[r]] = "none" /\ ~matched[r]
          /\ RecoverRelease(r)
          /\ UNCHANGED result
    /\ UNCHANGED <<docVars, opDir, prepared, preparedDisk, resultDisk, leftover,
                   stages, callVars, env, history>>

RecoverSync(r) ==
    /\ rpc[r] = "writing"
    /\ \/ SyncRecord(rop[r])
       \/ SyncFaults /\ UNCHANGED resultDisk
    /\ RecoverRelease(r)
    /\ UNCHANGED <<docVars, opDir, prepared, preparedDisk, result, leftover,
                   stages, callVars, env, history>>

\* read_operation writes nothing, but holds the operation folder while it reads.
ReadBegins(o) ==
    /\ opLock[o] = NoOne
    /\ prepared[o] # NoOne
    /\ opLock' = [opLock EXCEPT ![o] = Reader]
    /\ UNCHANGED <<docVars, recVars, lock, stages, callVars, rVars, env, history>>

ReadEnds(o) ==
    /\ opLock[o] = Reader
    /\ opLock' = [opLock EXCEPT ![o] = NoOne]
    /\ UNCHANGED <<docVars, recVars, lock, stages, callVars, rVars, env, history>>

--------------------------------------------------------------------------------
(* The environment: Word, the user, killed processes, power losses.        *)

WordOpens ==
    /\ ~word
    /\ session < MaxSessions
    /\ session' = session + 1
    /\ word' = TRUE
    /\ raced' = raced \cup {c \in Call : pc[c] = "cleared"}
    /\ UNCHANGED <<docVars, recVars, lock, opLock, stages, callVars, rVars, faults,
                   applied, overwritten>>

\* Later saves of one session replace the version of the first.
WordSaves ==
    /\ word
    /\ \E k \in WordContent :
          file' = [file EXCEPT !["source"] = [content |-> k, by |-> session]]
    /\ UNCHANGED <<disk, backup, backupDisk, recVars, lock, opLock, stages,
                   callVars, rVars, env, history>>

WordCloses ==
    /\ word
    /\ word' = FALSE
    /\ UNCHANGED <<docVars, recVars, lock, opLock, stages, callVars, rVars, session,
                   faults, history>>

\* The owner of the folder removes or edits a backup.
BackupDamaged(c) ==
    /\ backup[c] \notin {Absent, Damaged}
    /\ faults < MaxFaults
    /\ faults' = faults + 1
    /\ backup' = [backup EXCEPT ![c] = Damaged]
    /\ backupDisk' = [backupDisk EXCEPT ![c] = Damaged]
    /\ raced' = raced \cup {d \in {c} : pc[d] = "cleared"}
    /\ UNCHANGED <<file, disk, recVars, lock, opLock, stages, callVars, rVars,
                   word, session, applied, overwritten>>

\* A process is killed.  The kernel drops its locks; a kill inside _write of
\* prepared.json may leave its temporary file behind.
Crash(c) ==
    /\ pc[c] \in Running
    /\ faults < MaxFaults
    /\ faults' = faults + 1
    /\ Goto(c, "crashed")
    /\ lock' = IF lock = c THEN NoOne ELSE lock
    /\ opLock' = [o \in Op |-> IF opLock[o] = c THEN NoOne ELSE opLock[o]]
    /\ \/ UNCHANGED <<leftover, opDir>>
       \/ /\ pc[c] = "rechecked" /\ ~PrepareRefused(c)
          /\ \/ /\ opDir' = [opDir EXCEPT ![OpOf(c)] =
                              IF @ = "absent" THEN "durable" ELSE @]
                /\ leftover' = leftover \cup {OpOf(c)}
             \/ MakeFolderFails(c) /\ UNCHANGED leftover
    /\ UNCHANGED <<docVars, prepared, preparedDisk, result, resultDisk, stages,
                   version, outcome, answer, journal, rVars, word, session, history>>

CrashRecoverer(r) ==
    /\ rpc[r] # "idle"
    /\ faults < MaxFaults
    /\ faults' = faults + 1
    /\ RecoverRelease(r)
    /\ UNCHANGED <<docVars, recVars, stages, callVars, word, session, history>>

\* Each entry in S keeps what processes saw, every other shows the disk.
Survivors(S, seen, durable) ==
    [x \in DOMAIN seen |-> IF x \in S THEN seen[x] ELSE durable[x]]

\* Every process ends, and each unsynced entry survives or reverts.  A folder
\* whose own entry was never synced may be gone with the records in it.
PowerLoss ==
    /\ faults < MaxFaults
    /\ faults' = faults + 1
    /\ \E F \in SUBSET {p \in Path : file[p] # disk[p]} :
          /\ file' = Survivors(F, file, disk)
          /\ disk' = file'
    /\ \E B \in SUBSET {c \in Call : backup[c] # backupDisk[c]} :
          /\ backup' = Survivors(B, backup, backupDisk)
          /\ backupDisk' = backup'
    /\ \E gone \in SUBSET {o \in Op : opDir[o] = "unsynced"},
          P \in SUBSET {o \in Op : prepared[o] # preparedDisk[o]},
          R \in SUBSET {o \in Op : result[o] # resultDisk[o]} :
          /\ opDir' = [o \in Op |-> IF o \in gone \/ opDir[o] = "absent"
                                    THEN "absent" ELSE "durable"]
          /\ prepared' = [o \in Op |-> IF o \in gone THEN NoOne
                             ELSE Survivors(P, prepared, preparedDisk)[o]]
          /\ result' = [o \in Op |-> IF o \in gone THEN "none"
                           ELSE Survivors(R, result, resultDisk)[o]]
          /\ leftover' = leftover \ gone
    /\ preparedDisk' = prepared'
    /\ resultDisk' = result'
    /\ lock' = NoOne
    /\ opLock' = [o \in Op |-> NoOne]
    /\ word' = FALSE
    /\ pc' = [c \in Call |-> IF pc[c] \in Running THEN "crashed" ELSE pc[c]]
    /\ rpc' = [r \in Recoverer |-> "idle"]
    /\ rop' = [r \in Recoverer |-> NoOne]
    /\ matched' = [r \in Recoverer |-> FALSE]
    /\ UNCHANGED <<stages, version, outcome, answer, journal, session, history>>

--------------------------------------------------------------------------------
CallStep(c) ==
    \/ PublishDocument(c)
    \/ WriterLock(c)
    \/ CheckSource(c)
    \/ StageCandidate(c)
    \/ LinkBackup(c)
    \/ SyncBackup(c)
    \/ Recheck(c)
    \/ WritePrepared(c)
    \/ SyncPrepared(c)
    \/ FinalCheck(c)
    \/ Publish(c)
    \/ SyncPublication(c)
    \/ Finish(c)
    \/ Unwind(c)
    \/ FinishLate(c)
    \/ SyncResult(c)

RecovererStep(r) ==
    \/ \E o \in Op : RecoverOperation(r, o)
    \/ RecoverDecide(r)
    \/ RecoverSync(r)

Environment ==
    \/ WordOpens
    \/ WordSaves
    \/ WordCloses
    \/ \E c \in Call : BackupDamaged(c) \/ Crash(c)
    \/ \E r \in Recoverer : CrashRecoverer(r)
    \/ PowerLoss

Next ==
    \/ \E c \in Call : CallStep(c)
    \/ \E r \in Recoverer : RecovererStep(r)
    \/ \E o \in Op : ReadBegins(o) \/ ReadEnds(o)
    \/ Environment

Spec == Init /\ [][Next]_vars

\* Processes run, fsync returns, readers let go, Word is closed in the end, and
\* the client that lost an answer keeps asking for recovery as it was told to.
FairSpec ==
    /\ Spec
    /\ \A c \in Call : WF_vars(CallStep(c) /\ pc[c] # "idle")
    /\ \A r \in Recoverer : WF_vars(RecoverDecide(r) \/ RecoverSync(r))
    /\ \A r \in Recoverer, o \in Op : SF_vars(RecoverOperation(r, o))
    /\ \A o \in Op : WF_vars(ReadEnds(o))
    /\ WF_vars(WordCloses)

--------------------------------------------------------------------------------
(* Properties.                                                             *)

\* No document is changed before its request is on durable record, and the
\* record stays: publish_document calls prepare before os.replace or os.link.
\* Since one record names one call, an id can never publish twice.
PreparedBeforePublished ==
    \A c \in applied : preparedDisk[OpOf(c)] = c

\* A save destroys nothing its owner could miss: the version it replaces is in
\* a durable backup at that moment, and a copy replaces no file at all.  Only
\* Word or the owner getting in after the last check is out of its hands.
ReplacedVersionIsBackedUp ==
    [][\A c \in Call : c \in applied' \ applied /\ c \notin raced =>
          overwritten'[c].content = IF InPlace(c) THEN backupDisk[c]
                                                   ELSE Absent]_vars

\* result.json never lies about the call that wrote prepared.json, now or after
\* anything that happens later, whether finish or recover_operation wrote it and
\* although finish runs after the writer lock is gone.
TruthfulResult ==
    \A o \in Op :
        /\ result[o] \in {"published", "recovered"} => prepared[o] \in applied
        /\ result[o] = "not_published" => prepared[o] \in Call \ applied

\* A client told that its save failed can rely on the document not having been
\* touched by it, and one told that it was saved on the candidate having been
\* published with its backup: EIO and failed syncs must answer "uncertain".
AnswersAreHonest ==
    \A c \in Call :
        /\ answer[c] = "failed" => c \notin applied
        /\ answer[c] = "saved" => c \in applied

\* A journal status of "written" survives every later crash and power loss.
WrittenMeansDurable ==
    \A c \in Call : journal[c] = "written" =>
        /\ resultDisk[OpOf(c)] = LateVerdict(c)
        /\ preparedDisk[OpOf(c)] = c

\* Whatever a save tells, to its client or to a later reader of its records, is
\* true and stays true.
StatementsAreTrue == TruthfulResult /\ AnswersAreHonest /\ WrittenMeansDurable

\* A save that was acknowledged is not undone by a power loss.
SavedIsDurable ==
    \A c \in Call : answer[c] = "saved" /\ file[Dest(c)].by = c =>
        disk[Dest(c)] = file[Dest(c)]

\* As long as fsync does not fail: a record that certifies a publication also
\* survives only together with it.  recover_operation never syncs the document
\* folder itself; it is the removal of the dead call's stage that does.
CertifiedIsDurable ==
    \A o \in Op : result[o] \in {"published", "recovered"} =>
        LET c == prepared[o]
        IN  file[Dest(c)].by = c => disk[Dest(c)] = file[Dest(c)]

\* What the documentation says of the records: the document on the disk is never
\* ahead of the prepared record on the disk.
DurableRecordPrecedesPublication ==
    \A c \in Call : disk[Dest(c)].by = c => preparedDisk[OpOf(c)] = c

\* The detailed system implements the ledger: what a power loss would leave of
\* the records, and whether the document was changed.
PhaseOf(o) == IF \E c \in applied : OpOf(c) = o THEN "published"
              ELSE IF preparedDisk[o] # NoOne THEN "prepared"
              ELSE "unused"
VerdictOf(o) == IF resultDisk[o] = "recovered" THEN "published" ELSE resultDisk[o]

Ledger == INSTANCE OperationLedger WITH
    phase <- [o \in Op |-> PhaseOf(o)],
    verdict <- [o \in Op |-> VerdictOf(o)]

LedgerImplemented == Ledger!LedgerSpec

\* Whatever was interrupted, a client that keeps asking for recovery gets a
\* result as long as the evidence stays in place.
RecoveryCompletes ==
    \A o \in Op :
        <>[](\E c \in Call : prepared[o] = c /\ Evidence(c)) => <>(result[o] # "none")

\* A save never hangs: no lock makes it wait, and it ends with an answer unless
\* its process is killed.
CallsEnd ==
    \A c \in Call : pc[c] = "waiting" ~> pc[c] = "crashed" \/ answer[c] # "none"

--------------------------------------------------------------------------------
(* The inductive invariant behind the safety theorems.  It does not need   *)
(* the writer lock: what keeps the records right is that prepared.json and *)
(* result.json are created and never replaced.                             *)

BeforePublish == Early \cup {"locked", "checked", "staged", "linked", "backed_up",
                             "rechecked", "preparing", "prepared", "cleared"}

\* A folder holds the record of a call of its operation, and a durable record is
\* the one processes see.
RecordsKept ==
    \A o \in Op :
        /\ opDir[o] # "unsynced"
        /\ prepared[o] # NoOne => OpOf(prepared[o]) = o
        /\ preparedDisk[o] # NoOne => prepared[o] = preparedDisk[o]
        /\ resultDisk[o] # "none" => result[o] = resultDisk[o]

\* From prepare on, the record of a live call is its own and durable.
CommittedHasRecord ==
    \A c \in Call :
        /\ pc[c] = "preparing" => prepared[OpOf(c)] = c
        /\ pc[c] \in Committed => preparedDisk[OpOf(c)] = c

\* publication_completed is exact, and publication_unknown covers the rest.
OutcomeExact ==
    \A c \in Call :
        /\ outcome[c] = "none" => c \notin applied
        /\ outcome[c] \in {"completed", "verified"} => c \in applied
        /\ pc[c] \in BeforePublish => outcome[c] = "none"
        /\ pc[c] \in {"published", "synced", "finishing"} =>
               outcome[c] \in {"completed", "verified"}

\* A result stands on a durable record and is true; one that says nothing was
\* published comes from a call that is past publishing.
ResultsTrue ==
    \A o \in Op :
        /\ result[o] # "none" => preparedDisk[o] # NoOne
        /\ result[o] \in {"published", "recovered"} => prepared[o] \in applied
        /\ result[o] = "not_published" =>
               /\ prepared[o] \in Call \ applied
               /\ pc[prepared[o]] \in {"late_finishing"} \cup Ended

\* What a call is syncing is the verdict it reached.
FinishingWrites ==
    \A c \in Call : pc[c] \in {"finishing", "late_finishing"} =>
        result[OpOf(c)] = LateVerdict(c)

\* Candidate bytes come from nowhere but a publication.
Explained(k) == k \in WordContent \cup {Initial, Absent}
                    \/ \E c \in applied : k = Candidate(c)
ContentExplained ==
    \A p \in Path : Explained(file[p].content) /\ Explained(disk[p].content)

\* Evidence that matched once stays conclusive.
EvidenceConclusive ==
    \A r \in Recoverer :
        /\ rpc[r] = "observed" /\ matched[r] => prepared[rop[r]] \in applied
        /\ rpc[r] = "writing" => result[rop[r]] # "none"

AnswersFromOutcome ==
    \A c \in Call :
        /\ answer[c] = "failed" => pc[c] \in Ended /\ outcome[c] = "none"
        /\ answer[c] = "saved" => pc[c] \in Ended /\ outcome[c] = "verified"
        /\ journal[c] = "written" =>
               /\ pc[c] \in Ended
               /\ resultDisk[OpOf(c)] = LateVerdict(c)
               /\ preparedDisk[OpOf(c)] = c

SaveInv ==
    /\ RecordsKept
    /\ CommittedHasRecord
    /\ PreparedBeforePublished
    /\ OutcomeExact
    /\ ResultsTrue
    /\ FinishingWrites
    /\ ContentExplained
    /\ EvidenceConclusive
    /\ AnswersFromOutcome

(* The invariant behind ReplacedVersionIsBackedUp does need the lock.       *)

\* flock admits one call or one recovery, over crashes and releases.
LockHeld ==
    /\ \A c \in Call : pc[c] \in Guarded => lock = c
    /\ \A r \in Recoverer : rpc[r] # "idle" => lock = r

Captured == Guarded \ {"locked"}
BackedUp == {"backed_up", "rechecked", "preparing", "prepared", "cleared"}

\* The captured version is the one the candidate was built from, a backup that
\* went through fsync is as durable as it looks, and past the last check only
\* Word or the owner can have changed anything.
NothingMoved ==
    \A c \in Call :
        /\ pc[c] \in Captured => version[c].content = Source(c)
        /\ pc[c] \in BackedUp /\ InPlace(c) => backupDisk[c] = backup[c]
        /\ pc[c] = "cleared" /\ c \notin raced => SourceCurrent(c) /\ BackupVerified(c)

GuardInv == LockHeld /\ NothingMoved

(* The invariants behind SavedIsDurable and CertifiedIsDurable.             *)

OnDisk(c) == file[Dest(c)].by = c => disk[Dest(c)] = file[Dest(c)]

\* What a call verified it had synced before, and no later change of the document
\* has its name on it.
VerifiedOnDisk ==
    \A c \in Call :
        /\ pc[c] = "synced" \/ outcome[c] = "verified" => OnDisk(c)
        /\ answer[c] = "saved" => outcome[c] = "verified" /\ pc[c] \in Ended

\* A publication that is not on the disk yet has a stage, whose removal will sync
\* it; the writer lock keeps recovery from certifying it before.
StageUntilSynced ==
    \A c \in Call :
        /\ pc[c] \in {"staged", "linked", "published", "raised"} \cup BackedUp => c \in stages
        /\ OnDisk(c) \/ (c \in stages /\ pc[c] \in {"published", "raised", "crashed"})

CertifiedOnDisk ==
    /\ \A o \in Op : result[o] \in {"published", "recovered"} => OnDisk(prepared[o])
    /\ \A r \in Recoverer : rpc[r] = "observed" /\ matched[r] => OnDisk(prepared[rop[r]])

CertifiedInv == StageUntilSynced /\ CertifiedOnDisk
================================================================================
