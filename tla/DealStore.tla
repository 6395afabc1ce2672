------------------------------- MODULE DealStore -------------------------------
(***************************************************************************)
(* The two private stores of a matter folder and everything a mutating     *)
(* call does with them: _storage and _publish (positions.py), the shared   *)
(* path of mutate_deal_positions and mutate_deal_state, _store_snapshot    *)
(* with persist_snapshot, and the outgoing kit published as the effect of  *)
(* a state command.                                                        *)
(*                                                                         *)
(* A store is replaced as a whole, so it is the sequence of the requests   *)
(* (or position changes) recorded in it, and its revision, a hash of its   *)
(* content, is that sequence.  Both stores lie in .veqtor: one fsync of    *)
(* that directory fixes both names, and until then a power loss leaves     *)
(* either version.  One round and its working document are followed;       *)
(* reads (read_deal_state) are the clients' knowledge in Begin.            *)
(***************************************************************************)
EXTENDS Naturals, FiniteSets, SequencesExt

CONSTANTS
    MaxCalls,     \* bound on invocations of the two mutating tools
    MaxAtOnce,    \* bound on those that run at the same time
    Request,      \* request ids
    NoPlan,       \* a command that names no outgoing plan
    Digest,       \* SHA-256 values of documents
    NoDigest,     \* a command that captures no document
    Attempt,      \* request ids with their commands, as clients send them
    Openings,     \* what deal-rounds.json may hold to begin with
    MaxLosses     \* bound on power losses

\* Invocations, numbered as they start.
Call == 1..MaxCalls
NoCall == 0

Action == {"mutate_deal_positions", "start_round", "import_working_document",
           "prepare_outgoing_package", "publish_outgoing_package",
           "record_outgoing_verification"}

ASSUME AttemptIsCommands ==
    Attempt \subseteq [id : Request, action : Action,
                       digest : Digest \cup {NoDigest}, plan : Request \cup {NoPlan}]
\* The commands on a kit name no document (the closed command schema).
ASSUME KitCommandsCaptureNothing ==
    \A a \in Attempt :
        a.action \in {"publish_outgoing_package", "record_outgoing_verification"} =>
            a.digest = NoDigest
ASSUME SomethingToDo == Attempt # {}
ASSUME DistinctNothing == NoDigest \notin Digest /\ NoPlan \notin Request
ASSUME OpeningsAreRounds ==
    \A s \in Openings :
        /\ s \in Seq([attempt : Attempt, positions : {<<>>}])
        /\ \A i, j \in DOMAIN s : s[i].attempt.id = s[j].attempt.id => i = j
        /\ \A i \in DOMAIN s :
              s[i].attempt.action \in {"start_round", "import_working_document"}
ASSUME BoundsOK == MaxCalls \in Nat /\ MaxAtOnce \in Nat /\ MaxLosses \in Nat

VARIABLES
    rounds,          \* deal-rounds.json as every process sees it
    roundsOnDisk,    \* the versions of it a power loss may leave
    positions,       \* deal-positions.json as every process sees it
    positionsOnDisk, \* the versions of it a power loss may leave
    folder,          \* .veqtor: absent, made, or kept once its parent is synced
    snapshots,       \* documents in .veqtor/round-documents
    snapshotsKept,   \* those a power loss leaves there
    kits,            \* plans whose outgoing folder exists
    kitsKept,        \* those a power loss leaves
    carried,         \* plans whose folder the user has taken away
    holder,          \* the call that holds the lock
    pc,              \* where each call is
    attempt,         \* what it was asked to do
    expected,        \* the stores as its client last read them
    loaded,          \* the stores as it read them
    answer,          \* what it answered
    touched,         \* calls that replaced a store or created a kit
    losses,          \* power losses so far
    orphans,         \* documents whose snapshot a call has left unsynced
    folderLost       \* a power loss has taken .veqtor, whose name was never synced

storeVars == <<rounds, roundsOnDisk, positions, positionsOnDisk>>
fileVars == <<folder, snapshots, snapshotsKept, kits, kitsKept, carried>>
requestVars == <<attempt, expected>>
historyVars == <<touched, losses, orphans, folderLost>>
vars == <<storeVars, fileVars, holder, pc, requestVars, loaded, answer, historyVars>>

\* A recorded request keeps its command (its hash in the code) and the
\* positions it was based on, for the commands that record them.
Entry == [attempt : Attempt, positions : Seq(Call)]
Stores == [rounds : Seq(Entry), positions : Seq(Call)]
Empty == [rounds |-> <<>>, positions |-> <<>>]

\* The steps of a call that holds the lock, up to the file it replaces.
Prepared == {"snapshotting", "settling", "rechecking", "effecting", "flushing",
             "comparing", "replacing"}
Locked == {"entering", "deciding", "syncing"} \cup Prepared
Running == {"opening", "rooting", "locking"} \cup Locked

TypeOK ==
    /\ rounds \in Seq(Entry) /\ roundsOnDisk \in SUBSET Seq(Entry)
    /\ positions \in Seq(Call) /\ positionsOnDisk \in SUBSET Seq(Call)
    /\ folder \in {"absent", "made", "kept"}
    /\ snapshots \in SUBSET Digest /\ snapshotsKept \in SUBSET snapshots
    /\ kits \in SUBSET Request /\ kitsKept \in SUBSET kits
    /\ carried \in SUBSET Request
    /\ holder \in Call \cup {NoCall}
    /\ pc \in [Call -> {"idle", "ended"} \cup Running]
    /\ attempt \in [Call -> Attempt]
    /\ expected \in [Call -> Stores]
    /\ loaded \in [Call -> Stores]
    /\ answer \in [Call -> {"none", "ok", "refused", "uncertain"}]
    /\ touched \in SUBSET Call
    /\ losses \in 0..MaxLosses
    /\ orphans \in SUBSET Digest
    /\ folderLost \in BOOLEAN

\* The documents a version of the state names (_hashes).
Documents(s) == {e.attempt.digest : e \in ToSet(s)} \ {NoDigest}

\* A fresh folder, or the round an earlier session has left.
Init ==
    /\ rounds \in Openings /\ roundsOnDisk = {rounds}
    /\ positions = <<>> /\ positionsOnDisk = {<<>>}
    /\ folder = IF rounds = <<>> THEN "absent" ELSE "kept"
    /\ snapshots = Documents(rounds) /\ snapshotsKept = Documents(rounds)
    /\ kits = {} /\ kitsKept = {} /\ carried = {}
    /\ holder = NoCall
    /\ pc = [c \in Call |-> "idle"]
    /\ attempt = [c \in Call |-> CHOOSE a \in Attempt : TRUE]
    /\ expected = [c \in Call |-> Empty]
    /\ loaded = [c \in Call |-> Empty]
    /\ answer = [c \in Call |-> "none"]
    /\ touched = {}
    /\ losses = 0
    /\ orphans = {}
    /\ folderLost = FALSE

--------------------------------------------------------------------------------
(* What a store says of a command.                                         *)

OnPositions(c) == attempt[c].action = "mutate_deal_positions"

Ids(s) == {e.attempt.id : e \in ToSet(s)}
Done(s, action) == \E e \in ToSet(s) : e.attempt.action = action
PlanEntries(s, p) ==
    {e \in ToSet(s) : e.attempt.id = p /\ e.attempt.action = "prepare_outgoing_package"}
Receipts(s, p) ==
    {e \in ToSet(s) : e.attempt.plan = p /\ e.attempt.action \in
                        {"publish_outgoing_package", "record_outgoing_verification"}}

\* basis of an outgoing plan: the working document does not change once
\* imported, so the positions decide.
OnBasis(s, pos, p) == \E e \in PlanEntries(s, p) : e.positions = pos

\* The refusals of mutate_deal_state and outgoing.change, read positively.
Applicable(a, s, pos) ==
    CASE a.action = "start_round" -> ~Done(s, "start_round")
      [] a.action = "import_working_document" ->
            Done(s, "start_round") /\ ~Done(s, "import_working_document")
      [] a.action = "prepare_outgoing_package" -> Done(s, "import_working_document")
      [] a.action = "publish_outgoing_package" ->
            OnBasis(s, pos, a.plan) /\ Receipts(s, a.plan) = {}
      [] OTHER -> PlanEntries(s, a.plan) # {}

\* start_round and the outgoing plan record the positions they were made on.
RecordedBasis(a, pos) ==
    IF a.action \in {"start_round", "prepare_outgoing_package"} THEN pos ELSE <<>>
Candidate(c) ==
    Append(loaded[c].rounds,
           [attempt |-> attempt[c],
            positions |-> RecordedBasis(attempt[c], loaded[c].positions)])

MutantRecorded(s, a) == FALSE
\* The request id is on record, whatever its command.
Recorded(s, a) == a.id \in Ids(s)

--------------------------------------------------------------------------------
(* Steps of a call.                                                        *)

Goto(c, label) == pc' = [pc EXCEPT ![c] = label]

\* Closing the lock file gives the lock back, at an answer as at a kill.
Released(c) == IF holder = c THEN NoCall ELSE holder

Answer(c, verdict) ==
    /\ Goto(c, "ended")
    /\ answer' = [answer EXCEPT ![c] = verdict]
    /\ holder' = Released(c)

Stay == UNCHANGED <<holder, answer>>
Refuse(c) == Answer(c, "refused")

\* A client asks for a change of the stores it has just read.
Begin(c) ==
    /\ pc[c] = "idle"
    /\ \A d \in 1..(c - 1) : pc[d] # "idle"
    /\ Cardinality({d \in Call : pc[d] \in Running}) < MaxAtOnce
    /\ \E a \in Attempt : attempt' = [attempt EXCEPT ![c] = a]
    /\ expected' = [expected EXCEPT ![c] = [rounds |-> rounds, positions |-> positions]]
    /\ Goto(c, "opening")
    /\ Stay
    /\ UNCHANGED <<storeVars, fileVars, loaded, historyVars>>

\* mkdir(.veqtor); only the call that makes it syncs its parent.
OpenFolder(c) ==
    /\ pc[c] = "opening"
    /\ IF folder # "absent" THEN Goto(c, "locking") /\ UNCHANGED folder
       ELSE Goto(c, "rooting") /\ folder' = "made"
    /\ Stay
    /\ UNCHANGED <<storeVars, snapshots, snapshotsKept, kits, kitsKept, carried,
                   requestVars, loaded, historyVars>>

SyncRoot(c) ==
    /\ pc[c] = "rooting"
    /\ \/ folder' = "kept" /\ Goto(c, "locking") /\ Stay
       \/ Refuse(c) /\ UNCHANGED folder
    /\ UNCHANGED <<storeVars, snapshots, snapshotsKept, kits, kitsKept, carried,
                   requestVars, loaded, historyVars>>

MutantLockFree(c) == holder = NoCall \/ OnPositions(c)
\* One flock for both stores.
LockFree(c) == holder = NoCall

\* The lock is polled for LOCK_SECONDS.
Lock(c) ==
    /\ pc[c] = "locking"
    /\ \/ /\ LockFree(c)
          /\ holder' = c
          /\ Goto(c, "entering")
          /\ UNCHANGED answer
       \/ holder # NoCall /\ Refuse(c)
    /\ UNCHANGED <<storeVars, fileVars, requestVars, loaded, historyVars>>

\* fsync(side): the names in .veqtor, of both stores, are on disk.
SideSynced == roundsOnDisk' = {rounds} /\ positionsOnDisk' = {positions}

MutantEntrySync == UNCHANGED <<roundsOnDisk, positionsOnDisk>>
\* A writing call syncs what an earlier one may have left unsynced.
EntrySync == SideSynced

Enter(c) ==
    /\ pc[c] = "entering"
    /\ \/ EntrySync /\ Goto(c, "deciding") /\ Stay
       \/ Refuse(c) /\ UNCHANGED <<roundsOnDisk, positionsOnDisk>>
    /\ UNCHANGED <<rounds, positions, fileVars, requestVars, loaded, historyVars>>

Loads(c) == loaded' = [loaded EXCEPT ![c] = [rounds |-> rounds, positions |-> positions]]

\* A recorded request answers from the store, without its document.
Replay(c) ==
    /\ pc[c] = "deciding"
    /\ ~OnPositions(c)
    /\ Recorded(rounds, attempt[c])
    /\ Loads(c)
    /\ IF /\ \E e \in ToSet(rounds) : e.attempt = attempt[c]
          /\ Documents(rounds) \subseteq snapshots
       THEN Answer(c, "ok")
       ELSE Refuse(c)
    /\ UNCHANGED <<storeVars, fileVars, requestVars, historyVars>>

\* The first file a state command writes after its candidate is accepted.
FirstWrite(a) ==
    IF a.digest # NoDigest THEN "snapshotting"
    ELSE IF a.action \in {"publish_outgoing_package", "record_outgoing_verification"}
         THEN "rechecking"
         ELSE "comparing"

\* The revision the client read is current, and every linked snapshot loads.
Accepted(c) ==
    IF OnPositions(c)
    THEN expected[c].positions = positions
    ELSE /\ expected[c].rounds = rounds
         /\ Applicable(attempt[c], rounds, positions)
         /\ Documents(rounds) \ {attempt[c].digest} \subseteq snapshots

\* Accepting may also fail on a check that is not modelled: a changed
\* document, a position's own version, a limit.
Decide(c) ==
    /\ pc[c] = "deciding"
    /\ OnPositions(c) \/ ~Recorded(rounds, attempt[c])
    /\ Loads(c)
    /\ \/ /\ Accepted(c)
          /\ Goto(c, IF OnPositions(c) THEN "comparing" ELSE FirstWrite(attempt[c]))
          /\ Stay
       \/ Refuse(c)
    /\ UNCHANGED <<storeVars, fileVars, requestVars, historyVars>>

\* _store_snapshot: an existing snapshot of the same bytes is taken as it is.
ReuseSnapshot(c) ==
    /\ pc[c] = "snapshotting"
    /\ attempt[c].digest \in snapshots
    /\ \/ Goto(c, "comparing") /\ Stay
       \/ Refuse(c)
    /\ UNCHANGED <<storeVars, fileVars, requestVars, loaded, historyVars>>

\* persist_snapshot: a staged folder, renamed without replacing, then fsync of
\* its parent, which fixes every snapshot's name.
PersistSnapshot(c) ==
    /\ pc[c] = "snapshotting"
    /\ attempt[c].digest \notin snapshots
    /\ \/ /\ snapshots' = snapshots \cup {attempt[c].digest}
          /\ Goto(c, "settling")
          /\ Stay
       \/ Refuse(c) /\ UNCHANGED snapshots
    /\ UNCHANGED <<storeVars, folder, snapshotsKept, kits, kitsKept, carried, requestVars,
                   loaded, historyVars>>

\* A call that ends here leaves a snapshot that the next one takes as it is.
Orphan(c) == IF pc[c] = "settling" THEN {attempt[c].digest} ELSE {}

SettleSnapshot(c) ==
    /\ pc[c] = "settling"
    /\ \/ /\ snapshotsKept' = snapshots
          /\ orphans' = {}
          /\ Goto(c, "comparing")
          /\ Stay
       \/ /\ Answer(c, "uncertain")
          /\ orphans' = orphans \cup Orphan(c)
          /\ UNCHANGED snapshotsKept
    /\ UNCHANGED <<storeVars, folder, snapshots, kits, kitsKept, carried, requestVars,
                   loaded, touched, losses, folderLost>>

\* The stores are read again right before the effect.
Recheck(c) ==
    /\ pc[c] = "rechecking"
    /\ \/ /\ rounds = loaded[c].rounds /\ positions = loaded[c].positions
          /\ Goto(c, "effecting")
          /\ Stay
       \/ Refuse(c)
    /\ UNCHANGED <<storeVars, fileVars, requestVars, loaded, historyVars>>

MutantFlushing == "comparing"
\* The step after the rename of a kit.
Flushing == "flushing"

\* publish_outgoing_package: a staged folder renamed without replacing.
PublishKit(c) ==
    /\ pc[c] = "effecting"
    /\ attempt[c].action = "publish_outgoing_package"
    /\ \/ /\ attempt[c].plan \notin kits
          /\ kits' = kits \cup {attempt[c].plan}
          /\ touched' = touched \cup {c}
          /\ Goto(c, Flushing)
          /\ Stay
       \/ Refuse(c) /\ UNCHANGED <<kits, touched>>
    /\ UNCHANGED <<storeVars, folder, snapshots, snapshotsKept, kitsKept, carried,
                   requestVars, loaded, losses, orphans, folderLost>>

\* fsync of the kit's parent; an error reports publication_uncertain and leaves
\* the store alone.
FlushKit(c) ==
    /\ pc[c] = "flushing"
    /\ \/ /\ attempt[c].plan \in kits
          /\ kitsKept' = kits
          /\ Goto(c, "comparing")
          /\ Stay
       \/ Answer(c, "uncertain") /\ UNCHANGED kitsKept
    /\ UNCHANGED <<storeVars, folder, snapshots, snapshotsKept, kits, carried,
                   requestVars, loaded, historyVars>>

\* verify_outgoing_package finds exactly the planned files, or refuses.
VerifyKit(c) ==
    /\ pc[c] = "effecting"
    /\ attempt[c].action = "record_outgoing_verification"
    /\ \/ attempt[c].plan \in kits /\ Goto(c, "comparing") /\ Stay
       \/ Refuse(c)
    /\ UNCHANGED <<storeVars, fileVars, requestVars, loaded, historyVars>>

\* After a published kit every failure is outgoing_state_commit_uncertain.
PublishFailure(c) ==
    Answer(c, IF attempt[c].action = "publish_outgoing_package" THEN "uncertain" ELSE "refused")

\* _publish: the temporary is written and synced, the stamp is compared.
Compare(c) ==
    /\ pc[c] = "comparing"
    /\ \/ /\ IF OnPositions(c) THEN positions = loaded[c].positions
                               ELSE rounds = loaded[c].rounds
          /\ Goto(c, "replacing")
          /\ Stay
       \/ PublishFailure(c)
    /\ UNCHANGED <<storeVars, fileVars, requestVars, loaded, historyVars>>

\* os.replace, which may also fail with the old file in place.
Replace(c) ==
    /\ pc[c] = "replacing"
    /\ \/ /\ IF OnPositions(c)
             THEN /\ positions' = Append(loaded[c].positions, c)
                  /\ positionsOnDisk' = positionsOnDisk \cup {positions'}
                  /\ UNCHANGED <<rounds, roundsOnDisk>>
             ELSE /\ rounds' = Candidate(c)
                  /\ roundsOnDisk' = roundsOnDisk \cup {rounds'}
                  /\ UNCHANGED <<positions, positionsOnDisk>>
          /\ touched' = touched \cup {c}
          /\ Goto(c, "syncing")
          /\ Stay
       \/ Answer(c, "uncertain") /\ UNCHANGED <<storeVars, touched>>
    /\ UNCHANGED <<fileVars, requestVars, loaded, losses, orphans, folderLost>>

MutantCommitFailure(c) == Refuse(c)
\* possible_commit: an error after os.replace is commit_uncertain.
CommitFailure(c) == Answer(c, "uncertain")

SyncStore(c) ==
    /\ pc[c] = "syncing"
    /\ \/ SideSynced /\ Answer(c, "ok")
       \/ CommitFailure(c) /\ UNCHANGED <<roundsOnDisk, positionsOnDisk>>
    /\ UNCHANGED <<rounds, positions, fileVars, requestVars, loaded, historyVars>>

--------------------------------------------------------------------------------
(* What happens to a call or to its files.                                 *)

Kill(c) ==
    /\ pc[c] \in Running
    /\ Goto(c, "ended")
    /\ holder' = Released(c)
    /\ orphans' = orphans \cup Orphan(c)
    /\ UNCHANGED <<storeVars, fileVars, requestVars, loaded, answer, touched, losses,
                   folderLost>>

\* The user takes a published folder elsewhere.
CarryAway(p) ==
    /\ p \in kits
    /\ kits' = kits \ {p}
    /\ kitsKept' = kitsKept \ {p}
    /\ carried' = carried \cup {p}
    /\ UNCHANGED <<storeVars, folder, snapshots, snapshotsKept, holder, pc, requestVars,
                   loaded, answer, historyVars>>

\* Names that were not synced may or may not be on disk; without the folder's
\* own name everything in it is gone.
PowerLoss ==
    /\ losses < MaxLosses
    /\ losses' = losses + 1
    /\ \/ /\ rounds' \in roundsOnDisk
          /\ positions' \in positionsOnDisk
          /\ \E s \in SUBSET (snapshots \ snapshotsKept) : snapshots' = snapshotsKept \cup s
          /\ folder' = IF folder = "made" THEN "kept" ELSE folder
          /\ UNCHANGED folderLost
       \/ /\ folder = "made"
          /\ folder' = "absent"
          /\ folderLost' = TRUE
          /\ rounds' = <<>> /\ positions' = <<>> /\ snapshots' = {}
    /\ roundsOnDisk' = {rounds'} /\ positionsOnDisk' = {positions'}
    /\ snapshotsKept' = snapshots'
    /\ \E k \in SUBSET (kits \ kitsKept) : kits' = kitsKept \cup k
    /\ kitsKept' = kits'
    /\ pc' = [c \in Call |-> IF pc[c] \in Running THEN "ended" ELSE pc[c]]
    /\ holder' = NoCall
    /\ UNCHANGED <<carried, requestVars, loaded, answer, touched, orphans>>

CallStep(c) ==
    \/ OpenFolder(c) \/ SyncRoot(c) \/ Lock(c) \/ Enter(c)
    \/ Replay(c) \/ Decide(c)
    \/ ReuseSnapshot(c) \/ PersistSnapshot(c) \/ SettleSnapshot(c)
    \/ Recheck(c) \/ PublishKit(c) \/ FlushKit(c) \/ VerifyKit(c)
    \/ Compare(c) \/ Replace(c) \/ SyncStore(c)

Next ==
    \/ \E c \in Call : Begin(c) \/ CallStep(c) \/ Kill(c)
    \/ \E p \in Request : CarryAway(p)
    \/ PowerLoss

Spec == Init /\ [][Next]_vars

--------------------------------------------------------------------------------
(* What the stores promise.                                                *)

\* The change of call c is part of these versions of its store.
Holds(c, s, pos) ==
    IF OnPositions(c) THEN c \in ToSet(pos)
    ELSE \E e \in ToSet(s) : e.attempt = attempt[c]

\* Once a call has answered ok, also by replaying a request another call had
\* left uncertain, no power loss takes its change away from the store (_storage,
\* _publish), unless it takes a .veqtor whose own name was never synced.
OkIsKept ==
    \A c \in Call : answer[c] = "ok" /\ ~folderLost =>
        \A s \in roundsOnDisk, pos \in positionsOnDisk : Holds(c, s, pos)

\* A definite refusal means that the call replaced no store and created no
\* kit: what it did not settle it calls uncertain (_publish, mutate_deal_state).
RefusedChangesNothing ==
    \A c \in Call : answer[c] = "refused" => c \notin touched

\* The two definite answers of a store hold, whatever happens before and after.
AnswersHold == OkIsKept /\ RefusedChangesNothing

\* A request id is recorded once, however often it is sent again after lost
\* answers, kills and power losses (the requests loop of mutate_deal_state).
RecordedOnce ==
    \A s \in roundsOnDisk \cup {rounds} :
        \A i, j \in DOMAIN s : s[i].attempt.id = s[j].attempt.id => i = j

\* The positions a round or plan was based on stay a prefix of the position
\* history in every pair of versions a power loss may leave: an answered round
\* never points past the history (_positions_observation).
BasisStaysHistory ==
    \A s \in roundsOnDisk, pos \in positionsOnDisk :
        \A e \in ToSet(s) : IsPrefix(e.positions, pos)

\* Every document a version of the state names is in the snapshot folder for
\* good, so no read of the state fails on it (_store_snapshot before _publish),
\* but for snapshots that an earlier call left unsynced and this one reused.
RolesHaveSnapshots ==
    \A s \in roundsOnDisk : Documents(s) \ orphans \subseteq snapshotsKept

\* What a state names, the positions behind a round and the bytes of its documents,
\* is there in every version of the stores a power loss may leave.
StateResolves == BasisStaysHistory /\ RolesHaveSnapshots

\* Behind every kit stands a plan that survives a power loss: it was committed
\* before the kit could be created, even if the client was told that its commit
\* is uncertain (_deal_outgoing.effect, the fsync of _storage).
PlanBeforeKit ==
    \A p \in kits : ~folderLost => \A s \in roundsOnDisk : PlanEntries(s, p) # {}

\* A receipt of a publication is recorded only once the kit survives a power
\* loss; after that only the user removes it.
ReceiptsHaveKits ==
    \A s \in roundsOnDisk : \A e \in ToSet(s) :
        e.attempt.action = "publish_outgoing_package" =>
            e.attempt.plan \in kitsKept \cup carried

\* A kit, which lies outside the stores, always stands between its plan and its
\* receipt: none without the one, and none of the others without it.
KitsAccountedFor == PlanBeforeKit /\ ReceiptsHaveKits

\* No change is lost under another one: but for power losses, each store is
\* only extended (the lock, the revision and the stamp together).
StoresOnlyExtend ==
    [][losses' = losses =>
         IsPrefix(rounds, rounds') /\ IsPrefix(positions, positions')]_vars

\* A kit is created only while the positions are those its plan froze, and
\* never once a receipt of that plan is recorded (outgoing_basis_changed,
\* outgoing_already_recorded), whoever changes the positions meanwhile.
KitOnItsBasis ==
    [][\A p \in kits' \ kits :
         OnBasis(rounds, positions, p) /\ Receipts(rounds, p) = {}]_vars

--------------------------------------------------------------------------------
(* Why they hold: the lock, the fsync on entry and the one reading of both *)
(* stores under the lock.                                                  *)

\* A call that captures a document or touches a kit has one to name.
NamesItsFiles ==
    \A c \in Call :
        /\ pc[c] \in {"snapshotting", "settling"} => attempt[c].digest \in Digest
        /\ pc[c] \in {"rechecking", "effecting", "flushing"} => attempt[c].plan \in Request

\* Exactly the holder of the lock is between locking and answering.
LockHeld == \A c \in Call : pc[c] \in Locked <=> holder = c

\* A store as seen is one of the versions on disk.
SeenIsOnDisk == rounds \in roundsOnDisk /\ positions \in positionsOnDisk

\* From its entry to its own replacement a call works on stores that are
\* entirely on disk, and what it read is what they still are.
WorksOnDisk ==
    \A c \in Call : pc[c] \in {"deciding"} \cup Prepared =>
        /\ roundsOnDisk = {rounds} /\ positionsOnDisk = {positions}
        /\ pc[c] \in Prepared =>
              loaded[c] = [rounds |-> rounds, positions |-> positions]

\* What a call decided on stays true until it has replaced its store.
DecidedStays ==
    \A c \in Call :
        /\ pc[c] \in {"snapshotting", "settling", "rechecking", "effecting", "flushing"} =>
              ~OnPositions(c)
        /\ pc[c] \in Prepared /\ ~OnPositions(c) => attempt[c].id \notin Ids(rounds)
        /\ pc[c] \in Prepared /\ attempt[c].action = "publish_outgoing_package" =>
              /\ OnBasis(rounds, positions, attempt[c].plan)
              /\ Receipts(rounds, attempt[c].plan) = {}

\* A call that has replaced its store finds its change there; only ended calls
\* have answered.
ReplacedIsThere ==
    \A c \in Call : /\ pc[c] = "syncing" => Holds(c, rounds, positions)
                    /\ answer[c] # "none" => pc[c] = "ended"

\* A call that has touched a file is on the way to an answer other than a refusal.
TouchedAnswers ==
    \A c \in Call :
        /\ c \in touched =>
              \/ pc[c] \in {"flushing", "syncing"}
              \/ /\ pc[c] \in {"comparing", "replacing"}
                 /\ attempt[c].action = "publish_outgoing_package"
              \/ pc[c] = "ended" /\ answer[c] # "refused"
        /\ pc[c] = "flushing" => attempt[c].action = "publish_outgoing_package"

\* A publication reaches the store with its kit on disk, or carried away.
KitsBehindPublications ==
    \A c \in Call :
        pc[c] \in {"comparing", "replacing"}
        /\ attempt[c].action = "publish_outgoing_package" =>
            attempt[c].plan \in kitsKept \cup carried

\* Every snapshot is on disk, left by an ended call, or about to be synced; a
\* command reaches the store with all of its documents accounted for.
SnapshotsAccounted ==
    /\ \A g \in snapshots : \/ g \in snapshotsKept \cup orphans
                            \/ \E c \in Call : pc[c] = "settling" /\ attempt[c].digest = g
    /\ \A c \in Call :
          /\ pc[c] = "settling" => attempt[c].digest \in snapshots
          /\ pc[c] \in {"rechecking", "effecting", "flushing"} => attempt[c].digest = NoDigest
          /\ pc[c] \in Prepared /\ ~OnPositions(c) =>
                Documents(rounds) \ {attempt[c].digest} \subseteq snapshots
          /\ pc[c] \in {"comparing", "replacing"} /\ ~OnPositions(c) =>
                attempt[c].digest \in {NoDigest} \cup snapshotsKept \cup orphans

FileInv == /\ TouchedAnswers /\ KitsBehindPublications /\ SnapshotsAccounted
           /\ RefusedChangesNothing /\ ReceiptsHaveKits /\ RolesHaveSnapshots

StoreInv ==
    /\ LockHeld /\ SeenIsOnDisk /\ WorksOnDisk /\ DecidedStays /\ ReplacedIsThere
    /\ OkIsKept /\ RecordedOnce /\ BasisStaysHistory /\ PlanBeforeKit
================================================================================
