# veqtor-mcp in TLA+

veqtor-mcp is a local, single-user MCP server for negotiating contracts in DOCX: 23 tools
that read and verify redlines, prepare and apply edits, save documents in place with a
backup and an operation record, and keep the state of a deal (positions, rounds, working
documents, outgoing kits, decision records) beside the documents. The same matter folder is
used by several server processes (one per client), by Word, by the user's file manager, and
by earlier releases. Nothing is in memory between calls: all state is files, so correctness
lies in the order of `mkdir`, `rename`, `fsync` and locks, in what a killed process or a
power loss leaves behind, and in what a client is told about it.

This directory models that: TLA+ modules translated from `src/src/veqtor_docx` and
`src/src/veqtor_mcp`, TLC instances of them, and TLAPS proofs. `PROJECT.json` maps every
definition to the lines it stands for.

## 1. Inventory

| Component | State | Operations | Interacts with |
|---|---|---|---|
| Document save (`_drafting_io.py: publish_document`) | the document, `.veqtor-backups`, stage folder | check, stage, back up, prepare, replace/link, sync, finish | writer lock, operation journal, Word |
| Operation journal (`operation_journal.py`) | `.veqtor/operations/<id>/prepared.json`, `result.json`, a flock on that folder | prepare, finish, `read_operation`, `recover_operation` | called by the save, before and after it |
| Writer lock (`_drafting_io.py: _writer_lock`, `_drafting_fs.py`) | flock on the folder, sidecar `.veqtor-<hash>.lock`, temporaries | lock, sweep, publish sidecar, reclaim dead sidecar, release | every save and recovery; earlier releases through the sidecar |
| Stage folders (`_drafting_io.py: _staged, _recover_stages`) | `.veqtor-stage-*`, owner records | stage, own, clean up, recover dead ones | under the writer lock |
| Position store (`positions.py`) | `.veqtor/deal-positions.json`, a lock file | `mutate_deal_positions`, `read_deal_positions` | shares folder and lock with the round store |
| Round store (`deal_state.py`, `_deal_*.py`, `_working_copies.py`) | `.veqtor/deal-rounds.json` | `mutate_deal_state` (some 20 commands), `read_deal_state` | reads positions; writes snapshots, kits, copies |
| Snapshots (`round_snapshots.py`) | `.veqtor/round-documents/<sha>` | capture, persist, load, restore | the round store |
| Outgoing kits (`outgoing_package.py`) | a new folder with the selected DOCX files | prepare plan, publish, verify | effect of a round-store command |
| Round operation records (`round_operations.py`, `rounds.py`) | records of apply calls | validate a record against its result | round map |
| Decision-record journal (`records.py`) | `.veqtor/decision-records.jsonl` | append, path-bound append with rollback, read, export | written by most tools |
| Round map, paragraph history (`round_map.py`, `_history_*.py`) | none; cursors in the client's hands | capture, resolve, page | reads documents and records that may change meanwhile |
| Preflight and apply (`drafting.py`, `apply.py`, `counter_revisions.py`) | none between calls; the proof is in the client's hands | dry run, proof, rebuild, verify | ends in the document save |
| Revision decisions and inventory | none | accept, reject, list, select | preflight and apply |
| Comments (`_drafting_comments.py`) | `comments.xml`, anchors, thread entries, durable identities | add, update, reply, resolve, delete a message, reply or thread; clean an outgoing copy | preflight and apply, outgoing kits |
| Paragraphs, text, tables, numbering, bilingual, clean copy, cleanup, OOXML, verification | none | functions of one or two documents | preflight and apply |
| Server and contracts (`server.py`, `contracts.py`) | the answer being made | refuse, run the tool, check its result, record it, answer | everything |

What is hard here, and what makes each component correct:

* **Save and journal.** A kill or a power loss at any step, EIO from the replacing rename,
  failing fsyncs, Word opening the file between two checks, retries and reuse of an
  operation id, recovery running beside a late finish. Correct: the record is durable before
  the document changes; an id publishes once; records and answers are true now and later;
  what a save replaces is in its backup; a lost answer can be recovered.
* **Writer lock.** Recycled pids, zombies, unavailable process information, writers that
  know no flock. Correct: one saver at a time; the dead never block and leave no litter.
* **Stores of a deal.** Two tools share one lock and two files, effects (a kit) lie outside
  them, retries after an uncertain commit, unsynced names. Correct: what was answered ok
  lasts; what was refused did not happen; a request is recorded once; a kit stands on a
  durable plan and the positions that plan froze.
* **Stage folders.** Correct: a durable stage has a durable owner; only the dead's are swept.
* **Rounds.** Eighteen commands and a validator per group of them, written apart and for nine
  schema versions; records that point to other records, to another store, to journals and to
  live files. Correct: what commands build up can always be validated again; decisions stay
  with their text, kits and the final document with the basis they were previewed on.
* **Records journal.** Correct: strictly growing ids, no torn line is read, a rolled back
  publication leaves what it found.
* **Comments.** A message lives in four parts that only identifiers tie together, several
  authors work on a thread, and Word leaves half of deleted ones behind. Correct: an operation
  changes the message it names in all its parts, and no other; what was written can be
  deleted again by its author.
* **Server.** A call is a read of bytes that others change, an effect, a contract, a record and
  an answer, any of which may fail, and clients carry anchors and proofs from call to call.
  Correct: what is answered was so during the call; record, answer and folder do not
  contradict each other; a tool puts into the folder only what a client was shown.
* **Map and history.** Correct: pages of one cursor come from one capture, and any change in
  between is noticed.
* **Revision algorithms.** Correct: what accept, reject, inventory and verification compute
  agrees with a definition on revision trees.

The code lines where these bite are the `hazards` of `PROJECT.json`.

## 2. Plan

In order of importance; 1 to 10 exist.

1. `DraftingSave`, with `OperationLedger` as its abstract specification.
2. `WriterLock`, the lock that `DraftingSave` uses as one atomic lock.
3. `DealStore`, the storage protocol of both deal stores, snapshots and kits.
4. `DealRounds`: the commands of `mutate_deal_state`, which `DealStore` has as `Applicable`,
   over abstract documents, with `PositionHistory` for the positions and `FinalAgreement` as
   the abstract specification of finalization. All its properties are proved.
5. `RecordJournal`: appends of several processes, path-bound publication with rollback,
   readers; `RecordLog` is its abstract specification. All its properties are proved.
6. `RoundReading`, over the pure definitions of `RoundEvidence` and `ParagraphHistory`: capture,
   change, cursor, record. All its properties are proved but the half of `ReadingsAreTrue` that
   is about graphs and chains.
7. `Redline`: the revision algorithms of one paragraph against reference definitions: batches
   of edits and counter-revisions on a redlined paragraph, decisions, round trip, clean copy.
8. `Comments`, over `CommentThreads`: threads kept together over four parts.
   `ThreadsStayWhole` and `OperationsAreLocal` are proved.
9. `BodyStructure`, over `BodyParagraphs`, `ListNumbering` and `TableRows`: whole paragraphs
   and rows, proposed and decided, against what Word does with the same decisions.
10. `ToolCalls`, over `BatchDiagnosis`: the document tools of several servers on one folder, from
   preflight over apply to the decision record. All its properties are proved.
11. `StageCleanup`, not written: owner record, rename, sweep by another process. `DraftingSave` uses of it
   that a dead call's stage is removed with an fsync of the folder. Theorem: no live stage
   is removed, and a durable stage always has an owner record.

## 3. Modules

| Module | Models |
|---|---|
| `DraftingSave` | `publish_document` with `finish_journal`, `recover_operation`, `read_operation` |
| `OperationLedger` | abstract: what the journal promises of each operation id |
| `MCDraftingSave` | instances for `SaveShared`, `SaveLive`, `DirectoryLost` |
| `DraftingSaveProofs` | theorems: types, records, answers and refinement; lock, backup and disk |
| `WriterLock`, `MCWriterLock`, `WriterLockProofs` | `_writer_lock`, its instances, its theorems |
| `DealStore`, `MCDealStore`, `DealStoreProofs` | `_storage`, `_publish` and the two mutating tools, instances, theorems |
| `PositionHistory` | operators: `_change`, `_validate_store`, `_position_status` |
| `FinalAgreement` | abstract: a final document needs an agreement that stands |
| `DealRounds`, `MCDealRounds`, `DealRoundsProofs` | the commands of `mutate_deal_state` and their validators, sessions, theorems |
| `RecordLog` | abstract: what the decision-record journal promises |
| `RecordJournal`, `MCRecordJournal`, `RecordJournalProofs` | the writers and readers of the journal in `records.py`, an instance, theorems |
| `RoundEvidence` | operators: the round map, the trace of a paragraph |
| `ParagraphHistory` | operators: observations, limits and pages of a history, its counts, its record and the validation of both |
| `RoundReading`, `MCRoundReading`, `RoundReadingProofs` | capture, computation and cursor of both tools, sessions, theorems |
| `RedlineText` | data: a paragraph as the code reads it, a sequence of units with their revision wrappers |
| `TrackedEdits`, `DraftedText` | operators: the edits of a paragraph, counter-revisions and reinstatement, their selectors and the planning of a batch |
| `RevisionChoices` | operators: the inventory of change units, accept and reject, the round-trip check of a draft |
| `Redline`, `MCRedline` | a paragraph between the parties: batches of ours, decisions of ours, Word at the other end; an instance |
| `CommentThreads` | operators: the comments of a contract in their four parts, each operation on them, and the cleanup of an outgoing copy |
| `Comments`, `MCComments`, `CommentsProofs` | sessions of several authors on one contract; an instance, the theorems |
| `BodyParagraphs` | operators: paragraphs with pending marks and text: insertion, deletion, units, chains, text beside marks |
| `ListNumbering` | operators: what the code can prove of list labels, and how Word numbers |
| `TableRows` | operators: whole rows with their separators, proposed and decided |
| `BodyStructure`, `MCStructure` | structural batches of a document (`drafting._prepare`), how Word reads the same file; an instance |
| `BatchDiagnosis` | operators: readings, the refusals of a batch in their order, its diagnosis, the proof of a preflight |
| `ToolCalls`, `MCTools`, `ToolCallsProofs` | the calls of the document tools (`server.py`) with their records, an instance, theorems |

Definitions named `Mutant...` are plausible bugs, one per property of a run, used to show that the
property can fail; no specification uses them.

### DraftingSave

Every directory entry is a pair: as processes see it (`file`, `backup`, `prepared`,
`result`) and as a power loss would leave it (`disk`, ...). Rename, link and unlink change the
first, fsync copies it to the second, `PowerLoss` lets each unsynced entry survive or revert.
File contents are synced before they get their name, so an entry is old or new as a whole.
`pc[c]` follows one run of `publish_document`, one action between two points at which
another process or a kill can get in; `Unwind` and `FinishLate` are its `except` block,
which runs after both locks were given back. `RecoverOperation`, `RecoverDecide`,
`RecoverSync` are `recover_operation`, `ReadBegins/ReadEnds` any `read_operation`, which
writes nothing but holds the operation folder, so that a concurrent `finish` answers
"incomplete". The environment is Word (owner file, saves), the owner damaging a backup,
kills and power losses.

Assumptions and abstractions:
* `CandidatesIdentifyOperations`: a candidate embeds the preflight time (in seconds) and new
  revision ids, so two operations do not produce the same bytes and Word does not either.
* `CleanStage` lets the swallowed failure of a stage's cleanup remove the stage anyway: more
  behaviours than the code has.
* A torn `.journal-*.tmp` in an operation folder (`leftover`) makes the id unusable, a safe
  refusal that is kept as the code has it.
* Not modelled: saves with the journal disabled, the second lock of a copy into another
  folder, aliases of the source under another case, and checks of owner, mode and ACL. A
  failed check is one of the refusals.

### WriterLock

Processes are instances of two releases with a pid each; a killed process is a zombie until
it is reaped, and only then is its pid given away. Current writers take flock, sweep
temporaries, create, write and publish a sidecar by a no-replace rename, or judge and remove
the one in the way; legacy writers only create and remove the sidecar. `OwnerEnded` is the
proof of death: by instance for current owners, by `kill(pid, 0)` for legacy ones.
`infoFails`, chosen once, says whether the host lets process information be missing at any time. A dead legacy owner that
vanishes between `open` and the judgement costs a harmless `file_locked`. Not modelled:
replacing the folder, removing lock files by hand, reboots.

### DealStore

A store is written as a whole, so it is the sequence of the requests (positions: of the
changes) recorded in it, and its revision, a hash, is that sequence. `roundsOnDisk` and
`positionsOnDisk` are the versions a power loss may leave; one fsync of `.veqtor` settles
both. `folder` is the name of `.veqtor` itself. A call (`pc[c]`) runs from `_storage`'s mkdir
over lock, entry fsync, replay or decision, snapshot, effect, comparison, `os.replace` and
fsync to its answer; clients act on the stores as they last read them (`expected`), so a
revision conflict is a real race. `orphans`, `touched`, `folderLost` are history.

One round with its working document is followed; the working document does not change once
imported. Contents of positions, issues, working copies, cleanup policies and finalization
are not in this model but in `DealRounds`; every check that depends on them is a refusal
`Decide` may choose.
`round-documents` itself is a name in `.veqtor` that the entry fsync of the next writer
covers; leftover temporaries never block and are ignored.

### DealRounds

The store keeps its requests in order and one row per request in one of its collections, so
it is one sequence of rows, `requests`; a request id is an index in it, and the validators,
which replay the requests beside a growing prefix of the collections, become `Follows` on
every prefix. Rows are never changed, so a hash of rows is the set of their indices and a
revision of the positions is their history. A command is decided (`Propose`: candidate,
schema upgrade, validation), then its document is published and its row committed
(`CommitRow`, `PublishAndCommit`, `Abandon`). Other commands wait, the lock being
`DealStore`'s, but the user, Word and document operations run in between; the effects check
again (`StillCurrent`), as in the code. `sound` records whether a command that passed its own
checks was ever refused by a validator: `change` and `validate` state the same rules
twice, and where they differ a deal is blocked or its store unreadable.

Documents are model values: a set of them is revision-free, `Rendered` is what cleaning up
makes of one, and a review of live files is what it can tell (status of the working document,
outcome and output of each operation). Journals are what `DraftingSave` leaves: none,
prepared, or an outcome. A published kit is the path with its rendered document; the user may
move it away. Not modelled: quotes inside a paragraph, the forms the user fills in, limits on
the number and size of rows, and the issue brief.

`FinalizationImplemented` maps the rows of finalization to `FinalAgreement`. There an agreement is
current as long as no row of the negotiation follows it and no position changed, which
is not how the code decides it: the code compares hashes of four collections.

### RecordJournal

A journal file is a sequence of lines, a line a whole record or `Torn`. `pc[p]` follows one
call: an ordinary writer, which locks the workspace only while it makes and opens the files;
a path-bound one (`bind`), which keeps that lock, checks before it writes that every name
still shows what it opened, and takes back what it made when it fails (`RollBack`, from the
snapshot of what it found); an export, a read and the read of a map. The user may archive
the journal or rename the workspace, processes are killed, system calls fail.
`LogImplemented` maps each file to a log of `RecordLog`: no torn line, no lock, no rollback.

What the model shows and the code accepts: a reader that opened a journal which a
path-bound call has just created, and which needs no workspace lock for that, can read a
record that is rolled back afterwards from the unlinked file; a
torn line of an ordinary append makes the journal refuse all further calls.
`CheckAppend` merges two checks of the length of which the second cannot fail under the lock.
Not modelled: power loss (nothing here promises durable names), schemas and compact forms of
a record, the pages of a read, the search for journals of workspaces below.

### RoundReading

A file is its document and a stamp, renewed by every save: the inode, size, mtime and ctime
the code compares (that a save may leave all of them as they were is not modelled). A call
enumerates, opens and reads the files one by one, checks again, computes and
answers; between any two steps others save, replace, add and remove files and other tools
append records. `RoundEvidence` has the computation without time: which records derive
documents (`_effective_apply`), the graph around the folder's documents with its
cycles, the map's items, the walk of a history from document to document. `ParagraphHistory`
has what a history makes of that walk: the limits while documents are parsed and quoted,
observations with their reasons, pages by weight, the counts of the complete result, which
`_validate_result` demands again, and the record, which the journal's reader must take. Documents are records of paragraphs with their text and their text without revisions;
a digest is the value it is taken of.

The properties compare it with definitions of another form: `Reachable` and
`Connected` are least closed sets, `ChainEnds` enumerates all chains. Two places where the
documents of the repository put it more simply than the code does it: a history's cursor
binds file descriptors too, so that touching a file ends it (`UnrelatedChangesTolerated`
allows that), and with a declared order a changed set of candidates is
`invalid_round_order`, not `cursor_mismatch`. Limits are counted in paragraphs, units and
quoted texts instead of characters; of those that differ only in what they count one is
kept (`MaxParagraphs`, `MaxUnits`, `ObservationWeight`, `PageWeight`). Not modelled: file types,
links, the other limits, of a map all but its nodes; a map's `order` given as an empty list.

### Redline

`par` is one paragraph with its revisions, `answer` what the last call of ours was told. A
character of the model is a piece of text no edit cuts: the code's tokens, runs and offsets
are gone, what is left is which wrappers (insertion, deletion, of whom, with which id) a unit
is under and in which order units stand. A batch is planned as a whole on the paragraph it
found (`_plan`), every edit being selected by the text it was prepared on, and each edit is
rewritten in order; then the round trip is tested: rejecting ours must give back
what was found, and accepting ours what was asked for. Decisions take a set of change units
and settle them together. At the other end both parties
type and delete in Word with tracking on, and accept or reject all that is pending.

What the model shows and the code accepts: a counter-revision may strike in the middle of
an insertion, which leaves an insertion around a deletion that the decision tool and the
clean copy then refuse (`counter_unit_unsupported`); a strike directly before a
counterparty's deletion is refused by the round-trip check
(`adjacent_to_own_revision`), although nothing is wrong with it. The checks of reinstatement and
replacement do not compare authors. A paragraph without revisions is addressed as a paragraph
target, which a reading proof binds; one with revisions through its change unit, which none does.

A clean copy takes the revisions one by one, each time on what the last left (`SelectiveCopies`),
or, from `BatchMin` revisions on and where no revision needs its surroundings, in one pass with one
proof that undoes every patch (`OrdinaryBatch`). The code says 128, the run says two, so that
both ways meet the same paragraphs; `CleanCopyIsTheReading` asks that they agree.

Abstractions: whether the file is still the one the proof was made for is `DraftingSave`'s
concern; ids are unique for each wrapper, and the floor of 100 under new ids is left out;
only another author strikes inside an insertion (Word removes inserted text of its own
author at once). Not modelled: formatting, fields,
moves, revisions of rows, cells and whole paragraphs.

### Comments

`package` is what the comment parts of a DOCX say: bodies, thread entries (found by the
identifier of the body's paragraph), durable identities and their extensible entries, and in
`parts` which of these it has; `document` is one paragraph, a sequence of characters and
anchors, each in plain text or in somebody's pending insertion. `received` is what the file
was when the first session opened it. `CommentThreads` has each operation
as the set of what it can leave, empty when the code refuses; `Comments` takes them one after
the other, as a drafting batch does, with the author of any session. `_thread_metadata`,
which every operation runs first, is `Readable`; a deletion proves it of what it leaves.

The contracts the run starts from are what Word hands over, half deleted comments included:
an anchor without a body, an entry without a comment, a reply that quotes something else than
its root. `MCComments` gives each a name. `ContractsAssumption` asks that they are well
formed (numbers as identifiers, as `_thread_metadata` enforces) and that `_thread_metadata`
can read them, as every operation refuses the others.
`Withdrawable` leaves out what the tools do not touch (`plain`, `elsewhere`, payloads of
other programs, replies with a quotation of their own). The text is one paragraph and a quote lies inside it. Not modelled: the
escape of the text, initials and dates, the relationships and content types behind the parts
(a broken one is a refusal), comments of the notes and headers themselves, and the drafting
context check (`_require_drafting_context`), which `BodyStructure` has.

### BodyStructure

`doc` is the paragraphs of one container, the body or a table cell, and the rows of the
table behind it; a paragraph is its style, its own list, its children and the revisions of
its mark. An operation is the set of its results, empty when the code refuses.
`Prepared` is `drafting._prepare`: conflicts of the batch, then one operation after the
other on a state that says where the paragraphs and rows that were read stand now. What can
be decided (`Targets`) is what `read_document_revisions` offers. The reference has no
paragraphs: for Word (`WordView`) a document is a sequence of characters and marks, and a
decision removes or clears items.

Fields may span paragraphs, cells and rows. What is inserted, struck or decided must lie outside
all of them in a story whose fields are well formed: `DraftingContext` is asked of the paragraph an
operation names, `_main_context` (`InContext`) of a text's paragraph, of whatever a unit
leaves under either decision, of a chain and of the whole table of a row. A struck
paragraph must be a unit whose labels can be shown, or the draft is refused. `Prepared` starts with the
settings, which must be understood and unrestricted, and turns tracking on after any
operation but decisions alone.

What the model shows and the code accepts: rejecting a paragraph that the counterparty
inserted after its anchor leaves the anchor with its own properties, where
`paragraph_structure_outcome` says it retains those of the surviving mark and Word would
take the other ones (`ReformatsAnchor`; ours inherit, and there is no difference). Two pending
insertions side by side in the body cannot be decided by the tool in any order.

Abstractions: a run, a bookmark, a comment range and a field are one child or a pair of ends (the
separator and the instruction of a field lie between them); a table
has two columns; ids are counted from one. Lists have one level, as `_Resolver` proves no
others. Not modelled: section breaks, moves and permissions, drafting of text in the same batch (`Redline`
and `DraftedText` have it), decisions on properties and table geometry.

### ToolCalls

`folder` says which document each path holds, `call[s]` is the one call a server process is in:
its arguments, where it is, its outcome, and whether it has been recorded. A call begins with
arguments a client can have (anchors and proofs out of earlier answers, `read` and `proofs`, of any
server), reads the bytes of its document once, and derives all it says from them; `list_rounds`
enumerates the folder and then reads one document after the other; `apply_edits` looks for
its output, prepares the candidate as the preflight does, compares the proof and publishes
by a link that replaces nothing. `FailContract` is `_validated_success_result` in front of the
record, `FailUnexpectedly` the handler of `_run_tool_boundary`, `RefuseCall` what is refused
before it. Between any two steps other servers work, Word saves, the user removes documents;
system calls fail and servers are killed. `held` and `put` are history: what each path has been
since the call began, and what the call itself has put into the folder.

A document is a draft that Word saved with the batches applied to it since, which is what its
hash stands for; a reading is a set of wordings. `Stages` are the refusals of
`_prepare_candidate` in their order with the edits each would stop at, `Diagnosis` what
`_preflight_failure_result` makes of the first. Which candidates fail their round trip is
`Redline`'s subject and a parameter here (`Unprovable`). The journal is one sequence and an
append that fails may have left its record (`RecordJournal` has the steps). A record carries the
facts of its tool's provenance: the document read and the verdict, the batch, its author, whether it
was applicable and what it made; `TrueRecord` recomputes them from the documents they name. An internal error
or a broken contract may come after the publication, so they alone leave open whether an
output was made.

Not modelled: schemas, sizes and pages of results, the fields of anchors other than the document
they name, author profiles, and the tools over whole rounds (`RoundReading`), stores
(`DealStore`) and saves in place (`DraftingSave`).

## 4. Runs

All runs but `deal_rounds` and `redline` allow deadlock: the calls (in `comments` the
operations, in `structure` the saves) are finitely many, and once they have ended the system stops. In `deal_rounds` the user can always save, in
`redline` Word can always write on or settle what is pending.

| Run | Bounds | Shows |
|---|---|---|
| `save_shared` | an in-place save with one other call at a time: its retry (one Word session, two faults: kill, power loss, damaged backup), a copy that reuses its id, or a save on top of it (a Word session or a fault); one recoverer; failing fsyncs | all records, answers and backups are right, and the ledger is implemented |
| `save_live` | the save and the copy, one recoverer, one Word session, one fault; fsync works; fairness | a certified publication never outlives the publication itself; saves end, recovery ends |
| `directory_lost` | one fault between `mkdir` and its fsync | **violated**: see below |
| `lock_shared` | three current and two legacy processes on two pids; on hosts where process information may fail and on hosts where it does not | mutual exclusion; where information is available the dead neither block nor leave readable temporaries |
| `store_shared` | four calls, two at once, seven commands (one sent under a wrong id), from an empty folder or a started round; one power loss | everything the stores promise |
| `deal_rounds` | five sessions: two rounds; an issue with an operation; working copies with two operations; kits of an imported document; finalization. Five to seven requests, each command once or twice, three position events | commands and validators agree; decisions, links and kits keep their basis; finalization is implemented |
| `journal_shared` | three calls of any kind on any journal an earlier call can leave; three lines, three files, two faults, one move of the user | ids grow, no torn line is read, a failed path-bound call leaves nothing, the log is implemented |
| `round_reading` | quiet sessions: every graph of three records over four documents, one record with each mixture of facts, every history of three documents out of nine, among them ones without a projection or whose units cannot be extracted; busy ones: two calls, two changes | pages of one cursor are one result, a history is one moment, unrelated changes end nothing, graph and trace are the defined ones, a history's counts are so and its record can be written |
| `redline` | a paragraph of two characters, Word types a third; work goes on while two revisions are pending, decisions are taken while three are; ids up to 5; batches of one and two | decisions settle what they name and nothing else, whatever the order; our edits can be rejected; the checks after an edit never fail on what was planned; the clean copy, taken one by one or from two revisions on in one pass, is the reading |
| `comments` | two authors, three operations of any kind, from five contracts: without comments; with a modern thread of two authors; with a classic comment and what Word left of two others; with a task and a comment in a header; with a reply that quotes what its root does not | threads stay whole, an operation touches what it names, what was written can be taken back |
| `structure` | fifteen documents of up to five paragraphs or four rows: pending marks of both kinds, two lists of one definition, one unproved; fields over paragraphs, in a cell, over rows, unclosed; every setting; two saves, the first of one or two operations | batches leave what Word would leave and propose what was asked for; the labels shown are Word's; a proposal stays whole, lies in no field and is tracked |
| `tool_calls` | two servers of two authors, one of them recording; two paths, one empty; three calls, of which one preflight and two applies or another tool; three batches; a save or removal; a failure or kill | answers are true, records agree with them and with the documents they name, outputs are what was previewed |

Why the bounds suffice: two calls and a recoverer already give every pair that shares a lock or
a record, and two faults are a kill plus the power loss that makes it matter; `OneOther` keeps
a third call out and, next to a call with another plan, a second disturbance. With two pids for five processes every pid is
recycled and shared by both releases. Four calls are a plan, a publication or a retry, and two more
that disturb them; the started opening spares the two that set up the round. `StateView`
drops what ended calls have read and the answers no property looks at. The sessions of
`deal_rounds` put together the commands whose rows refer to each other; commands of
different sessions meet only through the rows all of them read (`Working`, `Negotiated`),
and each session has one that adds such a row at any moment.
A decision on a change with its counter-revision takes three revisions at most, and a
conflict inside a batch takes two edits.
A rollback meets at most one writer between its two locks and one reader of what it takes
back: three calls. Two operations of a batch move or join each
other's paragraphs, a second save decides what the first proposed.
Three operations are a comment, a reply and a deletion, or two replies and one
of the two taken back; more of the same kind meet the same identifiers. A preflight and two applies of its
proof, or an apply and a question about what it left, are the calls that can meet over one
output; the document changes between any two steps once. A cursor needs two calls and a change between or during them; a page weight
of four and page sizes of one to five cut every result in the middle; a `MaxNodes` of
three makes the largest graphs exceed the limit.

Liveness (`save_live`) assumes `FairSpec`: running calls and recoveries take their next step
(they are threads of a running server, and no lock in the code waits without a limit),
readers let go, Word is closed in the end, and the client keeps asking for recovery as the
tool tells it to; strong fairness is needed for the latter since locks come and go.

### What the violated run says

* `directory_lost`: `_child` (`operation_journal.py`) fsyncs the parent only in the call that
  makes the folder. If that call is killed, or the fsync fails, the folder exists and nobody
  syncs its name again; the records in it can vanish in a power loss after the document was
  published. The documents state that the record is durable before publication. `_storage`
  (`positions.py`) makes `.veqtor` in the same way: `DealStore` has it (`folder`), and its
  properties say what holds while the folder is there.

The stores have the same weakness once more: `_store_snapshot` reuses a snapshot left by a call
that ended before its fsync, and the role recorded on it can be on disk without it, although
`DEAL_STATE.md` says that snapshot publication precedes role publication. `StateResolves`
names that exception.

The properties of the passing runs name these exceptions: `DirectoryFaults = FALSE`,
`folderLost` and `orphans`.

## 5. Proofs

The theorems hold for any number of calls, processes, requests, contents and faults.

* **DraftingSave.** `SaveInv` is inductive together with `TypeOK`. Its core is that both
  records are created and never replaced: a durable record is the visible one
  (`RecordsKept`), a call past `prepare` has its own (`CommittedHasRecord`), the flags of a call are exact or say unknown
  (`OutcomeExact`), a result is true when written (`ResultsTrue`, `EvidenceConclusive`), and
  candidate bytes come only from publications (`ContentExplained`), which is why recovery may
  conclude from them. The lock is not needed for any of this. From it follow
  `PreparedFirst`, `PublishedOnce`, `StatementsAreTrue`, `WrittenStays` and
  `ImplementsLedger` (each step of the detailed system is a step of the ledger or a
  stutter). They assume `~DirectoryFaults`; `directory_lost` shows that they must.
  `NothingIsLost` needs the lock: `GuardInv` says that it excludes and that what its holder
  checked still stands when it publishes.
  `SavedStaysOnDisk` from `VerifiedOnDisk`: a call verifies what it had synced before, and
  every later change of the document bears another name. `CertificatesStayOnDisk` is about
  conclusions that a recovery drew from the bytes alone: a call whose publication is not
  on the disk still has its stage (`StageUntilSynced`), and a recovery removes that, which syncs
  the folder, before it concludes anything. It assumes that no fsync and no mkdir fails.
* **WriterLock.** `Exclusion` from `LockInv`: who saves is alive and its sidecar is in place;
  a writer removes only a sidecar whose owner has ended, and nobody comes back.
  `TheDeadAreSwept` from `LeftInv`: while a current writer lives, its sidecar means that it is
  inside (`SidecarsOfHolders`), so the one the next holder of flock judges has a dead owner,
  stays until it is removed and is followed by an earlier release's only
  (`DeadSidecarsYield`); and where process information can be had only the holder has a
  complete temporary after the sweep (`TemporariesSwept`).
* **DealStore.** Type correctness and all six properties of `store_shared` are proved, three of them as conjunctions of named parts. `StoreInv`: exactly
  the lock's holder is between locking and answering (`LockHeld`); from its entry fsync to its own
  replacement it works on stores with a single version on disk, which are still the ones it
  read (`WorksOnDisk`); so what it decided stays true (`DecidedStays`), a kit is created
  with its plan in the only version there is, and a replayed request is durable. Refusals, kits and
  snapshots each need one more invariant (`TouchedAnswers`, `KitsBehindPublications`,
  `SnapshotsAccounted`).

* **DealRounds.** All five properties of `deal_rounds`, from `DealInv`. Every row is
  `Grounded`: the request it refers to is an earlier row of its round and of the right
  collection, and what it copied from the store (documents, paths, links, earlier events of its
  issue) is there still. A command that was accepted, `pending`, is grounded in the store that
  it will be appended to and follows from it (`PendingStands`): other commands wait for the
  lock, and the user and document operations touch no store. Since rows are only appended,
  each operator that a validator looks at keeps its value for the rows it was used on
  (`GroundedStays`), which is why what `change` checked is what `validate` finds
  (`ValidWithRow`), at every schema version (`UpgradeSuffices`). A kit's basis names the last
  working version and the last event of each issue, so a later row of either would be in it
  (`NothingSincePreview`); an agreement names all negotiated rows, so none can follow it while
  it stands (`StandsIsCurrent`), and each committed row is a step of `FinalAgreement` or a
  stutter. That an index is the greatest of a set rests on the well-foundedness of `Nat`.
* **RecordJournal.** `JournalInv`: a lock excludes (`Exclusive`), a call knows what it holds
  and what it read under it (`AtWork`), and every file is a sound log with at most one torn
  line, its last (`Sound`). From it follow `TypeOK` and `JournalWellFormed`. `TraceInv` adds
  where lines of a call can be (`Trace`): none before its append, then only behind its scan
  in the file it holds, and none in the journal once it was taken back, which gives `FailedBindingsLeaveNothing` and,
  action by action, `ImplementsLog`.
* **ToolCalls.** All three properties of `tool_calls`, from `CallInv`. `Sound` says of an open
  call what it may rely on: its documents are among what their paths have held, a candidate on its
  way out is that of its source, its edits and its server's author, and fits a proof that a client
  has; `held` makes this stable, as whatever others do only adds to it. Calls are numbered
  apart (`Numbered`), so a record with a call's number is its own (`JournalInv`, `Ledger`), and an
  export is the journal up to its own access event however others append behind it
  (`ExportHolds`). What an outcome will say in its record is true when it is decided, since its
  facts are of contents and not of paths, and stays so (`TrueOnceTold`). `DiagnosisIsTrue` is the lemma about the operators: an edit that a dry run calls
  planned or applicable is anchored to the bytes it read, and all are applicable exactly if no stage
  stops.
* **RoundReading.** `HistoryIsOneMoment` from `RInv`: versions never exceed the clock
  (`FolderOk`), a file that still has the stamp it was read with holds what was read
  (`CaptureOk`), and the files looked at again had it after the last was read (`CheckedOk`).
  `PagesAreOneResult` from `PInv`: the binding of a cursor contains the complete result, so a page
  that a cursor is accepted for is cut from the result its first page was cut from; and a result is a
  nonempty sequence, since what it lists is finite: the graph of a map stays within the
  folder's documents and those that records name. `UnrelatedChangesTolerated` adds `BInv`, that
  the cursor is bound to what `shown` says of it: the graph is closed under `Connected`
  (`ConnectedIsClosed`), so records appended about other documents leave its rounds, and
  with them the evidence and the items, as they were (`SameRounds`, `SameEvidence`). The recursive
  function `Rounds` is unfolded once, through its finite approximations (`RoundsUnfold`); the
  inductions are over sets of numbers, with the library's `NatLessThanWellFounded`.
  `HistoriesCountTruly` and `HistoriesCanBeRecorded` say the history half of `ReadingsAreTrue`. A
  trace is unfolded document by document (`TraceUnfolds`, `TracesAreOk`): going down, each step
  follows from the one above (`FollowsStep`), so after the first position without a selected
  paragraph all are blocked, and the positions of each kind are intervals that can be counted
  (`GoodCounts`). That the seed is in its document and read last is `SeedOk`; with it the items of a
  history have the fields the record's validation asks for (`RecordsAreValid`), and
  `_validate_result` never refuses (`HistoryAnswer`).

* **Comments.** `ThreadsStayWhole` from `Whole`: package and document are well formed, what is
  anchored is a comment or an orphan, orphans stay anchored (so no new identifier is theirs), and
  anchored messages quote what their root quotes unless they came otherwise. An operation
  keeps the pieces of the document it does not add or remove, in their order (`Carries`, from
  `Flat`: what `FlattenSeq` returns is its parts laid end to end), and anchors that correspond one
  to one, with as much text before each, quote the same (`Matches`, `MatchedStory`). In the
  package, a new identifier is in no part (`UnusedFacts`, `NewIdFacts`), so a new entry neither
  gives nor takes a parent, and an operation that keeps the way up from a message keeps its root
  (`SameRoots`). `Root` climbs as many steps as there are comments; that this reaches the top
  whenever the climb has one is the pigeonhole argument of `TopIsNear`. `OperationsAreLocal` is
  an action property from the same invariant: each operation is taken once, to be `Safe`
  (`Whole` after it, and `Local`). The package `Continues`, with the same authors, texts, roots and flags
  but for those the operation names, through the two steps of a reply or a resolution
  (`SeenCompose`); and a document with other anchors reads the same (`SameText`), since the
  places that are kept can be numbered in order in one way only (`OneNumbering`).

Types are proved, not run; so is `JournalWellFormed`, which the refinement of `RecordLog` subsumes. Only model-checked are:
* `RecoveryCompletes` and `CallsEnd`: liveness is out of the prover's reach;
* the properties of `redline` and `structure`, and the parts `MapGraphIsTrue` and
  `TraceIsOnlyChain` of `ReadingsAreTrue` of `round_reading`: they compare folds and recursive functions over the members of a sequence,
  paragraphs or pages with a reference definition, which takes induction over data;
* `Withdrawable` of `comments`: it says which calls are not refused, and so depends on more of
  what is received than `ContractsAssumption` asks.

`CertifiedIsDurable` holds only as long as fsync works, since `recover_operation` itself never
syncs the document folder: the removal of the dead call's stage does.

## 6. Not modelled

Besides the plan: the parsing and projection of DOCX packages, table geometry, the bilingual view, formatting (functions of one immutable document),
the comparison of an incoming version, the schemas of the server,
SharePoint property parts, test data, scripts, packaging and the web site. Reads of the deal
stores do not sync: a client that rereads the revision after `commit_uncertain` sees a change
that is durable only once the next writer has entered. No answer of a read promises more.
