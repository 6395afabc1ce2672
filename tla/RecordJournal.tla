----------------------------- MODULE RecordJournal -----------------------------
(***************************************************************************)
(* The decision-record journal of a workspace, records.py: the folder      *)
(* .veqtor with its .gitignore and decision-records.jsonl, written by      *)
(* several server processes.                                               *)
(*                                                                         *)
(* Two flocks serialise them, always taken in this order: one on the       *)
(* workspace folder, one on the journal file.  An ordinary writer holds    *)
(* the first only while it creates and opens the files; in between it      *)
(* holds neither.  A path-bound writer (round map, paragraph history) and  *)
(* an export keep the first until they end.  A path-bound writer that      *)
(* fails takes back whatever it created or wrote.                          *)
(*                                                                         *)
(* A line is a whole record; a write that stops halfway leaves a Torn one. *)
(* Waiting for a lock ends in journal_busy after a second, so it may end   *)
(* so whenever the lock is taken.                                          *)
(***************************************************************************)
EXTENDS Sequences, Integers, FiniteSets

CONSTANTS
    Proc,          \* calls, one per server process
    Initial,       \* what earlier calls left: see Leftover
    MaxFiles,      \* journal files that may come into being
    MaxLines,      \* MAX_JOURNAL_BYTES: lines a journal may hold
    MaxFaults,     \* bound on failing system calls and killed processes
    MaxMoves,      \* bound on what the user does in the file manager
    Earlier        \* the author of the records found at the start

ASSUME BoundsAreNumbers ==
    /\ MaxFiles \in Nat \ {0} /\ MaxLines \in Nat
    /\ MaxFaults \in Nat /\ MaxMoves \in Nat
ASSUME EarlierIsNoCall == Earlier \notin Proc

VARIABLES
    sidecar,     \* whether the folder .veqtor exists
    ignore,      \* whether its .gitignore exists
    journal,     \* the file its journal name shows, 0 for none
    lines,       \* [file -> its lines]
    made,        \* how many journal files there have been
    moved,       \* whether the workspace path names another folder by now
    kind,        \* what each call does
    pc,          \* where each call is
    root,        \* its lock on the workspace folder
    held,        \* its lock on the journal file it opened
    file,        \* that file, 0 for none
    scan,        \* the lines it read under the lock
    snap,        \* what a path-bound call found: see Snapshot
    code,        \* why it fails
    answer,      \* what the call returned
    stuck,       \* calls whose rollback failed
    faults, moves

fileVars == <<sidecar, ignore, journal, lines, made, moved>>
callVars == <<kind, pc, root, held, file, scan, snap, code, answer, stuck>>
journalVars == <<fileVars, callVars, faults, moves>>

File == 1 .. MaxFiles
Torn == [id |-> 0, by |-> Earlier, tool |-> "none"]

Tool(k) == CASE k = "write" -> "apply_edits"
             [] k = "bind" -> "map_rounds"
             [] k = "export" -> "export"
             [] OTHER -> "none"
Record == [id : Nat \ {0}, by : Proc \cup {Earlier},
           tool : {"apply_edits", "map_rounds", "export"}]

Kinds == {"write", "bind", "export", "read", "map"}
Writers == {"write", "bind", "export"}
Modes == {"none", "shared", "exclusive"}
Places == {"start", "root", "sidecar", "ignore", "open", "snapshot", "bind_sidecar",
           "bind_journal", "reopen", "file", "bind_ignore", "append", "write",
           "appended",
           "rollback", "undo", "done"}

HighestId(log) == IF log = <<>> THEN 0 ELSE log[Len(log)].id
IsTorn(log) == log # <<>> /\ log[Len(log)] = Torn
\* The records of a file: all its lines but one that was cut short.
Whole(log) == IF IsTorn(log) THEN SubSeq(log, 1, Len(log) - 1) ELSE log

View(k, log) ==
    SelectSeq(log, LAMBDA r : IF k = "map" THEN r.tool = "apply_edits"
                                           ELSE r.tool # "export")

Pending == [status |-> "none", seen |-> <<>>]
Absent == [sidecar |-> FALSE, ignore |-> FALSE, journal |-> FALSE, eof |-> 0]
OnePast == [id |-> 1, by |-> Earlier, tool |-> "apply_edits"]

\* What interrupted and completed calls may leave in a workspace.
Leftover ==
    {[s |-> FALSE, i |-> FALSE, j |-> 0, l |-> <<>>],
     [s |-> TRUE, i |-> FALSE, j |-> 0, l |-> <<>>],
     [s |-> TRUE, i |-> TRUE, j |-> 0, l |-> <<>>],
     [s |-> TRUE, i |-> FALSE, j |-> 1, l |-> <<>>],
     [s |-> TRUE, i |-> TRUE, j |-> 1, l |-> <<OnePast>>]}

ASSUME InitialIsLeftover == Initial \subseteq Leftover

TypeOK ==
    /\ sidecar \in BOOLEAN /\ ignore \in BOOLEAN /\ moved \in BOOLEAN
    /\ made \in 0 .. MaxFiles /\ journal \in 0 .. made
    /\ lines \in [File -> Seq(Record \cup {Torn})]
    /\ kind \in [Proc -> Kinds]
    /\ pc \in [Proc -> Places]
    /\ root \in [Proc -> Modes] /\ held \in [Proc -> Modes]
    /\ file \in [Proc -> 0 .. made]
    /\ scan \in [Proc -> Seq(Record)]
    /\ snap \in [Proc -> [sidecar : BOOLEAN, ignore : BOOLEAN, journal : BOOLEAN,
                          eof : Nat]]
    /\ code \in [Proc -> {"none", "busy", "changed", "corrupt", "oversize", "internal"}]
    /\ DOMAIN answer = Proc
    /\ \A p \in Proc : answer[p].status \in {"none", "disabled", "written",
                                             "write_failed", "read", "refused"}
    /\ stuck \in SUBSET Proc
    /\ faults \in 0 .. MaxFaults /\ moves \in 0 .. MaxMoves

Init ==
    /\ \E left \in Initial :
          /\ sidecar = left.s /\ ignore = left.i /\ journal = left.j /\ made = left.j
          /\ lines = [f \in File |-> IF f = left.j THEN left.l ELSE <<>>]
    /\ moved = FALSE
    /\ kind \in [Proc -> Kinds]
    /\ pc = [p \in Proc |-> "start"]
    /\ root = [p \in Proc |-> "none"] /\ held = [p \in Proc |-> "none"]
    /\ file = [p \in Proc |-> 0] /\ scan = [p \in Proc |-> <<>>]
    /\ snap = [p \in Proc |-> Absent] /\ code = [p \in Proc |-> "none"]
    /\ answer = [p \in Proc |-> Pending]
    /\ stuck = {} /\ faults = 0 /\ moves = 0

--------------------------------------------------------------------------------
(* Steps of a call.                                                        *)

Fails == faults < MaxFaults /\ faults' = faults + 1
Works == UNCHANGED faults

Goto(p, there) == pc' = [pc EXCEPT ![p] = there]

\* Returning releases both locks.
Return(p, status, seen) ==
    /\ Goto(p, "done")
    /\ answer' = [answer EXCEPT ![p] = [status |-> status, seen |-> seen]]
    /\ root' = [root EXCEPT ![p] = "none"] /\ held' = [held EXCEPT ![p] = "none"]
    /\ UNCHANGED <<kind, file, scan, snap>>

\* An exception becomes write_failed for a writer, and for an export whose
\* response is ready; otherwise the tool refuses.
Raise(p, why) ==
    /\ code' = [code EXCEPT ![p] = why]
    /\ UNCHANGED stuck
    /\ IF kind[p] \in {"write", "bind"} THEN Return(p, "write_failed", <<>>)
       ELSE IF pc[p] \in {"append", "write", "appended"}
            THEN Return(p, "write_failed", View("export", scan[p]))
            ELSE Return(p, "refused", <<>>)

\* The append counts as attempted only once it has succeeded.
MutantRefuse(p, why) ==
    IF kind[p] = "bind" /\ pc[p] \notin {"start", "root", "snapshot"}
    THEN /\ code' = [code EXCEPT ![p] = why]
         /\ Goto(p, IF pc[p] = "appended" THEN "undo" ELSE "rollback")
         /\ UNCHANGED <<kind, root, held, file, scan, snap, answer, stuck>>
    ELSE Raise(p, why)

\* A path-bound call rolls back before it raises.
Refuse(p, why) ==
    IF kind[p] = "bind" /\ pc[p] \notin {"start", "root", "snapshot"}
    THEN /\ code' = [code EXCEPT ![p] = why]
         /\ Goto(p, IF pc[p] \in {"append", "write", "appended"} THEN "undo" ELSE "rollback")
         /\ UNCHANGED <<kind, root, held, file, scan, snap, answer, stuck>>
    ELSE Raise(p, why)

RootCompatible(p, mode) ==
    \A q \in Proc \ {p} : \/ root[q] = "none"
                          \/ mode = "shared" /\ root[q] = "shared"
\* Readers take no lock on the file.
MutantFileCompatible(p, mode) ==
    mode = "shared" \/ \A q \in Proc \ {p} : file[q] # file[p] \/ held[q] = "none"
FileCompatible(p, mode) ==
    \A q \in Proc \ {p} : \/ file[q] # file[p] \/ held[q] = "none"
                          \/ mode = "shared" /\ held[q] = "shared"
RootMode(p) == IF kind[p] = "map" THEN "shared" ELSE "exclusive"
FileMode(p) == IF kind[p] \in {"map", "read"} THEN "shared" ELSE "exclusive"

\* VEQTOR_DISABLE_DECISION_RECORD, or a workspace inside private storage:
\* writers skip the journal, an export becomes a plain read.
Disabled(p) ==
    /\ pc[p] = "start" /\ kind[p] \in Writers
    /\ kind[p] = "export" => journal # 0
    /\ UNCHANGED <<fileVars, faults, moves>>
    /\ IF kind[p] = "export"
       THEN /\ kind' = [kind EXCEPT ![p] = "read"]
            /\ UNCHANGED <<pc, root, held, file, scan, snap, code, answer, stuck>>
       ELSE Return(p, "disabled", <<>>) /\ UNCHANGED <<code, stuck>>

\* The workspace is resolved; an export first requires a journal to be there;
\* a plain read opens the journal without the workspace lock.
Start(p) ==
    /\ pc[p] = "start"
    /\ UNCHANGED <<fileVars, faults, moves>>
    /\ \/ moved /\ Raise(p, "changed")
       \/ ~moved /\ kind[p] = "export" /\ journal = 0 /\ Raise(p, "changed")
       \/ /\ ~moved /\ kind[p] = "read"
          /\ \/ journal = 0 /\ Return(p, "read", <<>>) /\ UNCHANGED <<code, stuck>>
             \/ /\ journal # 0
                /\ file' = [file EXCEPT ![p] = journal] /\ Goto(p, "file")
                /\ UNCHANGED <<kind, root, held, scan, snap, code, answer, stuck>>
       \/ /\ ~moved /\ kind[p] # "read" /\ (kind[p] = "export" => journal # 0)
          /\ Goto(p, "root")
          /\ UNCHANGED <<kind, root, held, file, scan, snap, code, answer, stuck>>

LockRoot(p) ==
    /\ pc[p] = "root" /\ RootCompatible(p, RootMode(p))
    /\ root' = [root EXCEPT ![p] = RootMode(p)]
    /\ Goto(p, CASE kind[p] = "write" -> "sidecar" [] kind[p] = "bind" -> "snapshot"
                 [] OTHER -> "reopen")
    /\ UNCHANGED <<kind, held, file, scan, snap, code, answer, stuck>>
    /\ UNCHANGED <<fileVars, faults, moves>>

\* The absolute deadline passed while the lock was taken.
Busy(p) ==
    /\ \/ pc[p] = "root" /\ ~RootCompatible(p, RootMode(p))
       \/ pc[p] = "file" /\ ~FileCompatible(p, FileMode(p))
    /\ Refuse(p, "busy")
    /\ UNCHANGED <<fileVars, faults, moves>>

\* mkdir .veqtor, then fsync of the workspace; when that fails the new folder
\* is removed again.
MakeSidecar(p) ==
    /\ pc[p] \in {"sidecar", "bind_sidecar"}
    /\ UNCHANGED <<ignore, journal, lines, made, moved, moves>>
    /\ \/ /\ Works /\ sidecar' = TRUE
          /\ Goto(p, IF pc[p] = "sidecar" THEN "ignore" ELSE "bind_journal")
          /\ UNCHANGED <<kind, root, held, file, scan, snap, code, answer, stuck>>
       \/ /\ Fails /\ ~sidecar /\ sidecar' \in BOOLEAN
          /\ Refuse(p, "internal")

\* _ensure_private_gitignore.  When the fsync after the rename fails the name
\* is removed again.
EnsureIgnore(p) ==
    /\ pc[p] = "ignore"
    /\ UNCHANGED <<sidecar, journal, lines, made, moved, moves>>
    /\ \/ /\ Works /\ ignore' = TRUE /\ Goto(p, "open")
          /\ UNCHANGED <<kind, root, held, file, scan, snap, code, answer, stuck>>
       \/ Fails /\ ~ignore /\ UNCHANGED ignore /\ Refuse(p, "internal")

\* A new journal file, or the one that is there.
NewJournal(p) ==
    /\ journal = 0 /\ made < MaxFiles
    /\ made' = made + 1 /\ journal' = made + 1
    /\ file' = [file EXCEPT ![p] = made + 1]
FoundJournal(p) ==
    /\ journal # 0
    /\ file' = [file EXCEPT ![p] = journal]
    /\ UNCHANGED <<made, journal>>

\* The open ends the workspace lock of an ordinary writer.
OpenForAppend(p) ==
    /\ pc[p] = "open"
    /\ UNCHANGED <<sidecar, ignore, lines, moved, moves>>
    /\ \/ /\ Works /\ (NewJournal(p) \/ FoundJournal(p))
          /\ root' = [root EXCEPT ![p] = "none"] /\ Goto(p, "file")
          /\ UNCHANGED <<kind, held, scan, snap, code, answer, stuck>>
       \/ Fails /\ journal = 0 /\ UNCHANGED <<made, journal>> /\ Refuse(p, "internal")

\* What a path-bound call will have to restore.
TakeSnapshot(p) ==
    /\ pc[p] = "snapshot"
    /\ snap' = [snap EXCEPT ![p] =
                  [sidecar |-> sidecar, ignore |-> ignore, journal |-> journal # 0,
                   eof |-> IF journal = 0 THEN 0 ELSE Len(lines[journal])]]
    /\ file' = [file EXCEPT ![p] = journal]
    /\ Goto(p, IF sidecar THEN "bind_journal" ELSE "bind_sidecar")
    /\ UNCHANGED <<kind, root, held, scan, code, answer, stuck>>
    /\ UNCHANGED <<fileVars, faults, moves>>

\* O_EXCL: a journal that appeared since the snapshot refuses the call.
BindJournal(p) ==
    /\ pc[p] = "bind_journal"
    /\ UNCHANGED <<sidecar, ignore, lines, moved, moves>>
    /\ \/ /\ snap[p].journal /\ Works /\ UNCHANGED <<made, journal>>
          /\ Goto(p, "file")
          /\ UNCHANGED <<kind, root, held, file, scan, snap, code, answer, stuck>>
       \/ /\ ~snap[p].journal /\ Works /\ NewJournal(p) /\ Goto(p, "file")
          /\ UNCHANGED <<kind, root, held, scan, snap, code, answer, stuck>>
       \/ /\ ~snap[p].journal /\ Fails /\ UNCHANGED <<made, journal>>
          /\ Refuse(p, "internal")

\* An export and a round map open what is there; the export restores the
\* .gitignore first and never creates a journal.
Reopen(p) ==
    /\ pc[p] = "reopen"
    /\ UNCHANGED <<sidecar, journal, lines, made, moved, moves>>
    /\ \/ /\ kind[p] = "map" /\ journal = 0 /\ Works /\ UNCHANGED ignore
          /\ IF moved THEN Raise(p, "changed")
             ELSE Return(p, "read", <<>>) /\ UNCHANGED <<code, stuck>>
       \/ /\ kind[p] = "export" /\ journal = 0
          /\ Works /\ ignore' = sidecar /\ Raise(p, "changed")
       \/ /\ journal # 0 /\ Works
          /\ ignore' = (ignore \/ kind[p] = "export")
          /\ file' = [file EXCEPT ![p] = journal] /\ Goto(p, "file")
          /\ UNCHANGED <<kind, root, held, scan, snap, code, answer, stuck>>
       \/ /\ kind[p] = "export" /\ ~ignore
          /\ Fails /\ UNCHANGED ignore /\ Raise(p, "internal")

\* The whole file is read and validated under the lock; readers return here.
LockAndScan(p) ==
    LET log == lines[file[p]] IN
    /\ pc[p] = "file" /\ FileCompatible(p, FileMode(p))
    /\ UNCHANGED <<fileVars, faults, moves>>
    /\ \/ /\ kind[p] = "bind" /\ snap[p].journal /\ Len(log) # snap[p].eof
          /\ Refuse(p, "changed")
       \/ /\ (kind[p] = "bind" /\ snap[p].journal) => Len(log) = snap[p].eof
          /\ \/ IsTorn(log) /\ Refuse(p, "corrupt")
             \/ /\ ~IsTorn(log) /\ kind[p] = "map" /\ moved
                /\ Raise(p, "changed")
             \/ /\ ~IsTorn(log) /\ kind[p] \in {"read", "map"}
                /\ kind[p] = "map" => ~moved
                /\ Return(p, "read", View(kind[p], log)) /\ UNCHANGED <<code, stuck>>
             \/ /\ ~IsTorn(log) /\ kind[p] \in Writers
                /\ held' = [held EXCEPT ![p] = "exclusive"]
                /\ scan' = [scan EXCEPT ![p] = log]
                /\ Goto(p, IF kind[p] = "bind" /\ ~snap[p].ignore
                           THEN "bind_ignore" ELSE "append")
                /\ UNCHANGED <<kind, root, file, snap, code, answer, stuck>>

BindIgnore(p) ==
    /\ pc[p] = "bind_ignore"
    /\ UNCHANGED <<sidecar, journal, lines, made, moved, moves>>
    /\ \/ /\ Works /\ ignore' = TRUE /\ Goto(p, "append")
          /\ UNCHANGED <<kind, root, held, file, scan, snap, code, answer, stuck>>
       \/ Fails /\ UNCHANGED ignore /\ Refuse(p, "internal")

\* The access events, which no reader is shown, are not counted.
OwnRecord(p) ==
    [id |-> HighestId(scan[p]) + 1, by |-> p, tool |-> Tool(kind[p])]

\* _append_to_scanned_journal: the limit and the length of the file are checked,
CheckAppend(p) ==
    /\ pc[p] = "append"
    /\ UNCHANGED <<fileVars, faults, moves>>
    /\ \/ Len(scan[p]) + 1 > MaxLines /\ Refuse(p, "oversize")
       \/ /\ Len(scan[p]) + 1 <= MaxLines /\ Len(lines[file[p]]) # Len(scan[p])
          /\ Refuse(p, "changed")
       \/ /\ Len(scan[p]) + 1 <= MaxLines /\ Len(lines[file[p]]) = Len(scan[p])
          /\ Goto(p, "write")
          /\ UNCHANGED <<kind, root, held, file, scan, snap, code, answer, stuck>>

\* then the record is written, or nothing or part of it, or its fsync fails.
AppendLine(p) ==
    /\ pc[p] = "write"
    /\ UNCHANGED <<sidecar, ignore, journal, made, moved, moves>>
    /\ \/ /\ Works /\ lines' = [lines EXCEPT ![file[p]] = Append(@, OwnRecord(p))]
          /\ Goto(p, "appended")
          /\ UNCHANGED <<kind, root, held, file, scan, snap, code, answer, stuck>>
       \/ /\ Fails
          /\ \E part \in {<<>>, <<Torn>>, <<OwnRecord(p)>>} :
                lines' = [lines EXCEPT ![file[p]] = @ \o part]
          /\ Refuse(p, "internal")

\* A path-bound call returns only if the path, the folder, the .gitignore and
\* the journal still carry the names it used.
StillNamed(p) == ~moved /\ sidecar /\ ignore /\ journal = file[p]

Publish(p) ==
    /\ pc[p] = "appended"
    /\ UNCHANGED <<fileVars, faults, moves>>
    /\ \/ /\ kind[p] = "bind" => StillNamed(p)
          /\ Return(p, "written",
                    IF kind[p] = "export" THEN View("export", scan[p]) ELSE <<>>)
          /\ UNCHANGED <<code, stuck>>
       \/ kind[p] = "bind" /\ ~StillNamed(p) /\ Refuse(p, "changed")

\* _rollback_path_bound_publication.  The journal is cut back to its length at
\* the scan if it was there before and an append was attempted, or unlinked if
\* this call created it and it still has its name; then the .gitignore and the
\* folder go, if this call created them.  Each part is tried; any failure
\* makes the whole an internal_error.
RollBack(p) ==
    LET f == file[p]
        cuts == pc[p] = "undo" /\ snap[p].journal /\ Len(lines[f]) > Len(scan[p])
        ownsJournal == ~snap[p].journal /\ f # 0
        ownsIgnore == ~snap[p].ignore /\ pc[p] = "undo"
        ownsSidecar == ~snap[p].sidecar /\ sidecar
        unlinks == ownsJournal /\ journal = f
        lost == ownsJournal /\ journal # f
        empty == (ignore => ownsIgnore) /\ (journal = 0 \/ unlinks)
    IN
    /\ pc[p] \in {"rollback", "undo"}
    /\ UNCHANGED <<made, moved, moves>>
    /\ \/ /\ Works
          /\ lines' = IF cuts THEN [lines EXCEPT ![f] = SubSeq(@, 1, Len(scan[p]))]
                              ELSE lines
          /\ journal' = IF unlinks THEN 0 ELSE journal
          /\ ignore' = (ignore /\ ~ownsIgnore)
          /\ sidecar' = (sidecar /\ ~(ownsSidecar /\ empty))
          /\ stuck' = IF lost \/ (ownsSidecar /\ ~empty) THEN stuck \cup {p} ELSE stuck
       \/ /\ Fails /\ (cuts \/ unlinks)   \* the truncation or the unlink fails
          /\ UNCHANGED <<lines, journal, sidecar>>
          /\ ignore' = (ignore /\ ~ownsIgnore)
          /\ stuck' = stuck \cup {p}
    /\ code' = [code EXCEPT ![p] = IF stuck' = stuck THEN @ ELSE "internal"]
    /\ Return(p, "write_failed", <<>>)

Step(p) ==
    \/ Disabled(p) \/ Start(p) \/ LockRoot(p) \/ Busy(p)
    \/ MakeSidecar(p) \/ EnsureIgnore(p) \/ OpenForAppend(p)
    \/ TakeSnapshot(p) \/ BindJournal(p) \/ BindIgnore(p) \/ Reopen(p)
    \/ LockAndScan(p) \/ CheckAppend(p) \/ AppendLine(p) \/ Publish(p) \/ RollBack(p)

\* The process is killed: the system drops its locks; a line it was writing
\* may be cut short.
Kill(p) ==
    /\ pc[p] \notin {"start", "done"} /\ Fails
    /\ Goto(p, "done")
    /\ root' = [root EXCEPT ![p] = "none"] /\ held' = [held EXCEPT ![p] = "none"]
    /\ \/ UNCHANGED lines
       \/ /\ pc[p] = "write"
          /\ lines' = [lines EXCEPT ![file[p]] = Append(@, Torn)]
    /\ UNCHANGED <<sidecar, ignore, journal, made, moved, moves>>
    /\ UNCHANGED <<kind, file, scan, snap, code, answer, stuck>>

--------------------------------------------------------------------------------
(* The user.                                                               *)

\* An oversize journal is moved aside for manual archive.
ArchiveJournal ==
    /\ moves < MaxMoves /\ journal # 0
    /\ journal' = 0 /\ moves' = moves + 1
    /\ UNCHANGED <<sidecar, ignore, lines, made, moved, callVars, faults>>

\* The workspace is renamed or moved, with everything in it.
MoveWorkspace ==
    /\ moves < MaxMoves /\ ~moved
    /\ moved' = TRUE /\ moves' = moves + 1
    /\ UNCHANGED <<sidecar, ignore, journal, lines, made, callVars, faults>>

--------------------------------------------------------------------------------
(* What has to hold.                                                       *)

\* Only the last line of a journal can be one that was cut short, and the ids
\* of its records increase, access events included: what _scan_records demands
\* of every file before anything is read from it or added to it.
JournalWellFormed ==
    \A f \in File :
       /\ \A i \in DOMAIN lines[f] : lines[f][i] = Torn => i = Len(lines[f])
       /\ \A i, j \in DOMAIN Whole(lines[f]) : i < j => lines[f][i].id < lines[f][j].id

\* A path-bound call that answered write_failed has no line in the journal,
\* however far its append came and whoever created the file, unless taking it
\* back failed too (_rollback_path_bound_publication).
RollbackLeavesNothing ==
    \A p \in Proc \ stuck :
       (kind[p] = "bind" /\ answer[p].status = "write_failed" /\ journal # 0)
          => \A i \in DOMAIN Whole(lines[journal]) : lines[journal][i].by # p

\* The records of a file that nobody can take back any more.
Unsettled(f) ==
    \E p \in Proc :
       /\ kind[p] = "bind" /\ pc[p] \in {"appended", "undo"}
       /\ snap[p].journal /\ file[p] = f
       /\ \E i \in DOMAIN Whole(lines[f]) : lines[f][i].by = p
Settled(f) ==
    LET records == Whole(lines[f])
    IN IF Unsettled(f) THEN SubSeq(records, 1, Len(records) - 1) ELSE records

Log == INSTANCE RecordLog
          WITH Caller <- Proc, logs <- [f \in File |-> Settled(f)],
               existing <- 1 .. made, current <- journal

\* Locks, scans, appends and rollbacks of the calls implement the logs of
\* RecordLog: a reader sees settled records only, an export returns exactly what
\* stood before its own access event, ids are given once.
LogImplemented == Log!LogSpec

Next == (\E p \in Proc : Step(p) \/ Kill(p)) \/ ArchiveJournal \/ MoveWorkspace

Spec == Init /\ [][Next]_journalVars
================================================================================
