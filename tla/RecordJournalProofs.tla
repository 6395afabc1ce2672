-------------------------- MODULE RecordJournalProofs --------------------------
(***************************************************************************)
(* For any number of processes, files, faults and moves: the journals stay *)
(* well formed, a path-bound call that fails leaves no line, and the       *)
(* journals implement the logs of RecordLog.                               *)
(*                                                                         *)
(* The first invariant is about who may write.  Between its scan and its   *)
(* answer a writer holds its file exclusively, so the file is what it      *)
(* scanned, followed by at most its own line.  The second, TraceInv, is    *)
(* about whose lines are where: a call has none before it appended, so the *)
(* one it takes back is its only one, and a step changes what is settled   *)
(* of at most one file, by at most that line.                              *)
(***************************************************************************)
EXTENDS RecordJournal, SequenceTheorems, TLAPS

Line == Record \cup {Torn}
Scanned == {"bind_ignore", "append", "write"}
Written == {"appended", "undo"}

Increasing(s) == \A i, j \in 1 .. Len(s) : i < j => s[i].id < s[j].id
Sound(log) == \E s \in Seq(Record) : Increasing(s) /\ log \in {s, Append(s, Torn)}

\* A writer between its scan and its answer, and one that waits for its file.
AtWork(p) ==
    /\ pc[p] \in Scanned \cup Written =>
          /\ held[p] = "exclusive" /\ file[p] # 0
          /\ kind[p] \in Writers /\ Increasing(scan[p])
    /\ pc[p] \in Scanned => lines[file[p]] = scan[p]
    /\ pc[p] \in Written =>
          lines[file[p]] \in {scan[p], Append(scan[p], Torn),
                              Append(scan[p], OwnRecord(p))}
    /\ pc[p] = "file" => file[p] # 0
    /\ pc[p] \in {"bind_sidecar", "bind_journal"} => (snap[p].journal => file[p] # 0)
    /\ held[p] # "none" => /\ held[p] = "exclusive"
                           /\ pc[p] \in Scanned \cup Written \cup {"rollback"}

Exclusive ==
    \A p, q \in Proc :
       (p # q /\ held[p] = "exclusive" /\ file[p] = file[q]) => held[q] = "none"

JournalInv ==
    /\ TypeOK
    /\ \A p \in Proc : AtWork(p)
    /\ Exclusive
    /\ \A f \in File : Sound(lines[f])

LEMMA LineShape ==
    /\ Torn \notin Record /\ Torn \in Line /\ Torn.id = 0
    /\ \A r \in Record : r.id \in Nat \ {0}
  BY DEF Line, Record, Torn

LEMMA HighestIsHighest ==
    ASSUME NEW s \in Seq(Record), Increasing(s)
    PROVE  /\ HighestId(s) \in Nat
           /\ \A i \in 1 .. Len(s) : s[i].id <= HighestId(s)
  <1>1. CASE s = <<>>
    BY <1>1 DEF HighestId
  <1>2. CASE s # <<>>
    <2>1. Len(s) \in Nat \ {0} /\ Len(s) \in 1 .. Len(s)
      BY <1>2, EmptySeq
    <2>2. \A i \in 1 .. Len(s) : s[i] \in Record
      BY ElementOfSeq
    <2>3. \A i \in 1 .. Len(s) : s[i].id \in Nat
      BY <2>2, LineShape
    <2>4. HighestId(s) = s[Len(s)].id
      BY <1>2 DEF HighestId
    <2>5. \A i \in 1 .. Len(s) : s[i].id <= s[Len(s)].id
      BY <2>1, <2>3 DEF Increasing
    <2> QED
      BY <2>1, <2>3, <2>4, <2>5
  <1> QED
    BY <1>1, <1>2

\* What an append makes of an increasing sequence of records.
LEMMA AppendIncreases ==
    ASSUME NEW s \in Seq(Record), Increasing(s), NEW r \in Record,
           r.id = HighestId(s) + 1
    PROVE  Append(s, r) \in Seq(Record) /\ Increasing(Append(s, r))
  <1> DEFINE t == Append(s, r)
  <1>1. /\ t \in Seq(Record) /\ Len(t) = Len(s) + 1 /\ t[Len(s) + 1] = r
        /\ \A i \in 1 .. Len(s) : t[i] = s[i]
    BY AppendProperties
  <1>2. Len(s) \in Nat
    BY LenProperties
  <1>3. \A i \in 1 .. Len(s) : s[i].id \in Nat
    BY ElementOfSeq, LineShape
  <1>4. ASSUME NEW i \in 1 .. Len(t), NEW j \in 1 .. Len(t), i < j
        PROVE  t[i].id < t[j].id
    <2>1. i \in 1 .. Len(s)
      BY <1>1, <1>2, <1>4
    <2>2. CASE j \in 1 .. Len(s)
      BY <2>1, <2>2, <1>1, <1>4 DEF Increasing
    <2>3. CASE j = Len(s) + 1
      BY <2>1, <2>3, <1>1, <1>3, HighestIsHighest
    <2> QED
      BY <2>2, <2>3, <1>1, <1>2
  <1> QED
    BY <1>1, <1>4 DEF Increasing

\* What is sound is well formed, and its whole lines are its records.
LEMMA SoundIsWellFormed ==
    ASSUME NEW log, Sound(log)
    PROVE  /\ \A i \in DOMAIN log : log[i] = Torn => i = Len(log)
           /\ \A i, j \in DOMAIN Whole(log) : i < j => log[i].id < log[j].id
  <1>1. PICK s \in Seq(Record) : Increasing(s) /\ log \in {s, Append(s, Torn)}
    BY DEF Sound
  <1>2. Len(s) \in Nat /\ DOMAIN s = 1 .. Len(s)
    BY LenProperties
  <1>3. \A i \in 1 .. Len(s) : s[i] \in Record /\ s[i] # Torn
    BY ElementOfSeq, LineShape
  <1>4. CASE log = s
    <2>1. ~IsTorn(log)
      BY <1>2, <1>3, <1>4, EmptySeq DEF IsTorn
    <2> QED
      BY <1>1, <1>2, <1>3, <1>4, <2>1 DEF Whole, Increasing
  <1>5. CASE log = Append(s, Torn)
    <2>1. s \in Seq(Line)
      BY SeqMonotonic DEF Line
    <2>2. /\ Len(log) = Len(s) + 1 /\ log[Len(s) + 1] = Torn
          /\ log \in Seq(Line)
          /\ \A i \in 1 .. Len(s) : log[i] = s[i]
      BY <2>1, <1>5, AppendProperties, LineShape
    <2>3. IsTorn(log) /\ DOMAIN log = 1 .. Len(log)
      BY <2>2, <1>2, EmptySeq, LenProperties DEF IsTorn
    <2>4. Whole(log) = SubSeq(log, 1, Len(s))
      BY <2>2, <2>3, <1>2 DEF Whole
    <2>5. DOMAIN Whole(log) = 1 .. Len(s)
      BY <2>2, <2>4, <1>2, SubSeqProperties
    <2> QED
      BY <2>2, <2>3, <2>5, <1>1, <1>2, <1>3 DEF Increasing
  <1> QED
    BY <1>1, <1>4, <1>5

\* A sound log that does not end in a torn line is its records.
LEMMA SoundScan ==
    ASSUME NEW log, Sound(log), ~IsTorn(log)
    PROVE  log \in Seq(Record) /\ Increasing(log)
  <1>1. PICK s \in Seq(Record) : Increasing(s) /\ log \in {s, Append(s, Torn)}
    BY DEF Sound
  <1>2. log # Append(s, Torn)
    <2> SUFFICES ASSUME log = Append(s, Torn) PROVE FALSE
      OBVIOUS
    <2>1. s \in Seq(Line) /\ Len(s) \in Nat
      BY SeqMonotonic, LenProperties DEF Line
    <2>2. log \in Seq(Line) /\ Len(log) = Len(s) + 1 /\ log[Len(s) + 1] = Torn
      BY <2>1, AppendProperties, LineShape
    <2> QED
      BY <2>1, <2>2, EmptySeq DEF IsTorn
  <1> QED
    BY <1>1, <1>2
--------------------------------------------------------------------------------
(* Types.                                                                  *)

LEMMA ReturnTyped ==
    ASSUME TypeOK, NEW p \in Proc,
           NEW status \in {"disabled", "written", "write_failed", "read", "refused"},
           NEW seen, Return(p, status, seen)
    PROVE  /\ pc' \in [Proc -> Places] /\ root' \in [Proc -> Modes]
           /\ held' \in [Proc -> Modes] /\ DOMAIN answer' = Proc
           /\ \A q \in Proc : answer'[q].status \in
                 {"none", "disabled", "written", "write_failed", "read", "refused"}
           /\ UNCHANGED <<kind, file, scan, snap>>
           /\ pc'[p] = "done" /\ held'[p] = "none"
           /\ \A q \in Proc \ {p} : pc'[q] = pc[q] /\ held'[q] = held[q]
  BY DEF Return, Goto, TypeOK, Places, Modes

Reasons == {"busy", "changed", "corrupt", "oversize", "internal"}

\* However a call fails, it is over or rolls back, and what it holds is gone or
\* still held.
LEMMA RefuseTyped ==
    ASSUME TypeOK, NEW p \in Proc, NEW why \in Reasons, Refuse(p, why)
    PROVE  /\ pc' \in [Proc -> Places] /\ root' \in [Proc -> Modes]
           /\ held' \in [Proc -> Modes] /\ DOMAIN answer' = Proc
           /\ \A q \in Proc : answer'[q].status \in
                 {"none", "disabled", "written", "write_failed", "read", "refused"}
           /\ code' \in [Proc -> Reasons \cup {"none"}]
           /\ UNCHANGED <<kind, file, scan, snap, stuck>>
           /\ \A q \in Proc \ {p} : pc'[q] = pc[q] /\ held'[q] = held[q]
           /\ \/ pc'[p] = "done" /\ held'[p] = "none"
              \/ /\ kind[p] = "bind" /\ held'[p] = held[p]
                 /\ pc'[p] = IF pc[p] \in {"append", "write", "appended"}
                             THEN "undo" ELSE "rollback"
  <1>1. CASE kind[p] = "bind" /\ pc[p] \notin {"start", "root", "snapshot"}
    <2> DEFINE there == IF pc[p] \in {"append", "write", "appended"}
                        THEN "undo" ELSE "rollback"
    <2>1. /\ code' = [code EXCEPT ![p] = why] /\ pc' = [pc EXCEPT ![p] = there]
          /\ UNCHANGED <<kind, root, held, file, scan, snap, answer, stuck>>
      BY <1>1 DEF Refuse, Goto
    <2>2. there \in {"undo", "rollback"}
      OBVIOUS
    <2>3. pc' \in [Proc -> Places] /\ pc'[p] = there
      BY <2>1, <2>2 DEF TypeOK, Places
    <2>4. code' \in [Proc -> Reasons \cup {"none"}]
      BY <2>1 DEF TypeOK, Reasons
    <2> QED
      BY <1>1, <2>1, <2>3, <2>4 DEF TypeOK
  <1>2. CASE ~(kind[p] = "bind" /\ pc[p] \notin {"start", "root", "snapshot"})
    <2>1. Raise(p, why)
      BY <1>2 DEF Refuse
    <2>2. PICK status \in {"write_failed", "refused"}, seen \in {<<>>, View("export", scan[p])} :
             Return(p, status, seen)
      BY <2>1 DEF Raise
    <2>3. code' = [code EXCEPT ![p] = why] /\ stuck' = stuck
      BY <2>1 DEF Raise
    <2> QED
      BY <2>2, <2>3, ReturnTyped DEF TypeOK, Reasons
  <1> QED
    BY <1>1, <1>2--------------------------------------------------------------------------------
(* The invariant.                                                          *)

Frame(p) ==
    \A q \in Proc \ {p} : /\ pc'[q] = pc[q] /\ held'[q] = held[q] /\ file'[q] = file[q]
                          /\ scan'[q] = scan[q] /\ kind'[q] = kind[q] /\ snap'[q] = snap[q]

LEMMA FileInRange ==
    ASSUME TypeOK, NEW p \in Proc, file[p] # 0 PROVE file[p] \in File
  BY BoundsAreNumbers DEF TypeOK, File

\* It is enough to look at the call that moves: it writes only a file it holds
\* and locks only a file nobody holds.
Calm(p) ==
    /\ Frame(p)
    /\ \A f \in File : \/ lines'[f] = lines[f]
                       \/ f = file[p] /\ held[p] = "exclusive" /\ Sound(lines'[f])
    /\ \/ held'[p] = "none"
       \/ held[p] = "exclusive" /\ file'[p] = file[p]
       \/ \A q \in Proc \ {p} : file[q] = file'[p] => held[q] = "none"

LEMMA CalmStep ==
    ASSUME JournalInv, TypeOK', NEW p \in Proc, Calm(p), AtWork(p)'
    PROVE  JournalInv'
  <1> USE DEF Calm
  <1>1. ASSUME NEW q \in Proc, q # p
        PROVE  AtWork(q)'
    <2>1. /\ pc'[q] = pc[q] /\ held'[q] = held[q] /\ file'[q] = file[q]
          /\ scan'[q] = scan[q] /\ kind'[q] = kind[q] /\ snap'[q] = snap[q]
      BY <1>1 DEF Frame
    <2>2. AtWork(q)
      BY DEF JournalInv
    <2>3. OwnRecord(q)' = OwnRecord(q)
      BY <2>1 DEF OwnRecord, Tool, HighestId
    <2>4. ASSUME pc[q] \in Scanned \cup Written
          PROVE  lines'[file[q]] = lines[file[q]]
      <3>1. file[q] \in File /\ held[q] = "exclusive"
        BY <2>2, <2>4, FileInRange DEF AtWork, JournalInv
      <3>2. ~(file[q] = file[p] /\ held[p] = "exclusive")
        BY <3>1, <1>1 DEF JournalInv, Exclusive
      <3> QED
        BY <3>1, <3>2
    <2> QED
      BY <2>1, <2>2, <2>3, <2>4 DEF AtWork, Scanned, Written
  <1>2. Exclusive'
    <2> SUFFICES ASSUME NEW q \in Proc, NEW r \in Proc, q # r,
                        held'[q] = "exclusive", file'[q] = file'[r]
                 PROVE  held'[r] = "none"
      BY DEF Exclusive
    <2>1. CASE q # p /\ r # p
      BY <2>1 DEF Frame, JournalInv, Exclusive
    <2>2. CASE q = p
      BY <2>2 DEF Frame, JournalInv, Exclusive
    <2>3. CASE r = p
      <3>1. held[q] = "exclusive" /\ file[q] = file'[p]
        BY <2>3 DEF Frame
      <3> QED
        BY <2>3, <3>1 DEF JournalInv, Exclusive
    <2> QED
      BY <2>1, <2>2, <2>3
  <1>3. \A f \in File : Sound(lines'[f])
    BY DEF JournalInv
  <1> QED
    BY <1>1, <1>2, <1>3 DEF JournalInv

\* A call that fails without having written since it scanned.
LEMMA RefuseInv ==
    ASSUME JournalInv, NEW p \in Proc, NEW why \in Reasons, Refuse(p, why),
           lines' = lines, TypeOK'
    PROVE  JournalInv'
  <1>0. TypeOK /\ AtWork(p)
    BY DEF JournalInv
  <1>1. /\ UNCHANGED <<kind, file, scan, snap>>
        /\ \A q \in Proc \ {p} : pc'[q] = pc[q] /\ held'[q] = held[q]
        /\ \/ pc'[p] = "done" /\ held'[p] = "none"
           \/ /\ kind[p] = "bind" /\ held'[p] = held[p]
              /\ pc'[p] = IF pc[p] \in {"append", "write", "appended"}
                          THEN "undo" ELSE "rollback"
    BY <1>0, RefuseTyped
  <1>2. OwnRecord(p)' = OwnRecord(p)
    BY <1>1 DEF OwnRecord, Tool, HighestId
  <1>3. AtWork(p)'
    <2>1. CASE pc'[p] = "done" /\ held'[p] = "none"
      BY <2>1 DEF AtWork, Scanned, Written
    <2>2. CASE pc'[p] = "undo" /\ held'[p] = held[p] /\ pc[p] \in {"append", "write", "appended"}
      BY <1>0, <2>2, <1>1, <1>2 DEF AtWork, Scanned, Written
    <2>3. CASE pc'[p] = "rollback" /\ held'[p] = held[p]
      BY <1>0, <2>3, <1>1 DEF AtWork, Scanned, Written
    <2> QED
      BY <1>1, <2>1, <2>2, <2>3
  <1>4. held'[p] # "none" => held[p] = "exclusive" /\ file'[p] = file[p]
    BY <1>0, <1>1 DEF AtWork
  <1>5. Calm(p)
    <2>1. Frame(p)
      BY <1>1 DEF Frame
    <2> QED
      BY <2>1, <1>4 DEF Calm
  <1> QED
    BY <1>3, <1>5, CalmStep

--------------------------------------------------------------------------------
(* The steps before the file is locked.                                    *)

Early == {"start", "root", "sidecar", "ignore", "open", "snapshot", "bind_sidecar",
          "bind_journal", "reopen"}

\* A call that has no lock on a file goes on without one.
LEMMA EarlyStep ==
    ASSUME JournalInv, TypeOK', NEW p \in Proc, pc[p] \in Early, lines' = lines,
           UNCHANGED held, UNCHANGED scan,
           \A q \in Proc \ {p} : /\ pc'[q] = pc[q] /\ file'[q] = file[q]
                                /\ kind'[q] = kind[q] /\ snap'[q] = snap[q],
           pc'[p] \in Early \cup {"file"}, pc'[p] = "file" => file'[p] # 0,
           pc'[p] \in {"bind_sidecar", "bind_journal"} => (snap'[p].journal => file'[p] # 0)
    PROVE  JournalInv'
  <1>1. AtWork(p)
    BY DEF JournalInv
  <1>2. held[p] = "none"
    BY <1>1 DEF AtWork, Early, Scanned, Written
  <1>3. AtWork(p)'
    BY <1>2 DEF AtWork, Early, Scanned, Written
  <1>4. Calm(p)
    <2>1. Frame(p)
      BY DEF Frame
    <2> QED
      BY <2>1, <1>2 DEF Calm
  <1> QED
    BY <1>3, <1>4, CalmStep

\* So does one that is answered.
LEMMA QuietReturn ==
    ASSUME JournalInv, TypeOK', NEW p \in Proc, NEW seen, NEW status,
           status \in {"disabled", "written", "write_failed", "read", "refused"},
           Return(p, status, seen), lines' = lines
    PROVE  JournalInv'
  <1>1. /\ UNCHANGED <<kind, file, scan, snap>>
        /\ pc'[p] = "done" /\ held'[p] = "none"
        /\ \A q \in Proc \ {p} : pc'[q] = pc[q] /\ held'[q] = held[q]
    BY DEF JournalInv, Return, Goto, TypeOK
  <1>2. AtWork(p)'
    BY <1>1 DEF AtWork, Scanned, Written
  <1>3. Calm(p)
    <2>1. Frame(p)
      BY <1>1 DEF Frame
    <2> QED
      BY <2>1, <1>1 DEF Calm
  <1> QED
    BY <1>2, <1>3, CalmStep

LEMMA DisabledInv == ASSUME JournalInv, NEW p \in Proc, Disabled(p) PROVE JournalInv'
  <1> USE DEF JournalInv
  <1>1. CASE kind[p] = "export"
    <2>1. TypeOK'
      BY <1>1 DEF Disabled, TypeOK, fileVars, Kinds
    <2> QED
      BY <1>1, <2>1, EarlyStep DEF Disabled, fileVars, Early, TypeOK
  <1>2. CASE kind[p] # "export"
    <2>1. Return(p, "disabled", <<>>) /\ UNCHANGED <<code, stuck, fileVars, faults, moves>>
      BY <1>2 DEF Disabled
    <2>2. TypeOK'
      BY <2>1, ReturnTyped DEF TypeOK, fileVars
    <2> QED
      BY <2>1, <2>2, QuietReturn DEF fileVars
  <1> QED
    BY <1>1, <1>2

LEMMA RefuseTypeOK ==
    ASSUME TypeOK, NEW p \in Proc, NEW why \in Reasons, Refuse(p, why),
           sidecar' \in BOOLEAN, ignore' \in BOOLEAN, UNCHANGED <<journal, made, moved, moves>>,
           lines' \in [File -> Seq(Record \cup {Torn})], faults' \in 0 .. MaxFaults
    PROVE  TypeOK'
  BY RefuseTyped DEF TypeOK, Reasons

LEMMA RaiseIsRefuse ==
    ASSUME NEW p \in Proc, NEW why, Raise(p, why),
           kind[p] # "bind" \/ pc[p] \in {"start", "root", "snapshot"}
    PROVE  Refuse(p, why)
  BY DEF Refuse

LEMMA StartInv == ASSUME JournalInv, NEW p \in Proc, Start(p) PROVE JournalInv'
  <1> USE DEF JournalInv
  <1>1. pc[p] = "start" /\ UNCHANGED <<fileVars, faults, moves>>
    BY DEF Start
  <1>2. CASE Raise(p, "changed")
    <2>1. Refuse(p, "changed")
      BY <1>1, <1>2, RaiseIsRefuse
    <2>2. TypeOK'
      BY <1>1, <2>1, RefuseTypeOK DEF fileVars, TypeOK, Reasons
    <2> QED
      BY <1>1, <2>1, <2>2, RefuseInv DEF fileVars, Reasons
  <1>3. CASE Return(p, "read", <<>>) /\ UNCHANGED <<code, stuck>>
    <2>1. TypeOK'
      BY <1>1, <1>3, ReturnTyped DEF TypeOK, fileVars
    <2> QED
      BY <1>1, <1>3, <2>1, QuietReturn DEF fileVars
  <1>4. CASE /\ journal # 0 /\ file' = [file EXCEPT ![p] = journal] /\ Goto(p, "file")
             /\ UNCHANGED <<kind, root, held, scan, snap, code, answer, stuck>>
    <2>1. TypeOK'
      BY <1>1, <1>4 DEF TypeOK, fileVars, Goto, Places
    <2> QED
      BY <1>1, <1>4, <2>1, EarlyStep DEF Goto, fileVars, Early, TypeOK
  <1>5. CASE /\ Goto(p, "root")
             /\ UNCHANGED <<kind, root, held, file, scan, snap, code, answer, stuck>>
    <2>1. TypeOK'
      BY <1>1, <1>5 DEF TypeOK, fileVars, Goto, Places
    <2> QED
      BY <1>1, <1>5, <2>1, EarlyStep DEF Goto, fileVars, Early, TypeOK
  <1> QED
    BY <1>2, <1>3, <1>4, <1>5 DEF Start

LEMMA LockRootInv ==
    ASSUME JournalInv, NEW p \in Proc, LockRoot(p) \/ TakeSnapshot(p) PROVE JournalInv'
  <1> USE DEF JournalInv
  <1>1. CASE LockRoot(p)
    <2>1. TypeOK'
      BY <1>1 DEF LockRoot, TypeOK, fileVars, Goto, Places, Modes, RootMode
    <2> QED
      BY <1>1, <2>1, EarlyStep DEF LockRoot, Goto, fileVars, Early, TypeOK
  <1>2. CASE TakeSnapshot(p)
    <2> DEFINE found == [sidecar |-> sidecar, ignore |-> ignore, journal |-> journal # 0,
                         eof |-> IF journal = 0 THEN 0 ELSE Len(lines[journal])]
    <2>1. journal # 0 => lines[journal] \in Seq(Line)
      BY BoundsAreNumbers DEF TypeOK, File, Line
    <2>2. found \in [sidecar : BOOLEAN, ignore : BOOLEAN, journal : BOOLEAN, eof : Nat]
      BY <2>1, LenProperties DEF TypeOK
    <2>3. snap' = [snap EXCEPT ![p] = found]
      BY <1>2 DEF TakeSnapshot
    <2>4. TypeOK'
      BY <1>2, <2>2, <2>3 DEF TakeSnapshot, TypeOK, fileVars, Goto, Places
    <2> QED
      BY <1>2, <2>4, EarlyStep DEF TakeSnapshot, Goto, fileVars, Early, TypeOK
  <1> QED
    BY <1>1, <1>2

LEMMA BusyInv == ASSUME JournalInv, NEW p \in Proc, Busy(p) PROVE JournalInv'
  <1>1. TypeOK'
    BY RefuseTypeOK DEF Busy, fileVars, TypeOK, Reasons, JournalInv
  <1> QED
    BY <1>1, RefuseInv DEF Busy, fileVars, Reasons
LEMMA FailsTyped == ASSUME TypeOK, Fails \/ Works PROVE faults' \in 0 .. MaxFaults
  BY BoundsAreNumbers DEF TypeOK, Fails, Works

LEMMA MakeInv ==
    ASSUME JournalInv, NEW p \in Proc, MakeSidecar(p) \/ EnsureIgnore(p) PROVE JournalInv'
  <1>0. TypeOK
    BY DEF JournalInv
  <1>1. CASE MakeSidecar(p)
    <2>1. CASE Refuse(p, "internal") /\ Fails /\ sidecar' \in BOOLEAN
      <3>1. TypeOK'
        BY <1>0, <1>1, <2>1, FailsTyped, RefuseTypeOK DEF MakeSidecar, TypeOK, Reasons
      <3> QED
        BY <1>1, <2>1, <3>1, RefuseInv DEF MakeSidecar, Reasons
    <2>2. CASE /\ Works /\ sidecar' = TRUE
               /\ Goto(p, IF pc[p] = "sidecar" THEN "ignore" ELSE "bind_journal")
               /\ UNCHANGED <<kind, root, held, file, scan, snap, code, answer, stuck>>
      <3>1. TypeOK'
        BY <1>0, <1>1, <2>2 DEF MakeSidecar, TypeOK, Goto, Places, Works
      <3>2. pc[p] = "bind_sidecar" => (snap[p].journal => file[p] # 0)
        BY DEF JournalInv, AtWork
      <3> QED
        BY <1>0, <1>1, <2>2, <3>1, <3>2, EarlyStep DEF MakeSidecar, Goto, Early, TypeOK
    <2> QED
      BY <1>1, <2>1, <2>2 DEF MakeSidecar
  <1>2. CASE EnsureIgnore(p)
    <2>1. CASE Refuse(p, "internal") /\ Fails /\ UNCHANGED ignore
      <3>1. TypeOK'
        BY <1>0, <1>2, <2>1, FailsTyped, RefuseTypeOK DEF EnsureIgnore, TypeOK, Reasons
      <3> QED
        BY <1>2, <2>1, <3>1, RefuseInv DEF EnsureIgnore, Reasons
    <2>2. CASE /\ Works /\ ignore' = TRUE /\ Goto(p, "open")
               /\ UNCHANGED <<kind, root, held, file, scan, snap, code, answer, stuck>>
      <3>1. TypeOK'
        BY <1>0, <1>2, <2>2 DEF EnsureIgnore, TypeOK, Goto, Places, Works
      <3> QED
        BY <1>0, <1>2, <2>2, <3>1, EarlyStep DEF EnsureIgnore, Goto, Early, TypeOK
    <2> QED
      BY <1>2, <2>1, <2>2 DEF EnsureIgnore
  <1> QED
    BY <1>1, <1>2

\* A journal that is made is the newest file.
LEMMA NewJournalTyped ==
    ASSUME TypeOK, NEW p \in Proc, NewJournal(p) \/ FoundJournal(p)
    PROVE  /\ made' \in 0 .. MaxFiles /\ journal' \in 0 .. made'
           /\ file' \in [Proc -> 0 .. made'] /\ file'[p] # 0
           /\ \A q \in Proc \ {p} : file'[q] = file[q]
  <1>1. /\ made \in Nat /\ journal \in 0 .. made /\ file \in [Proc -> 0 .. made]
        /\ MaxFiles \in Nat /\ made \in 0 .. MaxFiles
    BY BoundsAreNumbers DEF TypeOK
  <1>2. CASE NewJournal(p)
    <2>1. /\ made < MaxFiles /\ made' = made + 1 /\ journal' = made + 1
          /\ file' = [file EXCEPT ![p] = made + 1]
      BY <1>2 DEF NewJournal
    <2>2. \A q \in Proc : file[q] \in 0 .. (made + 1)
      BY <1>1
    <2> QED
      BY <1>1, <2>1, <2>2
  <1>3. CASE FoundJournal(p)
    BY <1>1, <1>3 DEF FoundJournal
  <1> QED
    BY <1>2, <1>3

LEMMA OpenInv ==
    ASSUME JournalInv, NEW p \in Proc, OpenForAppend(p) PROVE JournalInv'
  <1>0. TypeOK
    BY DEF JournalInv
  <1>1. /\ pc[p] = "open" /\ UNCHANGED <<sidecar, ignore, lines, moved, moves>>
    BY DEF OpenForAppend
  <1>2. CASE Refuse(p, "internal") /\ Fails /\ UNCHANGED <<made, journal>>
    <2>1. TypeOK'
      BY <1>0, <1>1, <1>2, FailsTyped, RefuseTypeOK DEF TypeOK, Reasons
    <2> QED
      BY <1>1, <1>2, <2>1, RefuseInv DEF Reasons
  <1>3. CASE /\ Works /\ (NewJournal(p) \/ FoundJournal(p))
             /\ root' = [root EXCEPT ![p] = "none"] /\ Goto(p, "file")
             /\ UNCHANGED <<kind, held, scan, snap, code, answer, stuck>>
    <2>1. TypeOK'
      BY <1>0, <1>1, <1>3, NewJournalTyped DEF TypeOK, Goto, Places, Modes, Works
    <2> QED
      BY <1>0, <1>1, <1>3, <2>1, EarlyStep, NewJournalTyped DEF Goto, Early, TypeOK
  <1> QED
    BY <1>2, <1>3 DEF OpenForAppend
LEMMA BindJournalInv ==
    ASSUME JournalInv, NEW p \in Proc, BindJournal(p) PROVE JournalInv'
  <1>0. TypeOK
    BY DEF JournalInv
  <1>1. /\ pc[p] = "bind_journal" /\ UNCHANGED <<sidecar, ignore, lines, moved, moves>>
    BY DEF BindJournal
  <1>2. CASE Refuse(p, "internal") /\ Fails /\ UNCHANGED <<made, journal>>
    <2>1. TypeOK'
      BY <1>0, <1>1, <1>2, FailsTyped, RefuseTypeOK DEF TypeOK, Reasons
    <2> QED
      BY <1>1, <1>2, <2>1, RefuseInv DEF Reasons
  <1>3. CASE /\ ~snap[p].journal /\ Works /\ NewJournal(p) /\ Goto(p, "file")
             /\ UNCHANGED <<kind, root, held, scan, snap, code, answer, stuck>>
    <2>1. TypeOK'
      BY <1>0, <1>1, <1>3, NewJournalTyped DEF TypeOK, Goto, Places, Modes, Works
    <2> QED
      BY <1>0, <1>1, <1>3, <2>1, EarlyStep, NewJournalTyped DEF Goto, Early, TypeOK
  <1>4. CASE /\ snap[p].journal /\ Works /\ UNCHANGED <<made, journal>> /\ Goto(p, "file")
             /\ UNCHANGED <<kind, root, held, file, scan, snap, code, answer, stuck>>
    <2>1. TypeOK'
      BY <1>0, <1>1, <1>4 DEF TypeOK, Goto, Places, Works
    <2>2. file[p] # 0
      BY <1>1, <1>4 DEF JournalInv, AtWork
    <2> QED
      BY <1>0, <1>1, <1>4, <2>1, <2>2, EarlyStep DEF Goto, Early, TypeOK
  <1> QED
    BY <1>2, <1>3, <1>4 DEF BindJournal

LEMMA ReopenInv == ASSUME JournalInv, NEW p \in Proc, Reopen(p) PROVE JournalInv'
  <1>0. TypeOK
    BY DEF JournalInv
  <1>1. pc[p] = "reopen" /\ UNCHANGED <<sidecar, journal, lines, made, moved, moves>>
    BY DEF Reopen
  <1>2. ignore' \in BOOLEAN /\ faults' \in 0 .. MaxFaults
    BY <1>0, FailsTyped DEF Reopen, TypeOK
  <1>3. CASE Raise(p, "changed") /\ kind[p] # "bind"
    <2>1. Refuse(p, "changed")
      BY <1>3, RaiseIsRefuse
    <2>2. TypeOK'
      BY <1>0, <1>1, <1>2, <2>1, RefuseTypeOK DEF TypeOK, Reasons
    <2> QED
      BY <1>1, <2>1, <2>2, RefuseInv DEF Reasons
  <1>4. CASE Raise(p, "internal") /\ kind[p] # "bind"
    <2>1. Refuse(p, "internal")
      BY <1>4, RaiseIsRefuse
    <2>2. TypeOK'
      BY <1>0, <1>1, <1>2, <2>1, RefuseTypeOK DEF TypeOK, Reasons
    <2> QED
      BY <1>1, <2>1, <2>2, RefuseInv DEF Reasons
  <1>5. CASE Return(p, "read", <<>>) /\ UNCHANGED <<code, stuck>>
    <2>1. TypeOK'
      BY <1>0, <1>1, <1>2, <1>5, ReturnTyped DEF TypeOK
    <2> QED
      BY <1>1, <1>5, <2>1, QuietReturn
  <1>6. CASE /\ journal # 0 /\ file' = [file EXCEPT ![p] = journal] /\ Goto(p, "file")
             /\ UNCHANGED <<kind, root, held, scan, snap, code, answer, stuck>>
    <2>1. TypeOK'
      BY <1>0, <1>1, <1>2, <1>6 DEF TypeOK, Goto, Places
    <2> QED
      BY <1>0, <1>1, <1>6, <2>1, EarlyStep DEF Goto, Early, TypeOK
  <1> QED
    BY <1>3, <1>4, <1>5, <1>6 DEF Reopen

--------------------------------------------------------------------------------
(* The steps under the lock.                                               *)

LEMMA ScanInv == ASSUME JournalInv, NEW p \in Proc, LockAndScan(p) PROVE JournalInv'
  <1> DEFINE log == lines[file[p]]
  <1>0. TypeOK /\ AtWork(p)
    BY DEF JournalInv
  <1>1. pc[p] = "file" /\ UNCHANGED <<fileVars, faults, moves>>
    BY DEF LockAndScan
  <1>2. file[p] \in File /\ file[p] # 0 /\ held[p] = "none"
    BY <1>0, <1>1, FileInRange DEF AtWork, Scanned, Written
  <1>3. ASSUME NEW why \in Reasons, Refuse(p, why)
        PROVE  JournalInv'
    <2>1. TypeOK'
      BY <1>0, <1>1, <1>3, RefuseTypeOK DEF fileVars, TypeOK
    <2> QED
      BY <1>1, <1>3, <2>1, RefuseInv DEF fileVars
  <1>4. CASE Raise(p, "changed") /\ kind[p] = "map"
    <2>1. Refuse(p, "changed")
      BY <1>4, RaiseIsRefuse
    <2> QED
      BY <2>1, <1>3 DEF Reasons
  <1>5. CASE Return(p, "read", View(kind[p], log)) /\ UNCHANGED <<code, stuck>>
    <2>1. TypeOK'
      BY <1>0, <1>1, <1>5, ReturnTyped DEF TypeOK, fileVars
    <2> QED
      BY <1>1, <1>5, <2>1, QuietReturn DEF fileVars
  <1>6. CASE /\ ~IsTorn(log) /\ kind[p] \in Writers
             /\ held' = [held EXCEPT ![p] = "exclusive"]
             /\ scan' = [scan EXCEPT ![p] = log]
             /\ Goto(p, IF kind[p] = "bind" /\ ~snap[p].ignore
                        THEN "bind_ignore" ELSE "append")
             /\ UNCHANGED <<kind, root, file, snap, code, answer, stuck>>
    <2>1. log \in Seq(Record) /\ Increasing(log)
      BY <1>2, <1>6, SoundScan DEF JournalInv
    <2> DEFINE there == IF kind[p] = "bind" /\ ~snap[p].ignore
                        THEN "bind_ignore" ELSE "append"
    <2>2. pc' = [pc EXCEPT ![p] = there] /\ there \in Scanned
      BY <1>6 DEF Goto, Scanned
    <2>3. pc' \in [Proc -> Places] /\ pc'[p] \in Scanned
      BY <1>0, <2>2 DEF TypeOK, Places, Scanned
    <2>4. TypeOK'
      BY <1>0, <1>1, <1>6, <2>1, <2>3 DEF TypeOK, fileVars, Modes
    <2>5. \A q \in Proc \ {p} : file[q] = file'[p] => held[q] = "none"
      BY <1>6 DEF LockAndScan, FileCompatible, FileMode, Writers
    <2>6. scan'[p] = log /\ held'[p] = "exclusive" /\ file'[p] = file[p] /\ lines' = lines
          /\ kind'[p] = kind[p]
      BY <1>0, <1>1, <1>6 DEF TypeOK, fileVars
    <2>7. AtWork(p)'
      BY <1>2, <1>6, <2>1, <2>3, <2>6 DEF AtWork, Scanned, Written
    <2>8. Frame(p)
      BY <1>0, <1>6, <2>2 DEF Frame, TypeOK
    <2>9. Calm(p)
      BY <2>5, <2>6, <2>8 DEF Calm
    <2> QED
      BY <2>4, <2>7, <2>9, CalmStep
  <1> QED
    BY <1>3, <1>4, <1>5, <1>6 DEF LockAndScan, Reasons

\* A call under the lock goes to its next place.
LEMMA ScannedStep ==
    ASSUME JournalInv, NEW p \in Proc, TypeOK', pc[p] \in Scanned, lines' = lines,
           NEW there \in Scanned, Goto(p, there),
           UNCHANGED <<kind, root, held, file, scan, snap, code, answer, stuck>>
    PROVE  JournalInv'
  <1>0. TypeOK /\ AtWork(p)
    BY DEF JournalInv
  <1>1. pc'[p] = there /\ \A q \in Proc \ {p} : pc'[q] = pc[q]
    BY <1>0 DEF Goto, TypeOK
  <1>2. AtWork(p)'
    BY <1>0, <1>1 DEF AtWork, Scanned, Written
  <1>3. Frame(p)
    BY <1>1 DEF Frame
  <1>4. Calm(p)
    BY <1>0, <1>3 DEF Calm, AtWork
  <1> QED
    BY <1>2, <1>4, CalmStep

LEMMA BindIgnoreInv == ASSUME JournalInv, NEW p \in Proc, BindIgnore(p) PROVE JournalInv'
  <1>0. TypeOK
    BY DEF JournalInv
  <1>1. /\ pc[p] = "bind_ignore"
        /\ UNCHANGED <<sidecar, journal, lines, made, moved, moves>>
    BY DEF BindIgnore
  <1>2. CASE Fails /\ UNCHANGED ignore /\ Refuse(p, "internal")
    <2>1. TypeOK'
      BY <1>0, <1>1, <1>2, FailsTyped, RefuseTypeOK DEF TypeOK, Reasons
    <2> QED
      BY <1>1, <1>2, <2>1, RefuseInv DEF Reasons
  <1>3. CASE /\ Works /\ ignore' = TRUE /\ Goto(p, "append")
             /\ UNCHANGED <<kind, root, held, file, scan, snap, code, answer, stuck>>
    <2>1. TypeOK'
      BY <1>0, <1>1, <1>3 DEF TypeOK, Goto, Places, Works
    <2> QED
      BY <1>1, <1>3, <2>1, ScannedStep DEF Scanned
  <1> QED
    BY <1>2, <1>3 DEF BindIgnore

LEMMA CheckAppendInv == ASSUME JournalInv, NEW p \in Proc, CheckAppend(p) PROVE JournalInv'
  <1>0. TypeOK
    BY DEF JournalInv
  <1>1. pc[p] = "append" /\ UNCHANGED <<fileVars, faults, moves>>
    BY DEF CheckAppend
  <1>2. ASSUME NEW why \in Reasons, Refuse(p, why)
        PROVE  JournalInv'
    <2>1. TypeOK'
      BY <1>0, <1>1, <1>2, RefuseTypeOK DEF fileVars, TypeOK
    <2> QED
      BY <1>1, <1>2, <2>1, RefuseInv DEF fileVars
  <1>3. CASE /\ Goto(p, "write")
             /\ UNCHANGED <<kind, root, held, file, scan, snap, code, answer, stuck>>
    <2>1. TypeOK'
      BY <1>0, <1>1, <1>3 DEF TypeOK, Goto, Places, fileVars
    <2> QED
      BY <1>1, <1>3, <2>1, ScannedStep DEF Scanned, fileVars
  <1> QED
    BY <1>2, <1>3 DEF CheckAppend, Reasons
--------------------------------------------------------------------------------
(* The steps that write.                                                   *)

\* A scanned file with at most one line behind it, and what is cut off it.
LEMMA OneLine ==
    ASSUME NEW s \in Seq(Record), NEW x \in Line
    PROVE  /\ s \o <<>> = s /\ s \o <<x>> = Append(s, x)
           /\ s \in Seq(Line) /\ Append(s, x) \in Seq(Line)
           /\ Len(Append(s, x)) = Len(s) + 1 /\ Len(s) \in Nat
           /\ SubSeq(s, 1, Len(s)) = s /\ SubSeq(Append(s, x), 1, Len(s)) = s
  <1>1. s \in Seq(Line) /\ Len(s) \in Nat
    BY SeqMonotonic, LenProperties DEF Line
  <1>2. /\ Append(s, x) \in Seq(Line) /\ Len(Append(s, x)) = Len(s) + 1
        /\ \A i \in 1 .. Len(s) : Append(s, x)[i] = s[i]
    BY <1>1, AppendProperties
  <1>3. s \o <<>> = s /\ s \o <<x>> = Append(s, x)
    BY <1>1, ConcatEmptySeq, AppendIsConcat
  <1>4. ASSUME NEW t \in Seq(Line), Len(s) <= Len(t), \A i \in 1 .. Len(s) : t[i] = s[i]
        PROVE  SubSeq(t, 1, Len(s)) = s
    <2>1. /\ SubSeq(t, 1, Len(s)) \in Seq(Line) /\ Len(SubSeq(t, 1, Len(s))) = Len(s)
          /\ \A i \in 1 .. Len(s) : SubSeq(t, 1, Len(s))[i] = t[i]
      <3>1. Len(t) \in Nat
        BY LenProperties
      <3>2. \A i \in 1 .. Len(s) : t[i] \in Line
        BY <3>1, <1>1, <1>4, ElementOfSeq
      <3> QED
        BY <3>1, <3>2, <1>1, <1>4, SubSeqProperties
    <2> QED
      BY <2>1, <1>1, <1>4, SeqEqual
  <1> QED
    BY <1>1, <1>2, <1>3, <1>4

LEMMA OwnRecordTyped ==
    ASSUME TypeOK, NEW p \in Proc, AtWork(p), pc[p] \in Scanned \cup Written
    PROVE  OwnRecord(p) \in Record /\ OwnRecord(p).id = HighestId(scan[p]) + 1
  <1>1. scan[p] \in Seq(Record) /\ Increasing(scan[p]) /\ kind[p] \in Writers
    BY DEF TypeOK, AtWork
  <1>2. HighestId(scan[p]) \in Nat
    BY <1>1, HighestIsHighest
  <1>3. Tool(kind[p]) \in {"apply_edits", "map_rounds", "export"}
    BY <1>1 DEF Tool, Writers
  <1> QED
    BY <1>2, <1>3 DEF OwnRecord, Record

\* Whatever a writer has put behind what it scanned, the file is sound.
LEMMA WriterSound ==
    ASSUME TypeOK, NEW p \in Proc, AtWork(p), pc[p] \in Scanned \cup Written, NEW log,
           log \in {scan[p], Append(scan[p], Torn), Append(scan[p], OwnRecord(p))}
    PROVE  Sound(log) /\ log \in Seq(Line)
  <1>1. scan[p] \in Seq(Record) /\ Increasing(scan[p])
    BY DEF TypeOK, AtWork
  <1>2. /\ OwnRecord(p) \in Record /\ OwnRecord(p) \in Line
        /\ OwnRecord(p).id = HighestId(scan[p]) + 1
    BY OwnRecordTyped DEF Line
  <1>3. /\ Append(scan[p], OwnRecord(p)) \in Seq(Record)
        /\ Increasing(Append(scan[p], OwnRecord(p)))
    BY <1>1, <1>2, AppendIncreases
  <1>4. log \in Seq(Line)
    BY <1>1, <1>2, OneLine, LineShape
  <1> QED
    BY <1>1, <1>3, <1>4 DEF Sound
\* A write behind what was scanned keeps the files typed, and is seen nowhere else.
LEMMA WriteTyped ==
    ASSUME TypeOK, NEW p \in Proc, AtWork(p), pc[p] \in Scanned \cup Written, NEW log,
           log \in {scan[p], Append(scan[p], Torn), Append(scan[p], OwnRecord(p))},
           lines' = [lines EXCEPT ![file[p]] = log]
    PROVE  /\ lines' \in [File -> Seq(Record \cup {Torn})]
           /\ lines'[file[p]] = log /\ Sound(log)
           /\ \A f \in File \ {file[p]} : lines'[f] = lines[f]
           /\ held[p] = "exclusive" /\ file[p] \in File
  <1>1. Sound(log) /\ log \in Seq(Record \cup {Torn})
    BY WriterSound DEF Line
  <1>2. held[p] = "exclusive" /\ file[p] \in File
    BY FileInRange DEF AtWork
  <1>3. lines \in [File -> Seq(Record \cup {Torn})]
    BY DEF TypeOK
  <1> QED
    BY <1>1, <1>2, <1>3

LEMMA CalmWrite ==
    ASSUME JournalInv, TypeOK', NEW p \in Proc, AtWork(p)', Frame(p),
           held[p] = "exclusive", held'[p] = "none" \/ file'[p] = file[p],
           file[p] \in File, Sound(lines'[file[p]]),
           \A f \in File \ {file[p]} : lines'[f] = lines[f]
    PROVE  JournalInv'
  <1>1. Calm(p)
    BY DEF Calm
  <1> QED
    BY <1>1, CalmStep

LEMMA AppendLineInv == ASSUME JournalInv, NEW p \in Proc, AppendLine(p) PROVE JournalInv'
  <1>0. TypeOK /\ AtWork(p)
    BY DEF JournalInv
  <1>1. /\ pc[p] = "write" /\ pc[p] \in Scanned \cup Written
        /\ UNCHANGED <<sidecar, ignore, journal, made, moved, moves>>
    BY DEF AppendLine, Scanned
  <1>2. /\ lines[file[p]] = scan[p] /\ scan[p] \in Seq(Record)
        /\ OwnRecord(p) \in Line /\ Torn \in Line
    BY <1>0, <1>1, OwnRecordTyped, LineShape DEF AtWork, Scanned, TypeOK, Line
  <1>3. CASE /\ Works /\ lines' = [lines EXCEPT ![file[p]] = Append(@, OwnRecord(p))]
             /\ Goto(p, "appended")
             /\ UNCHANGED <<kind, root, held, file, scan, snap, code, answer, stuck>>
    <2> DEFINE log == Append(scan[p], OwnRecord(p))
    <2>1. lines' = [lines EXCEPT ![file[p]] = log]
      BY <1>2, <1>3
    <2>2. /\ lines' \in [File -> Seq(Record \cup {Torn})]
          /\ lines'[file[p]] = log /\ Sound(log)
          /\ \A f \in File \ {file[p]} : lines'[f] = lines[f]
          /\ held[p] = "exclusive" /\ file[p] \in File
      BY <1>0, <1>1, <2>1, WriteTyped
    <2>3. TypeOK'
      BY <1>0, <1>1, <1>3, <2>2 DEF TypeOK, Goto, Places, Works
    <2>4. /\ pc'[p] = "appended" /\ OwnRecord(p)' = OwnRecord(p)
          /\ UNCHANGED <<held, file, scan, kind, snap>>
      BY <1>0, <1>3 DEF Goto, TypeOK, OwnRecord
    <2>5. AtWork(p)'
      BY <1>0, <1>1, <2>2, <2>4 DEF AtWork, Scanned, Written
    <2>6. Frame(p)
      BY <1>0, <1>3 DEF Frame, Goto, TypeOK
    <2> QED
      BY <2>2, <2>3, <2>4, <2>5, <2>6, CalmWrite
  <1>4. ASSUME Fails, Refuse(p, "internal"), NEW part \in {<<>>, <<Torn>>, <<OwnRecord(p)>>},
               lines' = [lines EXCEPT ![file[p]] = @ \o part]
        PROVE  JournalInv'
    <2> DEFINE log == scan[p] \o part
    <2>1. lines' = [lines EXCEPT ![file[p]] = log]
      BY <1>2, <1>4
    <2>2. log \in {scan[p], Append(scan[p], Torn), Append(scan[p], OwnRecord(p))}
      BY <1>2, <1>4, OneLine
    <2>3. /\ lines' \in [File -> Seq(Record \cup {Torn})]
          /\ lines'[file[p]] = log /\ Sound(log)
          /\ \A f \in File \ {file[p]} : lines'[f] = lines[f]
          /\ held[p] = "exclusive" /\ file[p] \in File
      BY <1>0, <1>1, <2>1, <2>2, WriteTyped
    <2>4. TypeOK'
      BY <1>0, <1>1, <1>4, <2>3, FailsTyped, RefuseTypeOK DEF TypeOK, Reasons
    <2>5. /\ UNCHANGED <<kind, file, scan, snap>>
          /\ \A q \in Proc \ {p} : pc'[q] = pc[q] /\ held'[q] = held[q]
          /\ \/ pc'[p] = "done" /\ held'[p] = "none"
             \/ pc'[p] = "undo" /\ held'[p] = held[p]
      BY <1>0, <1>1, <1>4, RefuseTyped DEF Reasons
    <2>6. OwnRecord(p)' = OwnRecord(p)
      BY <2>5 DEF OwnRecord
    <2>7. AtWork(p)'
      <3>1. CASE pc'[p] = "done" /\ held'[p] = "none"
        BY <3>1 DEF AtWork, Scanned, Written
      <3>2. CASE pc'[p] = "undo" /\ held'[p] = held[p]
        BY <3>2, <1>0, <1>1, <2>2, <2>3, <2>5, <2>6 DEF AtWork, Scanned, Written
      <3> QED
        BY <2>5, <3>1, <3>2
    <2>8. Frame(p)
      BY <2>5 DEF Frame
    <2> QED
      BY <2>3, <2>4, <2>5, <2>7, <2>8, CalmWrite
  <1> QED
    BY <1>3, <1>4 DEF AppendLine

LEMMA PublishInv == ASSUME JournalInv, NEW p \in Proc, Publish(p) PROVE JournalInv'
  <1>0. TypeOK
    BY DEF JournalInv
  <1>1. UNCHANGED <<fileVars, faults, moves>>
    BY DEF Publish
  <1>2. CASE Refuse(p, "changed")
    <2>1. TypeOK'
      BY <1>0, <1>1, <1>2, RefuseTypeOK DEF fileVars, TypeOK, Reasons
    <2> QED
      BY <1>1, <1>2, <2>1, RefuseInv DEF fileVars, Reasons
  <1>3. ASSUME NEW seen, Return(p, "written", seen), UNCHANGED <<code, stuck>>
        PROVE  JournalInv'
    <2>1. TypeOK'
      BY <1>0, <1>1, <1>3, ReturnTyped DEF TypeOK, fileVars
    <2> QED
      BY <1>1, <1>3, <2>1, QuietReturn DEF fileVars
  <1> QED
    BY <1>2, <1>3 DEF Publish
\* What is cut off is the call's own line.
LEMMA CutIsScan ==
    ASSUME TypeOK, NEW p \in Proc, AtWork(p), pc[p] = "undo"
    PROVE  SubSeq(lines[file[p]], 1, Len(scan[p])) = scan[p]
  <1>1. /\ lines[file[p]] \in {scan[p], Append(scan[p], Torn),
                               Append(scan[p], OwnRecord(p))}
        /\ scan[p] \in Seq(Record)
    BY DEF AtWork, TypeOK, Written
  <1>2. OwnRecord(p) \in Line /\ Torn \in Line
    BY OwnRecordTyped, LineShape DEF Written, Line
  <1> QED
    BY <1>1, <1>2, OneLine

LEMMA RollBackInv == ASSUME JournalInv, NEW p \in Proc, RollBack(p) PROVE JournalInv'
  <1> DEFINE f == file[p]
             cuts == pc[p] = "undo" /\ snap[p].journal /\ Len(lines[f]) > Len(scan[p])
  <1>0. TypeOK /\ AtWork(p)
    BY DEF JournalInv
  <1>1. /\ pc[p] \in {"rollback", "undo"} /\ UNCHANGED <<made, moved, moves>>
        /\ Return(p, "write_failed", <<>>)
    BY DEF RollBack
  <1>2. \/ lines' = lines
        \/ cuts /\ lines' = [lines EXCEPT ![f] = SubSeq(@, 1, Len(scan[p]))]
    BY DEF RollBack
  <1>3. /\ sidecar' \in BOOLEAN /\ ignore' \in BOOLEAN /\ journal' \in {journal, 0}
        /\ faults' \in 0 .. MaxFaults /\ stuck' \in {stuck, stuck \cup {p}}
        /\ code' \in {[code EXCEPT ![p] = code[p]], [code EXCEPT ![p] = "internal"]}
    <2>1. faults' \in 0 .. MaxFaults
      BY <1>0, FailsTyped DEF RollBack
    <2>2. sidecar' \in BOOLEAN /\ ignore' \in BOOLEAN
      BY <1>0 DEF RollBack, TypeOK
    <2>3. journal' \in {journal, 0} /\ stuck' \in {stuck, stuck \cup {p}}
      BY DEF RollBack
    <2>4. code' \in {[code EXCEPT ![p] = code[p]], [code EXCEPT ![p] = "internal"]}
      BY DEF RollBack
    <2> QED
      BY <2>1, <2>2, <2>3, <2>4
  <1>4. /\ pc' \in [Proc -> Places] /\ root' \in [Proc -> Modes]
        /\ held' \in [Proc -> Modes] /\ DOMAIN answer' = Proc
        /\ \A q \in Proc : answer'[q].status \in
              {"none", "disabled", "written", "write_failed", "read", "refused"}
        /\ UNCHANGED <<kind, file, scan, snap>>
        /\ pc'[p] = "done" /\ held'[p] = "none"
        /\ \A q \in Proc \ {p} : pc'[q] = pc[q] /\ held'[q] = held[q]
    BY <1>0, <1>1, ReturnTyped
  <1>5. ASSUME lines' \in [File -> Seq(Record \cup {Torn})] PROVE TypeOK'
    <2>1. code' \in [Proc -> {"none", "busy", "changed", "corrupt", "oversize", "internal"}]
      BY <1>0, <1>3 DEF TypeOK
    <2>2. /\ stuck' \in SUBSET Proc /\ made' = made /\ made \in 0 .. MaxFiles
          /\ journal' \in 0 .. made'
      BY <1>0, <1>1, <1>3, BoundsAreNumbers DEF TypeOK
    <2>3. /\ kind' \in [Proc -> Kinds] /\ file' \in [Proc -> 0 .. made']
          /\ scan' \in [Proc -> Seq(Record)] /\ moved' \in BOOLEAN
          /\ snap' \in [Proc -> [sidecar : BOOLEAN, ignore : BOOLEAN, journal : BOOLEAN,
                                  eof : Nat]]
          /\ moves' \in 0 .. MaxMoves
      BY <1>0, <1>1, <1>4 DEF TypeOK
    <2> QED
      BY <1>1, <1>3, <1>4, <1>5, <2>1, <2>2, <2>3 DEF TypeOK
  <1>6. AtWork(p)' /\ Frame(p)
    BY <1>4 DEF AtWork, Frame, Scanned, Written
  <1>7. CASE lines' = lines
    <2>1. TypeOK'
      BY <1>0, <1>5, <1>7 DEF TypeOK
    <2> QED
      BY <1>1, <1>7, <2>1, QuietReturn
  <1>8. CASE cuts /\ lines' = [lines EXCEPT ![f] = SubSeq(@, 1, Len(scan[p]))]
    <2>1. pc[p] = "undo" /\ pc[p] \in Scanned \cup Written
      BY <1>8 DEF Written
    <2>2. f \in File /\ lines \in [File -> Seq(Record \cup {Torn})]
      BY <1>0, <2>1, FileInRange DEF AtWork, TypeOK
    <2>3. lines' = [lines EXCEPT ![f] = scan[p]]
      BY <1>0, <1>8, <2>1, CutIsScan
    <2>4. /\ lines' \in [File -> Seq(Record \cup {Torn})]
          /\ lines'[f] = scan[p] /\ Sound(scan[p])
          /\ \A g \in File \ {f} : lines'[g] = lines[g]
          /\ held[p] = "exclusive"
      BY <1>0, <2>1, <2>3, WriteTyped
    <2>5. TypeOK'
      BY <1>5, <2>4
    <2> QED
      BY <1>4, <1>6, <2>2, <2>4, <2>5, CalmWrite
  <1> QED
    BY <1>2, <1>7, <1>8

LEMMA KillInv == ASSUME JournalInv, NEW p \in Proc, Kill(p) PROVE JournalInv'
  <1>0. TypeOK /\ AtWork(p)
    BY DEF JournalInv
  <1>1. /\ pc' = [pc EXCEPT ![p] = "done"] /\ root' = [root EXCEPT ![p] = "none"]
        /\ held' = [held EXCEPT ![p] = "none"] /\ faults' \in 0 .. MaxFaults
        /\ UNCHANGED <<sidecar, ignore, journal, made, moved, moves>>
        /\ UNCHANGED <<kind, file, scan, snap, code, answer, stuck>>
    BY <1>0, FailsTyped DEF Kill, Goto
  <1>2. ASSUME lines' \in [File -> Seq(Record \cup {Torn})] PROVE TypeOK'
    BY <1>0, <1>1, <1>2 DEF TypeOK, Places, Modes
  <1>3. /\ pc'[p] = "done" /\ held'[p] = "none"
        /\ \A q \in Proc \ {p} : pc'[q] = pc[q] /\ held'[q] = held[q]
    BY <1>0, <1>1 DEF TypeOK
  <1>4. AtWork(p)' /\ Frame(p)
    BY <1>1, <1>3 DEF AtWork, Frame, Scanned, Written
  <1>5. CASE lines' = lines
    <2>1. TypeOK'
      BY <1>0, <1>2, <1>5 DEF TypeOK
    <2>2. Calm(p)
      BY <1>3, <1>4, <1>5 DEF Calm
    <2> QED
      BY <1>4, <2>1, <2>2, CalmStep
  <1>6. CASE pc[p] = "write" /\ lines' = [lines EXCEPT ![file[p]] = Append(@, Torn)]
    <2>1. pc[p] \in Scanned \cup Written /\ lines[file[p]] = scan[p]
      BY <1>0, <1>6 DEF Scanned, AtWork
    <2> DEFINE log == Append(scan[p], Torn)
    <2>2. lines' = [lines EXCEPT ![file[p]] = log]
      BY <1>6, <2>1
    <2>3. /\ lines' \in [File -> Seq(Record \cup {Torn})]
          /\ lines'[file[p]] = log /\ Sound(log)
          /\ \A f \in File \ {file[p]} : lines'[f] = lines[f]
          /\ held[p] = "exclusive" /\ file[p] \in File
      BY <1>0, <2>1, <2>2, WriteTyped
    <2>4. TypeOK'
      BY <1>2, <2>3
    <2> QED
      BY <1>3, <1>4, <2>3, <2>4, CalmWrite
  <1> QED
    BY <1>5, <1>6 DEF Kill

LEMMA UserInv == ASSUME JournalInv, ArchiveJournal \/ MoveWorkspace PROVE JournalInv'
  <1>1. TypeOK'
    <2>1. TypeOK
      BY DEF JournalInv
    <2>2. moves + 1 \in 0 .. MaxMoves
      BY <2>1, BoundsAreNumbers DEF ArchiveJournal, MoveWorkspace, TypeOK
    <2>3. 0 \in 0 .. made
      BY <2>1 DEF TypeOK
    <2> QED
      BY <2>1, <2>2, <2>3 DEF ArchiveJournal, MoveWorkspace, TypeOK, callVars
  <1>2. UNCHANGED <<callVars, lines>>
    BY DEF ArchiveJournal, MoveWorkspace
  <1>3. ASSUME NEW p \in Proc PROVE AtWork(p)'
    <2>1. AtWork(p)
      BY DEF JournalInv
    <2> QED
      BY <1>2, <2>1 DEF AtWork, callVars, OwnRecord
  <1>4. Exclusive'
    BY <1>2 DEF JournalInv, Exclusive, callVars
  <1>5. \A f \in File : Sound(lines'[f])
    BY <1>2 DEF JournalInv
  <1> QED
    BY <1>1, <1>3, <1>4, <1>5 DEF JournalInv

LEMMA InitInv == Init => JournalInv
  <1> SUFFICES ASSUME Init PROVE JournalInv
    OBVIOUS
  <1>1. PICK left \in Initial :
          /\ sidecar = left.s /\ ignore = left.i /\ journal = left.j /\ made = left.j
          /\ lines = [f \in File |-> IF f = left.j THEN left.l ELSE <<>>]
    BY DEF Init
  <1>2. left \in Leftover
    BY <1>1, InitialIsLeftover
  <1>3. OnePast \in Record /\ OnePast \in Line
    BY DEF OnePast, Record, Line
  <1>4. /\ left.s \in BOOLEAN /\ left.i \in BOOLEAN /\ left.j \in {0, 1}
        /\ left.l \in {<<>>, <<OnePast>>}
    <2>1. CASE left = [s |-> FALSE, i |-> FALSE, j |-> 0, l |-> <<>>]
      BY <2>1
    <2>2. CASE left = [s |-> TRUE, i |-> FALSE, j |-> 0, l |-> <<>>]
      BY <2>2
    <2>3. CASE left = [s |-> TRUE, i |-> TRUE, j |-> 0, l |-> <<>>]
      BY <2>3
    <2>4. CASE left = [s |-> TRUE, i |-> FALSE, j |-> 1, l |-> <<>>]
      BY <2>4
    <2>5. CASE left = [s |-> TRUE, i |-> TRUE, j |-> 1, l |-> <<OnePast>>]
      BY <2>5
    <2> QED
      BY <1>2, <2>1, <2>2, <2>3, <2>4, <2>5, Zenon DEF Leftover
  <1>5. left.l \in Seq(Record) /\ left.l \in Seq(Line)
    <2>1. <<OnePast>> \in Seq(Record) /\ <<OnePast>> \in Seq(Line)
      BY <1>3
    <2>2. <<>> \in Seq(Record) /\ <<>> \in Seq(Line)
      BY EmptySeq
    <2> QED
      BY <1>4, <2>1, <2>2
  <1>6. Increasing(<<>>) /\ Increasing(<<OnePast>>)
    <2>1. Len(<<>>) = 0 /\ Len(<<OnePast>>) = 1
      OBVIOUS
    <2>2. 1 .. 0 = {} /\ 1 .. 1 = {1}
      OBVIOUS
    <2> QED
      BY <2>1, <2>2 DEF Increasing
  <1>7. \A f \in File : Sound(lines[f])
    BY <1>1, <1>4, <1>5, <1>6, EmptySeq DEF Sound
  <1>8. lines \in [File -> Seq(Line)]
    BY <1>1, <1>5, EmptySeq
  <1>9. <<>> \in Seq(Record)
    BY EmptySeq
  <1>10. TypeOK
    <2>1. made \in 0 .. MaxFiles /\ journal \in 0 .. made
      BY <1>1, <1>4, BoundsAreNumbers
    <2>2. snap \in [Proc -> [sidecar : BOOLEAN, ignore : BOOLEAN, journal : BOOLEAN,
                             eof : Nat]]
      BY DEF Init, Absent
    <2>3. /\ kind \in [Proc -> Kinds] /\ pc \in [Proc -> Places]
          /\ root \in [Proc -> Modes] /\ held \in [Proc -> Modes]
      BY DEF Init, Places, Modes
    <2>4. file \in [Proc -> 0 .. made] /\ scan \in [Proc -> Seq(Record)]
      BY <1>9, <2>1 DEF Init
    <2>5. /\ DOMAIN answer = Proc /\ \A p \in Proc : answer[p].status = "none"
          /\ \A p \in Proc : code[p] = "none" /\ DOMAIN code = Proc
          /\ moved = FALSE /\ stuck = {} /\ faults = 0 /\ moves = 0
      BY DEF Init, Pending
    <2>6. code \in [Proc -> {"none", "busy", "changed", "corrupt", "oversize", "internal"}]
      BY DEF Init
    <2>7. faults \in 0 .. MaxFaults /\ moves \in 0 .. MaxMoves /\ stuck \in SUBSET Proc
      BY <2>5, BoundsAreNumbers
    <2> QED
      BY <1>1, <1>4, <1>8, <2>1, <2>2, <2>3, <2>4, <2>5, <2>6, <2>7 DEF TypeOK, Line
  <1>11. \A p \in Proc : AtWork(p)
    BY DEF Init, AtWork, Scanned, Written
  <1>12. Exclusive
    BY DEF Init, Exclusive
  <1> QED
    BY <1>7, <1>10, <1>11, <1>12 DEF JournalInv

LEMMA StepInv == ASSUME JournalInv, [Next]_journalVars PROVE JournalInv'
  <1>1. CASE UNCHANGED journalVars
    <2>1. UNCHANGED <<callVars, lines>> /\ TypeOK'
      BY <1>1 DEF journalVars, fileVars, callVars, JournalInv, TypeOK
    <2>2. ASSUME NEW p \in Proc PROVE AtWork(p)'
      <3>1. AtWork(p)
        BY DEF JournalInv
      <3> QED
        BY <2>1, <3>1 DEF AtWork, callVars, OwnRecord
    <2>3. Exclusive' /\ \A f \in File : Sound(lines'[f])
      BY <2>1 DEF JournalInv, Exclusive, callVars
    <2> QED
      BY <2>1, <2>2, <2>3 DEF JournalInv
  <1>2. CASE Next
    BY <1>2, DisabledInv, StartInv, LockRootInv, BusyInv, MakeInv, OpenInv, BindJournalInv,
       ReopenInv, ScanInv, BindIgnoreInv, CheckAppendInv, AppendLineInv, PublishInv,
       RollBackInv, KillInv, UserInv DEF Next, Step
  <1> QED
    BY <1>1, <1>2

\* The invariant holds of every state the calls, the system and the user reach.
THEOREM JournalInvariant == Spec => []JournalInv
  BY InitInv, StepInv, PTL DEF Spec

\* Files, locks, scans and answers keep their types.
THEOREM JournalTypeCorrect == Spec => []TypeOK
  <1>1. JournalInv => TypeOK
    BY DEF JournalInv
  <1> QED
    BY <1>1, JournalInvariant, PTL

\* However calls, kills, failing appends and rollbacks interleave, the ids of a
\* journal increase and only its last line can be cut short.
THEOREM JournalsStayWellFormed == Spec => []JournalWellFormed
  <1>1. JournalInv => JournalWellFormed
    BY SoundIsWellFormed DEF JournalInv, JournalWellFormed
  <1> QED
    BY <1>1, JournalInvariant, PTL

--------------------------------------------------------------------------------
(* Whose lines are where.                                                  *)

Clear(p, f) == \A i \in DOMAIN lines[f] : lines[f][i].by # p

\* A call has no line before it appended, then at most the one behind its scan;
\* a path-bound one that failed has none where it would be read.
Trace(p) ==
    /\ pc[p] # "done" => answer[p] = Pending
    /\ pc[p] \in {"undo", "rollback"} => kind[p] = "bind"
    /\ pc[p] \notin Written \cup {"done"} => \A f \in File : Clear(p, f)
    /\ pc[p] \in Written =>
          \A f \in File : \A i \in DOMAIN lines[f] :
             lines[f][i].by = p => f = file[p] /\ i > Len(scan[p])
    /\ pc[p] = "appended" => lines[file[p]] = Append(scan[p], OwnRecord(p))
    /\ (pc[p] = "done" /\ kind[p] = "bind" /\ answer[p].status = "write_failed"
           /\ p \notin stuck /\ journal # 0) => Clear(p, journal)

\* A journal that has not been made yet is empty.
Fresh == \A f \in File : f > made => lines[f] = <<>>

TraceInv == JournalInv /\ Fresh /\ \A p \in Proc : Trace(p)

\* A step is one call's: the others keep what they are and were told.
Alone(p) ==
    /\ Frame(p)
    /\ \A q \in Proc \ {p} : answer'[q] = answer[q] /\ (q \in stuck' <=> q \in stuck)
    /\ pc'[p] # "done" => answer'[p] = answer[p]

\* A call renames a journal it makes, or unlinks one.
Renames ==
    \/ made' = made /\ journal' \in {journal, 0}
    \/ made' = made + 1 /\ journal' = made + 1 /\ lines' = lines

LEMMA ReturnAlone ==
    ASSUME TypeOK, NEW p \in Proc, NEW status, NEW seen, Return(p, status, seen),
           stuck' \in {stuck, stuck \cup {p}}
    PROVE  /\ Alone(p) /\ pc'[p] = "done"
           /\ answer'[p] = [status |-> status, seen |-> seen]
  BY DEF Return, Goto, TypeOK, Alone, Frame

LEMMA RefuseAlone ==
    ASSUME TypeOK, NEW p \in Proc, NEW why, Refuse(p, why) PROVE Alone(p)
  <1>1. CASE kind[p] = "bind" /\ pc[p] \notin {"start", "root", "snapshot"}
    BY <1>1 DEF Refuse, Goto, TypeOK, Alone, Frame
  <1>2. CASE ~(kind[p] = "bind" /\ pc[p] \notin {"start", "root", "snapshot"})
    <2>1. Raise(p, why)
      BY <1>2 DEF Refuse
    <2>2. PICK status, seen : Return(p, status, seen) /\ stuck' = stuck
      BY <2>1 DEF Raise
    <2> QED
      BY <2>2, ReturnAlone
  <1> QED
    BY <1>1, <1>2

LEMMA RaiseAlone ==
    ASSUME TypeOK, NEW p \in Proc, NEW why, Raise(p, why) PROVE Alone(p)
  <1>1. PICK status, seen : Return(p, status, seen) /\ stuck' = stuck
    BY DEF Raise
  <1> QED
    BY <1>1, ReturnAlone

LEMMA GoesOnAlone ==
    ASSUME TypeOK, NEW p \in Proc, NEW there, Goto(p, there), UNCHANGED <<answer, stuck>>,
           \A q \in Proc \ {p} : /\ held'[q] = held[q] /\ file'[q] = file[q]
                                /\ scan'[q] = scan[q] /\ kind'[q] = kind[q] /\ snap'[q] = snap[q]
    PROVE  Alone(p)
  BY DEF Goto, TypeOK, Alone, Frame

LEMMA NewJournalNames ==
    ASSUME TypeOK, NEW p \in Proc, NewJournal(p) \/ FoundJournal(p), lines' = lines
    PROVE  Renames /\ \A q \in Proc \ {p} : file'[q] = file[q]
  BY DEF TypeOK, NewJournal, FoundJournal, Renames

LEMMA StepAlone ==
    ASSUME TypeOK, NEW p \in Proc, Step(p) \/ Kill(p)
    PROVE  Alone(p) /\ Renames
  <1>1. CASE Disabled(p)
    <2>1. CASE kind[p] = "export"
      BY <1>1, <2>1 DEF Disabled, TypeOK, Alone, Frame, Renames, fileVars
    <2>2. CASE kind[p] # "export"
      BY <1>1, <2>2, ReturnAlone DEF Disabled, Renames, fileVars
    <2> QED
      BY <2>1, <2>2
  <1>2. CASE Start(p)
    <2>1. CASE Raise(p, "changed")
      BY <1>2, <2>1, RaiseAlone DEF Start, Renames, fileVars
    <2>2. CASE Return(p, "read", <<>>) /\ UNCHANGED <<code, stuck>>
      BY <1>2, <2>2, ReturnAlone DEF Start, Renames, fileVars
    <2>3. CASE \E there : Goto(p, there) /\ file' \in {file, [file EXCEPT ![p] = journal]}
                          /\ UNCHANGED <<kind, held, scan, snap, answer, stuck>>
      BY <1>2, <2>3, GoesOnAlone DEF Start, Renames, fileVars, TypeOK
    <2> QED
      BY <1>2, <2>1, <2>2, <2>3 DEF Start
  <1>3. CASE LockRoot(p) \/ TakeSnapshot(p)
    BY <1>3, GoesOnAlone DEF LockRoot, TakeSnapshot, Renames, fileVars, TypeOK
  <1>4. CASE Busy(p)
    BY <1>4, RefuseAlone DEF Busy, Renames, fileVars
  <1>5. CASE MakeSidecar(p) \/ EnsureIgnore(p) \/ BindIgnore(p)
    <2>1. Renames
      BY <1>5 DEF MakeSidecar, EnsureIgnore, BindIgnore, Renames
    <2>2. CASE Refuse(p, "internal")
      BY <2>1, <2>2, RefuseAlone
    <2>3. CASE \E there : Goto(p, there)
                          /\ UNCHANGED <<kind, held, file, scan, snap, answer, stuck>>
      BY <2>1, <2>3, GoesOnAlone
    <2> QED
      BY <1>5, <2>2, <2>3 DEF MakeSidecar, EnsureIgnore, BindIgnore
  <1>6. CASE OpenForAppend(p) \/ BindJournal(p)
    <2>1. lines' = lines
      BY <1>6 DEF OpenForAppend, BindJournal
    <2>2. CASE Refuse(p, "internal") /\ UNCHANGED <<made, journal>>
      BY <2>1, <2>2, RefuseAlone DEF Renames
    <2>3. CASE /\ NewJournal(p) \/ FoundJournal(p) \/ UNCHANGED <<made, journal, file>>
               /\ Goto(p, "file") /\ UNCHANGED <<kind, held, scan, snap, answer, stuck>>
      BY <2>1, <2>3, NewJournalNames, GoesOnAlone DEF Renames
    <2> QED
      BY <1>6, <2>2, <2>3 DEF OpenForAppend, BindJournal
  <1>7. CASE Reopen(p)
    <2>1. Renames
      BY <1>7 DEF Reopen, Renames
    <2>2. CASE Raise(p, "changed") \/ Raise(p, "internal")
      BY <2>1, <2>2, RaiseAlone
    <2>3. CASE Return(p, "read", <<>>) /\ UNCHANGED <<code, stuck>>
      BY <2>1, <2>3, ReturnAlone
    <2>4. CASE /\ file' = [file EXCEPT ![p] = journal] /\ Goto(p, "file")
               /\ UNCHANGED <<kind, root, held, scan, snap, code, answer, stuck>>
      BY <2>1, <2>4, GoesOnAlone DEF TypeOK
    <2> QED
      BY <1>7, <2>2, <2>3, <2>4 DEF Reopen
  <1>8. CASE LockAndScan(p)
    <2>1. Renames
      BY <1>8 DEF LockAndScan, Renames, fileVars
    <2>2. CASE Refuse(p, "changed") \/ Refuse(p, "corrupt")
      BY <2>1, <2>2, RefuseAlone
    <2>3. CASE Raise(p, "changed")
      BY <2>1, <2>3, RaiseAlone
    <2>4. CASE \E seen : Return(p, "read", seen) /\ UNCHANGED <<code, stuck>>
      BY <2>1, <2>4, ReturnAlone
    <2>5. CASE /\ held' = [held EXCEPT ![p] = "exclusive"]
               /\ \E log : scan' = [scan EXCEPT ![p] = log]
               /\ \E there : Goto(p, there)
               /\ UNCHANGED <<kind, root, file, snap, code, answer, stuck>>
      BY <2>1, <2>5, GoesOnAlone DEF TypeOK
    <2> QED
      BY <1>8, <2>2, <2>3, <2>4, <2>5 DEF LockAndScan
  <1>9. CASE CheckAppend(p)
    <2>1. Renames
      BY <1>9 DEF CheckAppend, Renames, fileVars
    <2> QED
      BY <1>9, <2>1, RefuseAlone, GoesOnAlone DEF CheckAppend
  <1>10. CASE AppendLine(p)
    <2>1. Renames
      BY <1>10 DEF AppendLine, Renames
    <2> QED
      BY <1>10, <2>1, RefuseAlone, GoesOnAlone DEF AppendLine
  <1>11. CASE Publish(p)
    <2>1. Renames
      BY <1>11 DEF Publish, Renames, fileVars
    <2>2. CASE Refuse(p, "changed")
      BY <2>1, <2>2, RefuseAlone
    <2>3. CASE (\E seen : Return(p, "written", seen)) /\ UNCHANGED <<code, stuck>>
      BY <2>1, <2>3, ReturnAlone
    <2> QED
      BY <1>11, <2>2, <2>3 DEF Publish
  <1>12. CASE RollBack(p)
    <2>1. Renames
      BY <1>12 DEF RollBack, Renames
    <2>2. stuck' \in {stuck, stuck \cup {p}} /\ Return(p, "write_failed", <<>>)
      BY <1>12 DEF RollBack
    <2> QED
      BY <2>1, <2>2, ReturnAlone
  <1>13. CASE Kill(p)
    BY <1>13 DEF Kill, Goto, TypeOK, Alone, Frame, Renames
  <1> QED
    BY <1>1, <1>2, <1>3, <1>4, <1>5, <1>6, <1>7, <1>8, <1>9, <1>10, <1>11, <1>12, <1>13
       DEF Step

\* What a step of p may do to the files, for everybody else to keep their trace.
Adds(p) ==
    \A f \in File :
       /\ lines'[f] # lines[f] => f = file[p] /\ f # 0 /\ held[p] = "exclusive"
       /\ \A i \in DOMAIN lines'[f] :
             \/ i \in DOMAIN lines[f] /\ lines'[f][i] = lines[f][i]
             \/ lines'[f][i].by \in {p, Earlier}

LEMMA AdderTrace ==
    ASSUME TraceInv, NEW p \in Proc, Alone(p), Renames, Adds(p), Trace(p)', TypeOK'
    PROVE  Fresh' /\ \A q \in Proc : Trace(q)'
  <1>0. TypeOK
    BY DEF TraceInv, JournalInv
  <1>1. ASSUME NEW f \in File, f > made PROVE lines'[f] = lines[f]
    <2>1. file[p] \in 0 .. made /\ made \in Nat /\ f \in Nat
      BY <1>0, BoundsAreNumbers DEF TypeOK, File
    <2> QED
      BY <2>1, <1>1 DEF Adds
  <1>2. Fresh'
    <2>1. made' >= made
      BY <1>0, BoundsAreNumbers DEF Renames, TypeOK
    <2>2. ASSUME NEW f \in File, f > made' PROVE lines'[f] = <<>>
      <3>1. f > made
        BY <1>0, <2>1, <2>2, BoundsAreNumbers DEF TypeOK, File, Renames
      <3> QED
        BY <3>1, <1>1 DEF TraceInv, Fresh
    <2> QED
      BY <2>2 DEF Fresh
  <1>3. ASSUME NEW q \in Proc, q # p PROVE Trace(q)'
    <2>1. /\ pc'[q] = pc[q] /\ held'[q] = held[q] /\ file'[q] = file[q]
          /\ scan'[q] = scan[q] /\ kind'[q] = kind[q] /\ answer'[q] = answer[q]
          /\ (q \in stuck' <=> q \in stuck)
      BY <1>3 DEF Alone, Frame
    <2>2. Trace(q) /\ AtWork(q) /\ AtWork(p)
      BY DEF TraceInv, JournalInv
    <2>3. \A f \in File : \A i \in DOMAIN lines'[f] :
             lines'[f][i].by = q => i \in DOMAIN lines[f] /\ lines'[f][i] = lines[f][i]
      BY <1>3, EarlierIsNoCall DEF Adds
    <2>4. \A f \in File : Clear(q, f) => \A i \in DOMAIN lines'[f] : lines'[f][i].by # q
      BY <2>3 DEF Clear
    <2>5. pc'[q] # "done" => answer'[q] = Pending
      BY <2>1, <2>2 DEF Trace
    <2>6. pc'[q] \notin Written \cup {"done"} =>
             \A f \in File : \A i \in DOMAIN lines'[f] : lines'[f][i].by # q
      BY <2>1, <2>2, <2>4 DEF Trace
    <2>7. pc'[q] \in Written =>
             \A f \in File : \A i \in DOMAIN lines'[f] :
                lines'[f][i].by = q => f = file'[q] /\ i > Len(scan'[q])
      BY <2>1, <2>2, <2>3 DEF Trace
    <2>8. pc'[q] = "appended" => lines'[file'[q]] = Append(scan'[q], OwnRecord(q)')
      <3> SUFFICES ASSUME pc'[q] = "appended"
                   PROVE  lines'[file'[q]] = Append(scan'[q], OwnRecord(q)')
        OBVIOUS
      <3>1. pc[q] = "appended" /\ file[q] # 0 /\ file[q] \in File /\ held[q] = "exclusive"
        BY <1>0, <2>1, <2>2, FileInRange DEF AtWork, Written
      <3>2. lines'[file[q]] = lines[file[q]]
        BY <1>3, <3>1 DEF Adds, TraceInv, JournalInv, Exclusive
      <3>3. OwnRecord(q)' = OwnRecord(q)
        BY <2>1 DEF OwnRecord
      <3> QED
        BY <2>1, <2>2, <3>1, <3>2, <3>3 DEF Trace
    <2>9. (pc'[q] = "done" /\ kind'[q] = "bind" /\ answer'[q].status = "write_failed"
             /\ q \notin stuck' /\ journal' # 0)
             => \A i \in DOMAIN lines'[journal'] : lines'[journal'][i].by # q
      <3> SUFFICES ASSUME pc'[q] = "done", kind'[q] = "bind",
                          answer'[q].status = "write_failed", q \notin stuck', journal' # 0
                   PROVE  \A i \in DOMAIN lines'[journal'] : lines'[journal'][i].by # q
        OBVIOUS
      <3>1. CASE journal' = journal
        <4>1. journal \in File
          BY <1>0, <3>1, BoundsAreNumbers DEF TypeOK, File
        <4> QED
          BY <2>1, <2>2, <2>4, <3>1, <4>1 DEF Trace
      <3>2. CASE journal' = made + 1 /\ made' = made + 1
        <4>1. journal' \in File /\ journal' > made
          BY <1>0, <3>2, BoundsAreNumbers DEF TypeOK, File
        <4>2. lines'[journal'] = <<>>
          BY <4>1, <1>1 DEF TraceInv, Fresh
        <4> QED
          BY <4>2
      <3> QED
        BY <3>1, <3>2 DEF Renames
    <2>10. pc'[q] \in {"undo", "rollback"} => kind'[q] = "bind"
      BY <2>1, <2>2 DEF Trace
    <2> QED
      BY <2>5, <2>6, <2>7, <2>8, <2>9, <2>10 DEF Trace, Clear
  <1> QED
    BY <1>2, <1>3

\* A call that has not appended and writes nothing leaves no trace.
LEMMA QuietTrace ==
    ASSUME TraceInv, NEW p \in Proc, Alone(p), Renames, TypeOK', lines' = lines,
           pc[p] \notin Written \cup {"done"}, pc'[p] # "appended",
           pc'[p] \in {"undo", "rollback"} => kind'[p] = "bind"
    PROVE  Fresh' /\ \A q \in Proc : Trace(q)'
  <1>1. \A f \in File : Clear(p, f)
    BY DEF TraceInv, Trace
  <1>2. Trace(p)'
    <2>1. pc'[p] # "done" => answer'[p] = Pending
      BY DEF TraceInv, Trace, Alone
    <2>2. journal' # 0 => journal' \in File
      BY BoundsAreNumbers DEF TypeOK, File
    <2> QED
      BY <1>1, <2>1, <2>2 DEF Trace, Clear
  <1>3. Adds(p)
    BY DEF Adds
  <1> QED
    BY <1>2, <1>3, AdderTrace

LEMMA RefuseGoes ==
    ASSUME TypeOK, NEW p \in Proc, NEW why, Refuse(p, why) \/ Raise(p, why)
    PROVE  \/ pc'[p] = "done"
           \/ pc'[p] \in {"undo", "rollback"} /\ kind'[p] = "bind"
  <1>1. CASE \E status, seen : Return(p, status, seen)
    BY <1>1 DEF Return, Goto, TypeOK
  <1>2. CASE /\ Goto(p, IF pc[p] \in {"append", "write", "appended"} THEN "undo" ELSE "rollback")
             /\ kind' = kind /\ kind[p] = "bind"
    BY <1>2 DEF Goto, TypeOK
  <1> QED
    BY <1>1, <1>2 DEF Refuse, Raise

Quiet(p) ==
    \/ Disabled(p) \/ Start(p) \/ LockRoot(p) \/ Busy(p)
    \/ MakeSidecar(p) \/ EnsureIgnore(p) \/ OpenForAppend(p)
    \/ TakeSnapshot(p) \/ BindJournal(p) \/ BindIgnore(p) \/ Reopen(p)
    \/ LockAndScan(p) \/ CheckAppend(p)

LEMMA QuietIsQuiet ==
    ASSUME TypeOK, NEW p \in Proc, Quiet(p)
    PROVE  /\ lines' = lines /\ pc[p] \notin Written \cup {"done"}
           /\ pc'[p] # "appended"
           /\ pc'[p] \in {"undo", "rollback"} => kind'[p] = "bind"
  <1>1. ASSUME NEW there, Goto(p, there), there \notin {"appended", "undo", "rollback"}
        PROVE  pc'[p] \notin {"appended", "undo", "rollback"}
    BY <1>1 DEF Goto, TypeOK
  <1>2. ASSUME NEW status, NEW seen, Return(p, status, seen)
        PROVE  pc'[p] \notin {"appended", "undo", "rollback"}
    BY <1>2 DEF Return, Goto, TypeOK
  <1>3. CASE Disabled(p)
    BY <1>2, <1>3 DEF Disabled, fileVars, Written
  <1>4. CASE Start(p)
    BY <1>1, <1>2, <1>4, RefuseGoes DEF Start, fileVars, Written
  <1>5. CASE LockRoot(p) \/ TakeSnapshot(p)
    BY <1>1, <1>5 DEF LockRoot, TakeSnapshot, fileVars, Written
  <1>6. CASE Busy(p)
    BY <1>6, RefuseGoes DEF Busy, fileVars, Written
  <1>7. CASE MakeSidecar(p) \/ EnsureIgnore(p) \/ BindIgnore(p)
    BY <1>1, <1>7, RefuseGoes DEF MakeSidecar, EnsureIgnore, BindIgnore, Written
  <1>8. CASE OpenForAppend(p) \/ BindJournal(p)
    BY <1>1, <1>8, RefuseGoes DEF OpenForAppend, BindJournal, Written
  <1>9. CASE Reopen(p)
    BY <1>1, <1>2, <1>9, RefuseGoes DEF Reopen, Written
  <1>10. CASE LockAndScan(p)
    BY <1>1, <1>2, <1>10, RefuseGoes DEF LockAndScan, fileVars, Written
  <1>11. CASE CheckAppend(p)
    BY <1>1, <1>11, RefuseGoes DEF CheckAppend, fileVars, Written
  <1> QED
    BY <1>3, <1>4, <1>5, <1>6, <1>7, <1>8, <1>9, <1>10, <1>11 DEF Quiet

\* The line behind a scan is the only one a call adds.
LEMMA BehindScan ==
    ASSUME NEW s \in Seq(Record), NEW x \in Line, NEW log \in {s, Append(s, x)}
    PROVE  /\ \A i \in DOMAIN log : \/ i \in DOMAIN s /\ log[i] = s[i]
                                    \/ i > Len(s) /\ log[i] = x
           /\ \A i \in DOMAIN s : i \in DOMAIN log /\ log[i] = s[i] /\ ~(i > Len(s))
  <1>1. s \in Seq(Line) /\ Len(s) \in Nat /\ DOMAIN s = 1 .. Len(s)
    BY SeqMonotonic, LenProperties DEF Line
  <1>2. /\ DOMAIN Append(s, x) = 1 .. (Len(s) + 1) /\ Append(s, x)[Len(s) + 1] = x
        /\ \A i \in 1 .. Len(s) : Append(s, x)[i] = s[i]
    BY <1>1, AppendProperties, LenProperties
  <1> QED
    BY <1>1, <1>2

LEMMA AppendTrace ==
    ASSUME TraceInv, NEW p \in Proc, AppendLine(p), TypeOK'
    PROVE  Fresh' /\ \A q \in Proc : Trace(q)'
  <1>0. TypeOK /\ AtWork(p) /\ Trace(p)
    BY DEF TraceInv, JournalInv
  <1>1. Alone(p) /\ Renames
    BY <1>0, StepAlone DEF Step
  <1>2. pc[p] = "write" /\ pc[p] \in Scanned \cup Written /\ pc[p] \in Scanned
    BY DEF AppendLine, Scanned
  <1>3. /\ file[p] \in File /\ file[p] # 0 /\ held[p] = "exclusive"
        /\ lines[file[p]] = scan[p] /\ scan[p] \in Seq(Record)
        /\ OwnRecord(p) \in Line /\ OwnRecord(p).by = p
    BY <1>0, <1>2, FileInRange, OwnRecordTyped DEF AtWork, TypeOK, Line, OwnRecord
  <1>4. PICK x, log :
           /\ x \in {Torn, OwnRecord(p)} /\ log \in {scan[p], Append(scan[p], x)}
           /\ lines' = [lines EXCEPT ![file[p]] = log]
           /\ \/ pc'[p] \in {"undo", "done"} /\ Refuse(p, "internal")
              \/ /\ pc'[p] = "appended" /\ log = Append(scan[p], OwnRecord(p))
                 /\ UNCHANGED <<file, scan, kind>>
    <2>1. CASE /\ lines' = [lines EXCEPT ![file[p]] = Append(@, OwnRecord(p))]
               /\ Goto(p, "appended")
               /\ UNCHANGED <<kind, root, held, file, scan, snap, code, answer, stuck>>
      BY <1>0, <1>3, <2>1 DEF Goto, TypeOK
    <2>2. ASSUME NEW part \in {<<>>, <<Torn>>, <<OwnRecord(p)>>},
                 lines' = [lines EXCEPT ![file[p]] = @ \o part], Refuse(p, "internal")
          PROVE  \E x \in {Torn, OwnRecord(p)} : \E log \in {scan[p], Append(scan[p], x)} :
                    /\ lines' = [lines EXCEPT ![file[p]] = log]
                    /\ pc'[p] \in {"undo", "done"} /\ Refuse(p, "internal")
      <3>1. pc'[p] \in {"undo", "done"}
        BY <1>0, <1>2, <2>2, RefuseTyped DEF Reasons
      <3>2. \E x \in {Torn, OwnRecord(p)} : scan[p] \o part \in {scan[p], Append(scan[p], x)}
        BY <1>3, <2>2, OneLine, LineShape
      <3> QED
        BY <1>3, <2>2, <3>1, <3>2
    <2> QED
      BY <2>1, <2>2 DEF AppendLine
  <1>5. /\ lines'[file[p]] = log /\ x \in Line /\ x.by \in {p, Earlier}
        /\ \A f \in File : f # file[p] => lines'[f] = lines[f]
    <2>1. lines'[file[p]] = log /\ \A f \in File : f # file[p] => lines'[f] = lines[f]
      BY <1>0, <1>3, <1>4 DEF TypeOK
    <2>2. Torn \in Line /\ Torn.by = Earlier
      BY LineShape DEF Torn
    <2> QED
      BY <1>3, <1>4, <2>1, <2>2
  <1>6. \A i \in DOMAIN log : \/ i \in DOMAIN scan[p] /\ log[i] = scan[p][i]
                              \/ i > Len(scan[p]) /\ log[i] = x
    BY <1>3, <1>4, <1>5, BehindScan
  <1>7. Adds(p)
    BY <1>3, <1>5, <1>6 DEF Adds
  <1>8. \A f \in File : Clear(p, f)
    BY <1>0, <1>2 DEF Trace, Scanned, Written
  <1>9. \A f \in File : \A i \in DOMAIN lines'[f] :
           lines'[f][i].by = p => f = file[p] /\ i > Len(scan[p])
    BY <1>3, <1>5, <1>6, <1>8 DEF Clear
  <1>10. UNCHANGED <<file, scan, kind>>
    BY <1>0, <1>4, RefuseTyped DEF Reasons
  <1>11. OwnRecord(p)' = OwnRecord(p)
    BY <1>10 DEF OwnRecord
  <1>12. pc'[p] # "done" => answer'[p] = Pending
    BY <1>0, <1>1, <1>2 DEF Alone, Trace
  <1>13. CASE pc'[p] = "done"
    <2>1. kind[p] # "bind"
      BY <1>0, <1>2, <1>4, <1>13, RefuseTyped DEF Refuse, Goto, TypeOK
    <2> QED
      BY <1>7, <1>1, <1>10, <1>13, <2>1, AdderTrace DEF Trace, Written
  <1>14. CASE pc'[p] \in {"undo", "appended"}
    <2>1. pc'[p] = "appended" => lines'[file'[p]] = Append(scan'[p], OwnRecord(p)')
      BY <1>4, <1>5, <1>10, <1>11
    <2>2. Trace(p)'
      <3>1. pc'[p] \in {"undo", "rollback"} => kind'[p] = "bind"
        BY <1>0, <1>4, RefuseGoes
      <3> QED
        BY <1>9, <1>10, <1>12, <1>14, <2>1, <3>1 DEF Trace, Written
    <2> QED
      BY <1>1, <1>7, <2>2, AdderTrace
  <1> QED
    BY <1>4, <1>13, <1>14

LEMMA PublishTrace ==
    ASSUME TraceInv, NEW p \in Proc, Publish(p), TypeOK'
    PROVE  Fresh' /\ \A q \in Proc : Trace(q)'
  <1>0. TypeOK /\ AtWork(p) /\ Trace(p)
    BY DEF TraceInv, JournalInv
  <1>1. Alone(p) /\ Renames /\ lines' = lines /\ pc[p] = "appended"
    BY <1>0, StepAlone DEF Step, Publish, fileVars
  <1>2. Adds(p)
    BY <1>1 DEF Adds
  <1>3. pc'[p] # "done" => answer'[p] = Pending
    BY <1>0, <1>1 DEF Alone, Trace
  <1>4. CASE \E seen : Return(p, "written", seen) /\ UNCHANGED <<code, stuck>>
    <2>0. PICK seen : Return(p, "written", seen) /\ stuck' = stuck
      BY <1>4
    <2>1. pc'[p] = "done" /\ answer'[p] = [status |-> "written", seen |-> seen]
      BY <1>0, <2>0, ReturnAlone
    <2>2. Trace(p)'
      BY <2>1 DEF Trace, Written
    <2> QED
      BY <1>1, <1>2, <2>2, AdderTrace
  <1>5. CASE kind[p] = "bind" /\ Refuse(p, "changed")
    <2>1. pc'[p] = "undo" /\ UNCHANGED <<file, scan, kind>>
      BY <1>0, <1>1, <1>5 DEF Refuse, Goto, TypeOK
    <2>2. Trace(p)'
      BY <1>0, <1>1, <1>3, <1>5, <2>1 DEF Trace, Written
    <2> QED
      BY <1>1, <1>2, <2>2, AdderTrace
  <1> QED
    BY <1>4, <1>5 DEF Publish

\* A rollback that succeeds takes the call's line out of every journal that
\* can be read.
LEMMA RollBackTrace ==
    ASSUME TraceInv, NEW p \in Proc, RollBack(p), TypeOK'
    PROVE  Fresh' /\ \A q \in Proc : Trace(q)'
  <1> DEFINE f == file[p]
             cuts == pc[p] = "undo" /\ snap[p].journal /\ Len(lines[f]) > Len(scan[p])
  <1>0. TypeOK /\ AtWork(p) /\ Trace(p)
    BY DEF TraceInv, JournalInv
  <1>1. Alone(p) /\ Renames /\ pc'[p] = "done" /\ pc[p] \in {"rollback", "undo"}
    <2>1. Return(p, "write_failed", <<>>) /\ stuck' \in {stuck, stuck \cup {p}}
      BY DEF RollBack
    <2> QED
      BY <1>0, <2>1, StepAlone, ReturnAlone DEF Step, RollBack
  <1>2. CASE pc[p] = "rollback"
    <2>1. lines' = lines
      BY <1>2 DEF RollBack
    <2> QED
      BY <1>1, <1>2, <2>1, QuietTrace DEF Written
  <1>3. CASE pc[p] = "undo"
    <2>1. /\ f \in File /\ f # 0 /\ held[p] = "exclusive" /\ scan[p] \in Seq(Record)
          /\ pc[p] \in Written /\ pc[p] \in Scanned \cup Written
      BY <1>0, <1>3, FileInRange DEF AtWork, Written, TypeOK
    <2>2. PICK x : x \in Line /\ lines[f] \in {scan[p], Append(scan[p], x)}
      <3>1. OwnRecord(p) \in Line /\ Torn \in Line
        BY <1>0, <2>1, OwnRecordTyped, LineShape DEF Line
      <3> QED
        BY <1>0, <2>1, <3>1 DEF AtWork
    <2>3. /\ \A i \in DOMAIN lines[f] : i \in DOMAIN scan[p] \/ i > Len(scan[p])
          /\ \A i \in DOMAIN scan[p] : /\ i \in DOMAIN lines[f] /\ lines[f][i] = scan[p][i]
                                       /\ ~(i > Len(scan[p]))
      BY <2>1, <2>2, BehindScan
    <2>4. \A g \in File : \A i \in DOMAIN lines[g] :
             lines[g][i].by = p => g = f /\ i > Len(scan[p])
      BY <1>0, <2>1 DEF Trace
    <2>5. SubSeq(lines[f], 1, Len(scan[p])) = scan[p]
      BY <1>0, <1>3, CutIsScan
    <2>6. \/ lines' = lines
          \/ lines' = [lines EXCEPT ![f] = scan[p]]
      BY <2>5 DEF RollBack
    <2>7. \A g \in File : /\ g # f => lines'[g] = lines[g]
                          /\ lines'[f] \in {lines[f], scan[p]}
      BY <1>0, <2>1, <2>6 DEF TypeOK
    <2>8. Adds(p)
      BY <2>1, <2>3, <2>7 DEF Adds
    <2>9. \A g \in File : g # f => \A i \in DOMAIN lines'[g] : lines'[g][i].by # p
      BY <2>4, <2>7
    <2>10. (p \notin stuck' /\ journal' # 0) =>
              \A i \in DOMAIN lines'[journal'] : lines'[journal'][i].by # p
      <3> SUFFICES ASSUME p \notin stuck', journal' # 0
                   PROVE  \A i \in DOMAIN lines'[journal'] : lines'[journal'][i].by # p
        OBVIOUS
      <3>1. journal' \in File
        BY BoundsAreNumbers DEF TypeOK, File
      <3>2. CASE snap[p].journal
        <4>1. lines' = IF cuts THEN [lines EXCEPT ![f] = SubSeq(@, 1, Len(scan[p]))] ELSE lines
          BY DEF RollBack
        <4>2. CASE cuts
          <5>1. lines'[f] = scan[p]
            BY <1>0, <2>1, <2>5, <4>1, <4>2 DEF TypeOK
          <5>2. \A i \in DOMAIN lines'[f] : lines'[f][i].by # p
            BY <2>1, <2>3, <2>4, <5>1
          <5> QED
            BY <2>9, <3>1, <5>2
        <4>3. CASE ~cuts
          <5>1. lines' = lines /\ ~(Len(lines[f]) > Len(scan[p]))
            BY <1>3, <3>2, <4>1, <4>3
          <5>2. \A i \in DOMAIN lines[f] : ~(i > Len(scan[p]))
            <6>1. lines[f] \in Seq(Line) /\ Len(scan[p]) \in Nat
              BY <1>0, <2>1, LenProperties DEF TypeOK, Line
            <6>2. DOMAIN lines[f] = 1 .. Len(lines[f]) /\ Len(lines[f]) \in Nat
              BY <6>1, LenProperties
            <6> QED
              BY <5>1, <6>1, <6>2
          <5> QED
            BY <2>4, <3>1, <5>1, <5>2
        <4> QED
          BY <4>2, <4>3
      <3>3. CASE ~snap[p].journal
        <4>1. journal' # f
          BY <2>1, <3>3, <1>3 DEF RollBack
        <4> QED
          BY <2>9, <3>1, <4>1
      <3> QED
        BY <3>2, <3>3
    <2>11. Trace(p)'
      BY <1>1, <2>10 DEF Trace, Written, Clear
    <2> QED
      BY <1>1, <2>8, <2>11, AdderTrace
  <1> QED
    BY <1>1, <1>2, <1>3

LEMMA KillTrace ==
    ASSUME TraceInv, NEW p \in Proc, Kill(p), TypeOK'
    PROVE  Fresh' /\ \A q \in Proc : Trace(q)'
  <1>0. TypeOK /\ AtWork(p) /\ Trace(p)
    BY DEF TraceInv, JournalInv
  <1>1. /\ Alone(p) /\ Renames /\ pc[p] # "done" /\ pc'[p] = "done"
        /\ answer' = answer
    BY <1>0, StepAlone DEF Kill, Goto, TypeOK
  <1>2. Trace(p)'
    BY <1>0, <1>1 DEF Trace, Written, Pending
  <1>3. CASE lines' = lines
    <2>1. Adds(p)
      BY <1>3 DEF Adds
    <2> QED
      BY <1>1, <1>2, <2>1, AdderTrace
  <1>4. CASE pc[p] = "write" /\ lines' = [lines EXCEPT ![file[p]] = Append(@, Torn)]
    <2>1. /\ file[p] \in File /\ file[p] # 0 /\ held[p] = "exclusive"
          /\ lines[file[p]] = scan[p] /\ scan[p] \in Seq(Record)
      BY <1>0, <1>4, FileInRange DEF AtWork, TypeOK, Scanned
    <2>2. \A i \in DOMAIN Append(scan[p], Torn) :
             \/ i \in DOMAIN scan[p] /\ Append(scan[p], Torn)[i] = scan[p][i]
             \/ Append(scan[p], Torn)[i] = Torn
      BY <2>1, BehindScan, LineShape
    <2>3. /\ lines'[file[p]] = Append(scan[p], Torn)
          /\ \A f \in File : f # file[p] => lines'[f] = lines[f]
      BY <1>0, <1>4, <2>1 DEF TypeOK
    <2>4. Torn.by = Earlier
      BY DEF Torn
    <2>5. Adds(p)
      BY <2>1, <2>2, <2>3, <2>4 DEF Adds
    <2> QED
      BY <1>1, <1>2, <2>5, AdderTrace
  <1> QED
    BY <1>3, <1>4 DEF Kill

LEMMA UserTrace ==
    ASSUME TraceInv, ArchiveJournal \/ MoveWorkspace
    PROVE  Fresh' /\ \A q \in Proc : Trace(q)'
  <1>1. UNCHANGED <<callVars, lines, made>> /\ journal' \in {journal, 0}
    BY DEF ArchiveJournal, MoveWorkspace
  <1>2. Fresh'
    BY <1>1 DEF TraceInv, Fresh
  <1>3. ASSUME NEW q \in Proc PROVE Trace(q)'
    <2>1. Trace(q)
      BY DEF TraceInv
    <2>2. OwnRecord(q)' = OwnRecord(q)
      BY <1>1 DEF callVars, OwnRecord
    <2>3. (journal' # 0 /\ pc'[q] = "done" /\ kind'[q] = "bind"
             /\ answer'[q].status = "write_failed" /\ q \notin stuck')
             => \A i \in DOMAIN lines'[journal'] : lines'[journal'][i].by # q
      BY <1>1, <2>1 DEF callVars, Trace, Clear
    <2> QED
      BY <1>1, <2>1, <2>2, <2>3 DEF callVars, Trace, Clear
  <1> QED
    BY <1>2, <1>3

LEMMA TraceInit == Init => TraceInv
  <1> SUFFICES ASSUME Init PROVE TraceInv
    OBVIOUS
  <1>1. PICK left \in Initial :
          /\ journal = left.j /\ made = left.j
          /\ lines = [f \in File |-> IF f = left.j THEN left.l ELSE <<>>]
    BY DEF Init
  <1>2. left.j \in {0, 1} /\ left.l \in {<<>>, <<OnePast>>}
    <2>1. CASE left = [s |-> FALSE, i |-> FALSE, j |-> 0, l |-> <<>>]
      BY <2>1
    <2>2. CASE left = [s |-> TRUE, i |-> FALSE, j |-> 0, l |-> <<>>]
      BY <2>2
    <2>3. CASE left = [s |-> TRUE, i |-> TRUE, j |-> 0, l |-> <<>>]
      BY <2>3
    <2>4. CASE left = [s |-> TRUE, i |-> FALSE, j |-> 1, l |-> <<>>]
      BY <2>4
    <2>5. CASE left = [s |-> TRUE, i |-> TRUE, j |-> 1, l |-> <<OnePast>>]
      BY <2>5
    <2> QED
      BY <1>1, InitialIsLeftover, <2>1, <2>2, <2>3, <2>4, <2>5, Zenon DEF Leftover
  <1>3. JournalInv
    BY InitInv
  <1>4. Fresh
    BY <1>1, <1>2, BoundsAreNumbers DEF Fresh, File
  <1>5. ASSUME NEW p \in Proc, NEW f \in File PROVE Clear(p, f)
    <2>1. lines[f] \in {<<>>, <<OnePast>>}
      BY <1>1, <1>2
    <2>2. \A i \in DOMAIN lines[f] : lines[f][i] = OnePast
      BY <2>1
    <2>3. OnePast.by = Earlier /\ Earlier # p
      BY EarlierIsNoCall DEF OnePast
    <2> QED
      BY <2>2, <2>3 DEF Clear
  <1>6. \A p \in Proc : Trace(p)
    BY <1>5 DEF Init, Trace, Written
  <1> QED
    BY <1>3, <1>4, <1>6 DEF TraceInv

LEMMA TraceStep == ASSUME TraceInv, [Next]_journalVars PROVE TraceInv'
  <1>1. JournalInv' /\ TypeOK' /\ TypeOK
    BY StepInv DEF TraceInv, JournalInv
  <1>2. CASE UNCHANGED journalVars
    BY <1>1, <1>2 DEF journalVars, fileVars, callVars, TraceInv, Fresh, Trace, Clear, OwnRecord
  <1>3. ASSUME NEW p \in Proc, Step(p) PROVE Fresh' /\ \A q \in Proc : Trace(q)'
    <2>1. CASE Quiet(p)
      BY <1>1, <1>3, <2>1, QuietIsQuiet, StepAlone, QuietTrace
    <2> QED
      BY <1>1, <1>3, <2>1, AppendTrace, PublishTrace, RollBackTrace DEF Step, Quiet
  <1>4. ASSUME NEW p \in Proc, Kill(p) PROVE Fresh' /\ \A q \in Proc : Trace(q)'
    BY <1>1, <1>4, KillTrace
  <1> QED
    BY <1>1, <1>2, <1>3, <1>4, UserTrace DEF Next, TraceInv

THEOREM TracesAreKept == Spec => []TraceInv
  BY TraceInit, TraceStep, PTL DEF Spec

\* A path-bound call that answered write_failed has no line in the journal the
\* workspace shows, whatever failed, was killed, archived or made meanwhile,
\* unless its rollback said it failed.
THEOREM FailedBindingsLeaveNothing == Spec => []RollbackLeavesNothing
  <1>1. ASSUME TraceInv PROVE RollbackLeavesNothing
    <2> SUFFICES ASSUME NEW p \in Proc, p \notin stuck, kind[p] = "bind",
                        answer[p].status = "write_failed", journal # 0
                 PROVE  \A i \in DOMAIN Whole(lines[journal]) : lines[journal][i].by # p
      BY DEF RollbackLeavesNothing
    <2>1. pc[p] = "done" /\ Clear(p, journal)
      BY <1>1 DEF TraceInv, Trace, Pending
    <2>2. DOMAIN Whole(lines[journal]) \subseteq DOMAIN lines[journal]
      <3>1. lines[journal] \in Seq(Line)
        <4>1. journal \in File /\ lines \in [File -> Seq(Record \cup {Torn})]
          BY <1>1, BoundsAreNumbers DEF TraceInv, JournalInv, TypeOK, File
        <4> QED
          BY <4>1 DEF Line
      <3> QED
        <4>1. Len(lines[journal]) \in Nat /\ DOMAIN lines[journal] = 1 .. Len(lines[journal])
          BY <3>1, LenProperties
        <4>2. CASE ~IsTorn(lines[journal])
          BY <4>2 DEF Whole
        <4>3. CASE IsTorn(lines[journal])
          <5>1. DOMAIN SubSeq(lines[journal], 1, Len(lines[journal]) - 1)
                   = 1 .. (Len(lines[journal]) - 1)
            BY <4>1 DEF SubSeq
          <5> QED
            BY <4>1, <4>3, <5>1 DEF Whole
        <4> QED
          BY <4>2, <4>3
    <2> QED
      BY <2>1, <2>2 DEF Clear
  <1> QED
    BY <1>1, TracesAreKept, PTL

--------------------------------------------------------------------------------
(* The journals are logs.                                                  *)

LEMMA WholeShapes ==
    ASSUME NEW s \in Seq(Record), NEW r \in Record
    PROVE  Whole(s) = s /\ Whole(Append(s, Torn)) = s /\ Whole(Append(s, r)) = Append(s, r)
  <1>1. r \in Line /\ Torn \in Line /\ Torn # r
    BY LineShape DEF Line
  <1>2. ~IsTorn(s)
    <2>1. s # <<>> => s[Len(s)] \in Record
      BY EmptySeq, ElementOfSeq, LenProperties
    <2> QED
      BY <2>1, LineShape DEF IsTorn
  <1>3. /\ Append(s, r)[Len(s) + 1] = r /\ Append(s, Torn)[Len(s) + 1] = Torn
        /\ Append(s, Torn) # <<>>
    BY <1>1, OneLine, AppendProperties
  <1>4. ~IsTorn(Append(s, r)) /\ IsTorn(Append(s, Torn))
    BY <1>1, <1>3, OneLine DEF IsTorn
  <1>5. SubSeq(Append(s, Torn), 1, Len(Append(s, Torn)) - 1) = s
    <2>1. Len(Append(s, Torn)) - 1 = Len(s)
      BY <1>1, OneLine
    <2> QED
      BY <1>1, <2>1, OneLine
  <1> QED
    BY <1>2, <1>4, <1>5 DEF Whole

\* What is recorded of a file has its place in the file.
LEMMA WholeIsPrefix ==
    ASSUME NEW log, Sound(log)
    PROVE  /\ Whole(log) \in Seq(Record) /\ DOMAIN Whole(log) \subseteq DOMAIN log
           /\ \A i \in DOMAIN Whole(log) : Whole(log)[i] = log[i]
  <1>1. PICK s \in Seq(Record) : log \in {s, Append(s, Torn)}
    BY DEF Sound
  <1>2. OnePast \in Record
    BY DEF OnePast, Record
  <1>3. Whole(log) = s
    BY <1>1, <1>2, WholeShapes
  <1>4. \A i \in DOMAIN s : i \in DOMAIN log /\ log[i] = s[i]
    BY <1>1, BehindScan, LineShape
  <1> QED
    BY <1>3, <1>4

Revocable(p) == kind[p] = "bind" /\ pc[p] \in Written /\ snap[p].journal

LEMMA SettledIsPrefix ==
    ASSUME JournalInv, NEW f \in File
    PROVE  \A i \in DOMAIN Settled(f) : i \in DOMAIN lines[f] /\ Settled(f)[i] = lines[f][i]
  <1> DEFINE records == Whole(lines[f])
  <1>1. /\ records \in Seq(Record) /\ DOMAIN records \subseteq DOMAIN lines[f]
        /\ \A i \in DOMAIN records : records[i] = lines[f][i]
    BY WholeIsPrefix DEF JournalInv
  <1>2. CASE ~Unsettled(f)
    BY <1>1, <1>2 DEF Settled
  <1>3. CASE Unsettled(f)
    <2>1. Settled(f) = SubSeq(records, 1, Len(records) - 1)
      BY <1>3 DEF Settled
    <2>2. Len(records) \in Nat /\ DOMAIN records = 1 .. Len(records)
      BY <1>1, LenProperties
    <2>3. /\ DOMAIN Settled(f) = 1 .. (Len(records) - 1)
          /\ \A i \in 1 .. (Len(records) - 1) : Settled(f)[i] = records[i]
      BY <2>1, <2>2 DEF SubSeq
    <2>4. 1 .. (Len(records) - 1) \subseteq DOMAIN records
      BY <2>2
    <2> QED
      BY <1>1, <2>3, <2>4
  <1> QED
    BY <1>2, <1>3

\* Nobody can take back a line of a file no path-bound call is undoing.
LEMMA SettledIsWhole ==
    ASSUME NEW f, \A p \in Proc : Revocable(p) => file[p] # f
    PROVE  Settled(f) = Whole(lines[f])
  <1>1. ~Unsettled(f)
    BY DEF Unsettled, Revocable, Written
  <1> QED
    BY <1>1 DEF Settled

LEMMA OnlyHolder ==
    ASSUME JournalInv, NEW p \in Proc, held[p] = "exclusive", NEW q \in Proc, q # p,
           pc[q] \in Scanned \cup Written
    PROVE  file[q] # file[p]
  BY DEF JournalInv, Exclusive, AtWork

\* What is settled of the file of a call at work.
LEMMA SettledAtWork ==
    ASSUME TraceInv, NEW p \in Proc, pc[p] \in Scanned \cup Written
    PROVE  Settled(file[p]) = IF Revocable(p) THEN scan[p] ELSE Whole(lines[file[p]])
  <1> DEFINE f == file[p]
  <1>0. TypeOK /\ AtWork(p) /\ Trace(p) /\ JournalInv
    BY DEF TraceInv, JournalInv
  <1>1. \A q \in Proc : q # p => ~(Revocable(q) /\ file[q] = f)
    BY <1>0, OnlyHolder DEF AtWork, Revocable
  <1>2. CASE ~Revocable(p)
    BY <1>1, <1>2, SettledIsWhole
  <1>3. CASE Revocable(p)
    <2>1. /\ f \in File /\ scan[p] \in Seq(Record) /\ OwnRecord(p) \in Record
          /\ pc[p] \in Written
      BY <1>0, <1>3, FileInRange, OwnRecordTyped DEF AtWork, Revocable, TypeOK
    <2>2. CASE lines[f] \in {scan[p], Append(scan[p], Torn)}
      <3>1. Whole(lines[f]) = scan[p]
        BY <2>1, <2>2, WholeShapes
      <3>2. \A i \in DOMAIN scan[p] : lines[f][i].by # p
        BY <1>0, <2>1, <2>2, BehindScan, LineShape DEF Trace
      <3>3. ~Unsettled(f)
        BY <1>1, <3>1, <3>2 DEF Unsettled, Revocable, Written
      <3> QED
        BY <1>3, <3>1, <3>3 DEF Settled
    <2>3. CASE lines[f] = Append(scan[p], OwnRecord(p))
      <3>1. Whole(lines[f]) = lines[f] /\ OwnRecord(p) \in Line
        BY <2>1, <2>3, WholeShapes DEF Line
      <3>2. /\ Len(lines[f]) = Len(scan[p]) + 1 /\ Len(scan[p]) \in Nat
            /\ SubSeq(lines[f], 1, Len(lines[f]) - 1) = scan[p]
        BY <2>1, <2>3, <3>1, OneLine
      <3>3. Len(scan[p]) + 1 \in DOMAIN lines[f] /\ lines[f][Len(scan[p]) + 1].by = p
        <4>1. lines[f][Len(scan[p]) + 1] = OwnRecord(p)
          BY <2>1, <2>3, AppendProperties
        <4>2. lines[f] \in Seq(Line)
          BY <2>1, <2>3, <3>1, OneLine
        <4> QED
          BY <3>2, <4>1, <4>2, LenProperties DEF OwnRecord
      <3>4. Unsettled(f)
        BY <1>3, <3>1, <3>3 DEF Unsettled, Revocable, Written
      <3> QED
        BY <1>3, <3>1, <3>2, <3>4 DEF Settled
    <2> QED
      BY <1>0, <2>1, <2>2, <2>3 DEF AtWork
  <1> QED
    BY <1>2, <1>3

\* A file nobody writes keeps what is settled of it, unless the call that moves
\* settles its own line.
LEMMA SettledFrame ==
    ASSUME TraceInv, NEW p \in Proc, Alone(p), NEW f \in File, lines'[f] = lines[f],
           Clear(p, f) \/ ((Revocable(p) /\ file[p] = f) <=> (Revocable(p)' /\ file'[p] = f))
    PROVE  Settled(f)' = Settled(f)
  <1> DEFINE MayTake(q) == Revocable(q) /\ file[q] = f
             Has(q) == \E i \in DOMAIN Whole(lines[f]) : lines[f][i].by = q
  <1>1. Unsettled(f) <=> \E q \in Proc : MayTake(q) /\ Has(q)
    BY DEF Unsettled, Revocable, Written
  <1>2. Unsettled(f)' <=> \E q \in Proc : MayTake(q)' /\ Has(q)
    BY DEF Unsettled, Revocable, Written
  <1>3. \A q \in Proc \ {p} : MayTake(q)' <=> MayTake(q)
    BY DEF Alone, Frame, Revocable
  <1>4. (MayTake(p)' /\ Has(p)) <=> (MayTake(p) /\ Has(p))
    BY WholeIsPrefix DEF TraceInv, JournalInv, Clear
  <1>5. Unsettled(f)' <=> Unsettled(f)
    BY <1>1, <1>2, <1>3, <1>4
  <1> QED
    BY <1>5 DEF Settled

SettledFacts ==
    /\ \A p \in Proc : pc[p] \in Scanned \cup Written =>
          Settled(file[p]) = IF Revocable(p) THEN scan[p] ELSE Whole(lines[file[p]])
    /\ \A f \in File : (\A p \in Proc : Revocable(p) => file[p] # f)
                          => Settled(f) = Whole(lines[f])

LEMMA SettledFactsHold == TraceInv => SettledFacts
  BY SettledAtWork, SettledIsWhole DEF SettledFacts

\* A step of p adds its own record to what is settled of its file, or nothing.
Gain(p) ==
    \/ \A g \in File : Settled(g)' = Settled(g)
    \/ /\ pc[p] \in {"write"} \cup Written
       /\ \E f \in File : /\ f = file[p] /\ Settled(f) = scan[p]
                          /\ Settled(f)' = Append(scan[p], OwnRecord(p))
       /\ \A g \in File \ {file[p]} : Settled(g)' = Settled(g)

LEMMA WriterGain ==
    ASSUME TraceInv, TraceInv', NEW p \in Proc, Alone(p), UNCHANGED <<file, scan, kind, snap>>,
           pc[p] \in {"write"} \cup Written, pc'[p] \in Written \cup {"done"},
           \A g \in File \ {file[p]} : lines'[g] = lines[g],
           lines'[file[p]] \in {scan[p], Append(scan[p], Torn), Append(scan[p], OwnRecord(p))},
           \/ Revocable(p) \/ pc[p] = "write"
           \/ lines'[file[p]] = lines[file[p]]
    PROVE  /\ Gain(p)
           /\ \E f \in File : /\ f = file[p]
                              /\ Settled(f)' \in {scan[p], Append(scan[p], OwnRecord(p))}
  <1> DEFINE f == file[p]
  <1>0. /\ TypeOK /\ AtWork(p) /\ JournalInv /\ SettledFacts
        /\ pc[p] \in Scanned \cup Written
    BY SettledFactsHold DEF TraceInv, JournalInv, Scanned
  <1>1. /\ f \in File /\ scan[p] \in Seq(Record) /\ OwnRecord(p) \in Record
        /\ held[p] = "exclusive"
    BY <1>0, FileInRange, OwnRecordTyped DEF AtWork, TypeOK
  <1>2. ASSUME NEW g \in File, g # f PROVE Settled(g)' = Settled(g)
    BY <1>2, SettledFrame
  <1>3. SettledFacts'
    <2>1. TraceInv' => SettledFacts'
      BY SettledFactsHold, PTL
    <2> QED
      BY <2>1
  <1>4. Settled(f) = IF Revocable(p) THEN scan[p] ELSE Whole(lines[f])
    BY <1>0 DEF SettledFacts
  <1>5. PICK h \in File : h = f
    BY <1>1
  <1>6. Settled(h)' = IF Revocable(p)' THEN scan[p] ELSE Whole(lines'[h])
    <2>1. CASE pc'[p] \in Written
      BY <1>3, <1>5, <2>1 DEF SettledFacts
    <2>2. CASE pc'[p] = "done"
      <3>1. \A q \in Proc : q # p => ~(Revocable(q)' /\ file'[q] = h)
        <4>1. \A q \in Proc : q # p => (Revocable(q)' <=> Revocable(q)) /\ file'[q] = file[q]
          BY DEF Alone, Frame, Revocable
        <4>2. \A q \in Proc : q # p => ~(Revocable(q) /\ file[q] = h)
          BY <1>0, <1>1, <1>5, OnlyHolder DEF Revocable
        <4> QED
          BY <4>1, <4>2
      <3>2. ~Revocable(p)'
        BY <2>2 DEF Revocable, Written
      <3> QED
        BY <1>3, <3>1, <3>2 DEF SettledFacts
    <2> QED
      BY <2>1, <2>2
  <1>7. Whole(lines'[f]) \in {scan[p], Append(scan[p], OwnRecord(p))}
    BY <1>1, WholeShapes
  <1>8. Settled(h)' \in {scan[p], Append(scan[p], OwnRecord(p))}
    BY <1>5, <1>6, <1>7
  <1>9. CASE Revocable(p) \/ pc[p] = "write"
    <2>1. Settled(f) = scan[p]
      <3>1. CASE Revocable(p)
        BY <1>4, <3>1
      <3>2. CASE pc[p] = "write"
        BY <1>0, <1>1, <1>4, <3>2, WholeShapes DEF AtWork, Scanned, Revocable, Written
      <3> QED
        BY <1>9, <3>1, <3>2
    <2> QED
      BY <1>2, <1>5, <1>8, <2>1 DEF Gain
  <1>10. CASE ~Revocable(p) /\ pc[p] # "write" /\ lines'[f] = lines[f]
    <2>1. ~Revocable(p)'
      BY <1>10 DEF Revocable
    <2>2. Settled(h)' = Settled(h)
      BY <1>4, <1>5, <1>6, <1>10, <2>1
    <2> QED
      BY <1>2, <1>5, <1>8, <2>2 DEF Gain
  <1> QED
    BY <1>9, <1>10

\* What is settled while a call moves that has no line yet and writes none.
LEMMA ClearGain ==
    ASSUME TraceInv, NEW p \in Proc, Alone(p), lines' = lines,
           pc[p] \notin Written \cup {"done"}
    PROVE  \A g \in File : Settled(g)' = Settled(g)
  BY SettledFrame DEF TraceInv, Trace

LEMMA RollBackGain ==
    ASSUME TraceInv, TraceInv', NEW p \in Proc, RollBack(p) PROVE Gain(p)
  <1>0. TypeOK /\ AtWork(p) /\ Trace(p)
    BY DEF TraceInv, JournalInv
  <1>1. Alone(p) /\ pc'[p] = "done" /\ UNCHANGED <<file, scan, kind, snap>>
    <2>1. Return(p, "write_failed", <<>>)
      BY DEF RollBack
    <2> QED
      BY <1>0, <2>1, StepAlone, ReturnTyped DEF Step
  <1>2. CASE pc[p] = "rollback"
    <2>1. lines' = lines
      BY <1>2 DEF RollBack
    <2> QED
      BY <1>1, <1>2, <2>1, ClearGain DEF Gain, Written
  <1>3. CASE pc[p] = "undo"
    <2>1. pc[p] \in Written /\ file[p] \in File
      BY <1>0, <1>3, FileInRange DEF Written, AtWork
    <2>2. SubSeq(lines[file[p]], 1, Len(scan[p])) = scan[p]
      BY <1>0, <1>3, CutIsScan
    <2>3. \/ lines' = lines
          \/ snap[p].journal /\ lines' = [lines EXCEPT ![file[p]] = scan[p]]
      BY <2>2 DEF RollBack
    <2>4. /\ \A g \in File \ {file[p]} : lines'[g] = lines[g]
          /\ \/ lines'[file[p]] = lines[file[p]]
             \/ snap[p].journal /\ lines'[file[p]] = scan[p]
      <3>1. DOMAIN lines = File
        BY <1>0 DEF TypeOK
      <3>2. CASE lines' = lines
        BY <3>2
      <3>3. CASE snap[p].journal /\ lines' = [lines EXCEPT ![file[p]] = scan[p]]
        BY <2>1, <3>1, <3>3
      <3> QED
        BY <2>3, <3>2, <3>3
    <2>5. lines'[file[p]] \in {scan[p], Append(scan[p], Torn), Append(scan[p], OwnRecord(p))}
      BY <1>0, <2>1, <2>4 DEF AtWork
    <2>6. snap[p].journal => Revocable(p)
      BY <1>0, <1>3, <2>1 DEF Trace, Revocable
    <2> QED
      BY <1>1, <2>1, <2>4, <2>5, <2>6, WriterGain
  <1> QED
    BY <1>2, <1>3 DEF RollBack

LEMMA KillGain ==
    ASSUME TraceInv, TraceInv', NEW p \in Proc, Kill(p) PROVE Gain(p)
  <1>0. TypeOK /\ AtWork(p) /\ Trace(p)
    BY DEF TraceInv, JournalInv
  <1>1. /\ Alone(p) /\ pc[p] # "done" /\ pc'[p] = "done"
        /\ UNCHANGED <<file, scan, kind, snap>>
    BY <1>0, StepAlone DEF Kill, Goto, TypeOK
  <1>2. CASE lines' = lines /\ pc[p] \notin Written
    BY <1>1, <1>2, ClearGain DEF Gain
  <1>3. CASE lines' = lines /\ pc[p] \in Written
    <2>1. lines[file[p]] \in {scan[p], Append(scan[p], Torn), Append(scan[p], OwnRecord(p))}
      BY <1>0, <1>3 DEF AtWork
    <2> QED
      BY <1>1, <1>3, <2>1, WriterGain
  <1>4. CASE pc[p] = "write" /\ lines' = [lines EXCEPT ![file[p]] = Append(@, Torn)]
    <2>1. file[p] \in File /\ lines[file[p]] = scan[p]
      BY <1>0, <1>4, FileInRange DEF AtWork, Scanned
    <2>2. /\ lines'[file[p]] = Append(scan[p], Torn)
          /\ \A g \in File \ {file[p]} : lines'[g] = lines[g]
      BY <1>0, <1>4, <2>1 DEF TypeOK
    <2> QED
      BY <1>1, <1>4, <2>2, WriterGain
  <1> QED
    BY <1>2, <1>3, <1>4 DEF Kill

LEMMA AppendGain ==
    ASSUME TraceInv, TraceInv', NEW p \in Proc, AppendLine(p) PROVE Gain(p)
  <1>0. TypeOK /\ AtWork(p) /\ Trace(p) /\ DOMAIN lines = File
    BY DEF TraceInv, JournalInv, TypeOK
  <1>1. Alone(p) /\ pc[p] = "write"
    BY <1>0, StepAlone DEF Step, AppendLine
  <1>2. file[p] \in File /\ lines[file[p]] = scan[p] /\ scan[p] \in Seq(Record)
        /\ OwnRecord(p) \in Line
    BY <1>0, <1>1, FileInRange, OwnRecordTyped DEF AtWork, Scanned, TypeOK, Line
  <1>3. ASSUME NEW log \in {scan[p], Append(scan[p], Torn), Append(scan[p], OwnRecord(p))},
               lines' = [lines EXCEPT ![file[p]] = log]
        PROVE  lines'[file[p]] = log /\ \A g \in File \ {file[p]} : lines'[g] = lines[g]
    BY <1>0, <1>2, <1>3
  <1>4. CASE /\ lines' = [lines EXCEPT ![file[p]] = Append(@, OwnRecord(p))]
             /\ Goto(p, "appended")
             /\ UNCHANGED <<kind, root, held, file, scan, snap, code, answer, stuck>>
    <2>1. pc'[p] = "appended" /\ lines' = [lines EXCEPT ![file[p]] = Append(scan[p], OwnRecord(p))]
      BY <1>0, <1>2, <1>4 DEF Goto, TypeOK
    <2> QED
      BY <1>1, <1>3, <1>4, <2>1, WriterGain DEF Written
  <1>5. ASSUME Refuse(p, "internal"), NEW part \in {<<>>, <<Torn>>, <<OwnRecord(p)>>},
               lines' = [lines EXCEPT ![file[p]] = @ \o part]
        PROVE  Gain(p)
    <2>1. scan[p] \o part \in {scan[p], Append(scan[p], Torn), Append(scan[p], OwnRecord(p))}
      <3>1. Torn \in Line
        BY LineShape
      <3> QED
        BY <1>2, <1>5, <3>1, OneLine
    <2>2. lines' = [lines EXCEPT ![file[p]] = scan[p] \o part]
      BY <1>2, <1>5
    <2>3. UNCHANGED <<file, scan, kind, snap>> /\ pc'[p] \in {"undo", "done"}
      BY <1>0, <1>1, <1>5, RefuseTyped DEF Reasons
    <2> QED
      BY <1>1, <1>3, <2>1, <2>2, <2>3, WriterGain DEF Written
  <1> QED
    BY <1>4, <1>5 DEF AppendLine

\* What is answered as written is settled.
LEMMA PublishGain ==
    ASSUME TraceInv, TraceInv', NEW p \in Proc, Publish(p)
    PROVE  /\ Gain(p)
           /\ pc'[p] = "done" =>
                 \E f \in File : f = file[p] /\ Settled(f)' = Append(scan[p], OwnRecord(p))
  <1>0. TypeOK /\ AtWork(p) /\ Trace(p)
    BY DEF TraceInv, JournalInv
  <1>1. Alone(p) /\ pc[p] = "appended" /\ lines' = lines
    BY <1>0, StepAlone DEF Step, Publish, fileVars
  <1>2. /\ file[p] \in File /\ lines[file[p]] = Append(scan[p], OwnRecord(p))
        /\ scan[p] \in Seq(Record) /\ OwnRecord(p) \in Record
    BY <1>0, <1>1, FileInRange, OwnRecordTyped DEF AtWork, Trace, Written, TypeOK
  <1>3. UNCHANGED <<file, scan, kind, snap>> /\ pc'[p] \in {"undo", "done"}
    <2>1. CASE \E seen : Return(p, "written", seen)
      BY <1>0, <2>1 DEF Return, Goto, TypeOK
    <2>2. CASE kind[p] = "bind" /\ Refuse(p, "changed")
      BY <1>0, <1>1, <2>2, RefuseTyped DEF Reasons, Refuse, Goto, TypeOK
    <2> QED
      BY <2>1, <2>2 DEF Publish
  <1>4. Gain(p)
    BY <1>1, <1>2, <1>3, WriterGain DEF Written
  <1>5. CASE pc'[p] = "done"
    <2>1. SettledFacts'
      <3>1. TraceInv' => SettledFacts'
        BY SettledFactsHold, PTL
      <3> QED
        BY <3>1
    <2>2. held[p] = "exclusive" /\ JournalInv
      BY <1>0, <1>1 DEF AtWork, Written, TraceInv
    <2>3. PICK h \in File : h = file[p]
      BY <1>2
    <2>4. \A q \in Proc : q # p => (Revocable(q)' <=> Revocable(q)) /\ file'[q] = file[q]
      BY <1>1 DEF Alone, Frame, Revocable
    <2>5. \A q \in Proc : q # p => ~(Revocable(q) /\ file[q] = h)
      BY <2>2, <2>3, OnlyHolder DEF Revocable
    <2>6. ~Revocable(p)'
      BY <1>5 DEF Revocable, Written
    <2>7. Settled(h)' = Whole(lines'[h])
      BY <2>1, <2>4, <2>5, <2>6 DEF SettledFacts
    <2>8. Whole(lines'[h]) = Append(scan[p], OwnRecord(p))
      BY <1>1, <1>2, <2>3, WholeShapes
    <2> QED
      BY <1>4, <2>3, <2>7, <2>8
  <1> QED
    BY <1>4, <1>5

--------------------------------------------------------------------------------
(* Steps of the logs.                                                      *)

\* The record a call gains is its first.
LEMMA GainIsAdd ==
    ASSUME TraceInv, NEW p \in Proc, Gain(p), made' = made
    PROVE  Log!MayAdd(p)
  <1>0. TypeOK /\ AtWork(p) /\ Trace(p) /\ JournalInv
    BY DEF TraceInv, JournalInv
  <1>1. CASE \A g \in File : Settled(g)' = Settled(g)
    BY <1>1 DEF Log!MayAdd
  <1>2. CASE /\ pc[p] \in {"write"} \cup Written
             /\ \E f \in File : /\ f = file[p] /\ Settled(f) = scan[p]
                                /\ Settled(f)' = Append(scan[p], OwnRecord(p))
             /\ \A g \in File \ {file[p]} : Settled(g)' = Settled(g)
    <2>1. PICK f \in File : /\ f = file[p] /\ Settled(f) = scan[p]
                            /\ Settled(f)' = Append(scan[p], OwnRecord(p))
      BY <1>2
    <2>2. pc[p] \in Scanned \cup Written /\ f \in 1 .. made
      BY <1>0, <1>2, <2>1, BoundsAreNumbers DEF Scanned, AtWork, TypeOK, File
    <2>3. \A g \in File : \A i \in DOMAIN Settled(g) : Settled(g)[i].by # p
      <3>1. ASSUME NEW g \in File, NEW i \in DOMAIN Settled(g), Settled(g)[i].by = p
            PROVE  FALSE
        <4>1. i \in DOMAIN lines[g] /\ lines[g][i].by = p
          BY <1>0, <3>1, SettledIsPrefix
        <4>2. pc[p] \in Written /\ g = f /\ i > Len(scan[p])
          BY <1>0, <1>2, <2>1, <4>1 DEF Trace, Clear, Scanned, Written
        <4>3. i \in DOMAIN scan[p] /\ DOMAIN scan[p] = 1 .. Len(scan[p])
              /\ Len(scan[p]) \in Nat
          BY <1>0, <2>1, <3>1, <4>2, LenProperties DEF TypeOK
        <4> QED
          BY <4>2, <4>3
      <3> QED
        BY <3>1
    <2>4. OwnRecord(p) = [id |-> HighestId(scan[p]) + 1, by |-> p, tool |-> Tool(kind[p])]
          /\ Tool(kind[p]) \in {"apply_edits", "map_rounds", "export"}
      BY <1>0, <2>2 DEF OwnRecord, Tool, AtWork, Writers
    <2>5. [g \in File |-> Settled(g)]' =
             [[g \in File |-> Settled(g)] EXCEPT ![f] =
                Append(@, [id |-> HighestId(@) + 1, by |-> p, tool |-> Tool(kind[p])])]
      BY <1>2, <2>1, <2>4
    <2>6. ~Log!OnRecord(p)
      BY <2>3 DEF Log!OnRecord
    <2>7. Log!Adds(p)
      BY <2>2, <2>4, <2>5, <2>6 DEF Log!Adds, Log!HighestId, HighestId
    <2> QED
      BY <2>7 DEF Log!MayAdd
  <1> QED
    BY <1>1, <1>2 DEF Gain

\* A failing call returns nothing, or the export it had ready.
LEMMA RefuseAnswers ==
    ASSUME TypeOK, NEW p \in Proc, NEW why, Refuse(p, why) \/ Raise(p, why)
    PROVE  \/ answer' = answer
           \/ \E status \in {"write_failed", "refused"} :
                 /\ status = "refused" => pc[p] \notin {"append", "write", "appended"}
                 /\ answer' = [answer EXCEPT ![p] = [status |-> status, seen |-> <<>>]]
           \/ /\ pc[p] \in {"append", "write", "appended"}
              /\ answer' = [answer EXCEPT ![p] = [status |-> "write_failed",
                                                  seen |-> View("export", scan[p])]]
  BY DEF Refuse, Raise, Return

LEMMA SameView ==
    ASSUME NEW s, NEW t, s = t PROVE Log!View("export", t) = View("export", s)
  BY DEF View, Log!View

LogStep == [Log!LogNext]_Log!logVars

LEMMA LogFails ==
    ASSUME TraceInv, NEW p \in Proc, NEW status \in {"write_failed", "refused"}, Gain(p),
           \/ status = "write_failed"
           \/ \A g \in File : Settled(g)' = Settled(g),
           status = "refused" => journal' = journal,
           pc[p] # "done", UNCHANGED made, journal' \in {journal, 0},
           answer' = [answer EXCEPT ![p] = [status |-> status, seen |-> <<>>]]
    PROVE  LogStep
  <1>1. answer[p] = Log!Unanswered /\ DOMAIN answer = Proc
    BY DEF TraceInv, Trace, Pending, Log!Unanswered, JournalInv, TypeOK
  <1>2. Log!MayAdd(p)
    BY GainIsAdd
  <1>3. /\ answer'[p] = [status |-> status, seen |-> <<>>]
        /\ answer' = [answer EXCEPT ![p] = answer'[p]]
    BY <1>1
  <1>4. CASE status = "write_failed"
    <2>1. Log!AnswerFailed(p)
      BY <1>1, <1>2, <1>3, <1>4 DEF Log!AnswerFailed, Log!Answers
    <2> QED
      BY <2>1 DEF LogStep, Log!LogNext
  <1>5. CASE status = "refused"
    <2>1. Log!AnswerNothing(p)
      BY <1>1, <1>3, <1>5 DEF Log!AnswerNothing, Log!Answers
    <2> QED
      BY <2>1 DEF LogStep, Log!LogNext
  <1> QED
    BY <1>4, <1>5

\* An export that could not be recorded is still returned.
LEMMA LogFailsExport ==
    ASSUME TraceInv, NEW p \in Proc, Gain(p), pc[p] \in {"append", "write"},
           UNCHANGED <<made, journal>>,
           answer' = [answer EXCEPT ![p] = [status |-> "write_failed",
                                            seen |-> View("export", scan[p])]]
    PROVE  LogStep
  <1>0. TypeOK /\ AtWork(p) /\ pc[p] \in Scanned \cup Written /\ SettledFacts
    BY SettledFactsHold DEF TraceInv, JournalInv, Scanned
  <1>1. answer[p] = Log!Unanswered /\ DOMAIN answer = Proc
    BY <1>0 DEF TraceInv, Trace, Pending, Log!Unanswered, TypeOK
  <1>2. Log!MayAdd(p)
    BY GainIsAdd
  <1>3. /\ answer'[p] = [status |-> "write_failed", seen |-> View("export", scan[p])]
        /\ answer' = [answer EXCEPT ![p] = answer'[p]]
    BY <1>1
  <1>4. /\ file[p] \in 1 .. made /\ file[p] \in File /\ scan[p] \in Seq(Record)
        /\ lines[file[p]] = scan[p]
    BY <1>0, FileInRange DEF TypeOK, AtWork, Scanned
  <1>5. Settled(file[p]) = scan[p]
    <2>1. OnePast \in Record
      BY DEF OnePast, Record
    <2> QED
      BY <1>0, <1>4, <2>1, WholeShapes DEF SettledFacts, Revocable, Written
  <1>6. Len(scan[p]) \in Nat /\ SubSeq(scan[p], 1, Len(scan[p])) = scan[p]
    BY <1>4, OneLine, LineShape
  <1>7. answer'[p].seen = Log!View("export", SubSeq(scan[p], 1, Len(scan[p])))
    <2>1. Log!View("export", SubSeq(scan[p], 1, Len(scan[p]))) = View("export", scan[p])
      BY <1>6, SameView
    <2>2. answer'[p].seen = View("export", scan[p])
      BY <1>3
    <2> QED
      BY <2>1, <2>2
  <1>8. Log!AnswerFailed(p)
    BY <1>1, <1>2, <1>3, <1>4, <1>5, <1>6, <1>7 DEF Log!AnswerFailed, Log!Answers
  <1> QED
    BY <1>8 DEF LogStep, Log!LogNext

SettledStays == \A g \in File : Settled(g)' = Settled(g)

LEMMA LogStays ==
    ASSUME SettledStays, UNCHANGED <<made, journal, answer>> PROVE LogStep
  BY DEF SettledStays, LogStep, Log!logVars

LEMMA LogAdds ==
    ASSUME TraceInv, NEW p \in Proc, Gain(p), pc[p] # "done",
           UNCHANGED <<made, journal, answer>>
    PROVE  LogStep
  <1>1. answer[p] = Log!Unanswered
    BY DEF TraceInv, Trace, Pending, Log!Unanswered
  <1>2. Log!MayAdd(p)
    BY GainIsAdd
  <1>3. CASE Log!Adds(p)
    <2>1. Log!AddRecord(p)
      BY <1>1, <1>3 DEF Log!AddRecord
    <2> QED
      BY <2>1 DEF LogStep, Log!LogNext
  <1>4. CASE [g \in File |-> Settled(g)]' = [g \in File |-> Settled(g)]
    BY <1>4 DEF LogStep, Log!logVars
  <1> QED
    BY <1>2, <1>3, <1>4 DEF Log!MayAdd

LEMMA LogRenames ==
    ASSUME TypeOK, SettledStays, answer' = answer,
           \/ made' = made /\ journal' = 0
           \/ made' = made + 1 /\ journal' = made + 1
    PROVE  LogStep
  <1>1. made \in Nat
    BY BoundsAreNumbers DEF TypeOK
  <1>2. journal' \in {0} \cup ((1 .. made') \ (1 .. made)) /\ 1 .. made \subseteq 1 .. made'
    BY <1>1
  <1>3. Log!Rename
    BY <1>2 DEF Log!Rename, SettledStays
  <1> QED
    BY <1>3 DEF LogStep, Log!LogNext

LEMMA LogRefuses ==
    ASSUME TraceInv, NEW p \in Proc, NEW why, Refuse(p, why) \/ Raise(p, why), Gain(p),
           pc[p] \in {"append", "write"} \/ SettledStays,
           pc[p] \notin {"appended", "done"}, UNCHANGED <<made, journal>>
    PROVE  LogStep
  <1>0. TypeOK
    BY DEF TraceInv, JournalInv
  <1>1. CASE answer' = answer
    BY <1>1, LogAdds
  <1>2. ASSUME NEW status \in {"write_failed", "refused"},
               status = "refused" => pc[p] \notin {"append", "write", "appended"},
               answer' = [answer EXCEPT ![p] = [status |-> status, seen |-> <<>>]]
        PROVE  LogStep
    BY <1>2, LogFails DEF SettledStays
  <1>3. CASE /\ pc[p] \in {"append", "write", "appended"}
             /\ answer' = [answer EXCEPT ![p] = [status |-> "write_failed",
                                                 seen |-> View("export", scan[p])]]
    BY <1>3, LogFailsExport
  <1> QED
    BY <1>0, <1>1, <1>2, <1>3, RefuseAnswers

LEMMA LogAnswersNothing ==
    ASSUME TraceInv, NEW p \in Proc, pc[p] # "done", SettledStays,
           UNCHANGED <<made, journal>>, Return(p, "disabled", <<>>)
    PROVE  LogStep
  <1>1. answer[p] = Log!Unanswered /\ DOMAIN answer = Proc
    BY DEF TraceInv, Trace, Pending, Log!Unanswered, JournalInv, TypeOK
  <1>2. answer' = [answer EXCEPT ![p] = [status |-> "disabled", seen |-> <<>>]]
    BY DEF Return
  <1>3. Log!AnswerNothing(p)
    BY <1>1, <1>2 DEF Log!AnswerNothing, Log!Answers, SettledStays
  <1> QED
    BY <1>3 DEF LogStep, Log!LogNext

\* A reader is shown a settled log.
LEMMA LogReads ==
    ASSUME TraceInv, NEW p \in Proc, pc[p] # "done", SettledStays,
           UNCHANGED <<made, journal>>, NEW seen, Return(p, "read", seen),
           \/ journal = 0 /\ seen = <<>>
           \/ \E f \in 1 .. made, k \in {"map", "read"} :
                 seen = Log!View(k, [g \in File |-> Settled(g)][f])
    PROVE  LogStep
  <1>1. answer[p] = Log!Unanswered /\ DOMAIN answer = Proc
    BY DEF TraceInv, Trace, Pending, Log!Unanswered, JournalInv, TypeOK
  <1>2. answer' = [answer EXCEPT ![p] = [status |-> "read", seen |-> seen]]
    BY DEF Return
  <1>3. answer'[p].seen = seen /\ Log!Answers(p, {"read"})
    BY <1>1, <1>2 DEF Log!Answers
  <1>4. Log!AnswerRead(p)
    BY <1>3 DEF Log!AnswerRead, SettledStays
  <1> QED
    BY <1>4 DEF LogStep, Log!LogNext

LEMMA ScanLog == ASSUME TraceInv, NEW p \in Proc, LockAndScan(p) PROVE LogStep
  <1>0. /\ TypeOK /\ AtWork(p) /\ JournalInv /\ SettledFacts
        /\ UNCHANGED <<lines, made, journal>> /\ pc[p] = "file"
    BY SettledFactsHold DEF TraceInv, JournalInv, LockAndScan, fileVars
  <1>1. Alone(p) /\ SettledStays
    BY <1>0, StepAlone, ClearGain DEF Step, SettledStays, Written
  <1>2. CASE Refuse(p, "changed") \/ Refuse(p, "corrupt") \/ Raise(p, "changed")
    BY <1>0, <1>1, <1>2, LogRefuses DEF Gain, SettledStays
  <1>3. CASE /\ ~IsTorn(lines[file[p]]) /\ kind[p] \in {"read", "map"}
             /\ Return(p, "read", View(kind[p], lines[file[p]]))
    <2>1. file[p] \in 1 .. made /\ file[p] \in File
      BY <1>0, FileInRange DEF AtWork, TypeOK
    <2>2. \A q \in Proc : Revocable(q) => file[q] # file[p]
      <3>1. ASSUME NEW q \in Proc, Revocable(q), file[q] = file[p] PROVE FALSE
        <4>1. held[q] = "exclusive"
          BY <3>1 DEF Revocable, TraceInv, JournalInv, AtWork
        <4>2. q # p
          BY <1>0, <3>1 DEF Revocable, Written
        <4> QED
          BY <3>1, <4>1, <4>2 DEF LockAndScan, FileCompatible
      <3> QED
        BY <3>1
    <2>3. Settled(file[p]) = lines[file[p]]
      BY <1>0, <1>3, <2>1, <2>2 DEF SettledFacts, Whole
    <2>4. [g \in File |-> Settled(g)][file[p]] = lines[file[p]]
      BY <2>1, <2>3
    <2>5. Log!View(kind[p], lines[file[p]]) = View(kind[p], lines[file[p]])
      BY Zenon DEF View, Log!View
    <2> QED
      BY <1>0, <1>1, <1>3, <2>1, <2>4, <2>5, LogReads
  <1>4. CASE answer' = answer
    BY <1>0, <1>1, <1>4, LogStays
  <1> QED
    BY <1>2, <1>3, <1>4 DEF LockAndScan

LEMMA QuietLog ==
    ASSUME TraceInv, NEW p \in Proc, Quiet(p) PROVE LogStep
  <1>0. /\ TypeOK /\ Alone(p) /\ SettledStays /\ Gain(p)
        /\ pc[p] \notin Written \cup {"done"} /\ pc[p] \notin {"appended", "done"}
    <2>1. TypeOK
      BY DEF TraceInv, JournalInv
    <2>2. Alone(p) /\ lines' = lines /\ pc[p] \notin Written \cup {"done"}
      BY <2>1, StepAlone, QuietIsQuiet DEF Step, Quiet
    <2> QED
      BY <2>1, <2>2, ClearGain DEF SettledStays, Gain, Written
  <1>1. CASE Disabled(p)
    BY <1>0, <1>1, LogAnswersNothing, LogStays DEF Disabled, fileVars
  <1>2. CASE Start(p)
    <2>1. UNCHANGED <<made, journal>>
      BY <1>2 DEF Start, fileVars
    <2>2. CASE Raise(p, "changed")
      BY <1>0, <2>1, <2>2, LogRefuses
    <2>3. CASE journal = 0 /\ Return(p, "read", <<>>)
      BY <1>0, <2>1, <2>3, LogReads
    <2>4. CASE answer' = answer
      BY <1>0, <2>1, <2>4, LogStays
    <2> QED
      BY <1>2, <2>2, <2>3, <2>4 DEF Start
  <1>3. CASE LockRoot(p) \/ TakeSnapshot(p)
    BY <1>0, <1>3, LogStays DEF LockRoot, TakeSnapshot, fileVars
  <1>4. CASE Busy(p)
    BY <1>0, <1>4, LogRefuses DEF Busy, fileVars
  <1>5. CASE MakeSidecar(p) \/ EnsureIgnore(p) \/ BindIgnore(p)
    BY <1>0, <1>5, LogRefuses, LogStays DEF MakeSidecar, EnsureIgnore, BindIgnore
  <1>6. CASE OpenForAppend(p) \/ BindJournal(p)
    <2>1. CASE Refuse(p, "internal") /\ UNCHANGED <<made, journal>>
      BY <1>0, <2>1, LogRefuses
    <2>2. CASE answer' = answer /\ NewJournal(p)
      BY <1>0, <2>2, LogRenames DEF NewJournal
    <2>3. CASE answer' = answer /\ UNCHANGED <<made, journal>>
      BY <1>0, <2>3, LogStays
    <2> QED
      BY <1>6, <2>1, <2>2, <2>3 DEF OpenForAppend, BindJournal, FoundJournal
  <1>7. CASE Reopen(p)
    <2>1. UNCHANGED <<made, journal>>
      BY <1>7 DEF Reopen
    <2>2. CASE Raise(p, "changed") \/ Raise(p, "internal")
      BY <1>0, <2>1, <2>2, LogRefuses
    <2>3. CASE journal = 0 /\ Return(p, "read", <<>>)
      BY <1>0, <2>1, <2>3, LogReads
    <2>4. CASE answer' = answer
      BY <1>0, <2>1, <2>4, LogStays
    <2> QED
      BY <1>7, <2>2, <2>3, <2>4 DEF Reopen
  <1>8. CASE CheckAppend(p)
    BY <1>0, <1>8, LogRefuses, LogStays DEF CheckAppend, fileVars
  <1> QED
    BY <1>1, <1>2, <1>3, <1>4, <1>5, <1>6, <1>7, <1>8, ScanLog DEF Quiet

LEMMA AppendLog ==
    ASSUME TraceInv, TraceInv', NEW p \in Proc, AppendLine(p) PROVE LogStep
  <1>1. Gain(p) /\ pc[p] = "write" /\ UNCHANGED <<made, journal>>
    BY AppendGain DEF AppendLine
  <1>2. CASE answer' = answer
    BY <1>1, <1>2, LogAdds
  <1>3. CASE Refuse(p, "internal")
    BY <1>1, <1>3, LogRefuses
  <1> QED
    BY <1>2, <1>3 DEF AppendLine

\* A call answered as written has its record in a log, behind what it returns.
LEMMA PublishLog ==
    ASSUME TraceInv, TraceInv', NEW p \in Proc, Publish(p) PROVE LogStep
  <1>0. /\ TypeOK /\ AtWork(p) /\ Gain(p) /\ pc[p] = "appended"
        /\ UNCHANGED <<made, journal>>
    BY PublishGain DEF TraceInv, JournalInv, Publish, fileVars
  <1>1. CASE kind[p] = "bind" /\ Refuse(p, "changed")
    <2>1. answer' = answer
      BY <1>0, <1>1 DEF Refuse
    <2> QED
      BY <1>0, <2>1, LogAdds
  <1>2. CASE Return(p, "written", IF kind[p] = "export" THEN View("export", scan[p]) ELSE <<>>)
    <2> DEFINE logs == [g \in File |-> Settled(g)]
               i == Len(scan[p]) + 1
               r == OwnRecord(p)
    <2>1. /\ answer[p] = Log!Unanswered /\ DOMAIN answer = Proc
          /\ pc'[p] = "done"
      BY <1>0, <1>2 DEF TraceInv, Trace, Pending, Log!Unanswered, TypeOK, Return, Goto
    <2>2. answer' = [answer EXCEPT ![p] =
                       [status |-> "written",
                        seen |-> IF kind[p] = "export" THEN View("export", scan[p]) ELSE <<>>]]
      BY <1>2 DEF Return
    <2>3. /\ answer'[p] = [status |-> "written",
                           seen |-> IF kind[p] = "export" THEN View("export", scan[p]) ELSE <<>>]
          /\ Log!Answers(p, {"written"})
      BY <2>1, <2>2 DEF Log!Answers
    <2>4. Log!MayAdd(p)
      BY <1>0, GainIsAdd
    <2>5. PICK f \in File : f = file[p] /\ Settled(f)' = Append(scan[p], r)
      BY <2>1, PublishGain
    <2>6. f \in 1 .. made /\ scan[p] \in Seq(Record) /\ r \in Record /\ kind[p] \in Writers
      <3>1. pc[p] \in Scanned \cup Written
        BY <1>0 DEF Written
      <3>2. file[p] # 0 /\ file[p] \in 0 .. made /\ kind[p] \in Writers
        BY <1>0, <3>1 DEF AtWork, TypeOK
      <3>3. scan[p] \in Seq(Record) /\ r \in Record
        BY <1>0, <3>1, OwnRecordTyped DEF TypeOK
      <3>4. made \in Nat
        BY <1>0, BoundsAreNumbers DEF TypeOK
      <3> QED
        BY <2>5, <3>2, <3>3, <3>4
    <2>7. logs'[f] = Append(scan[p], r)
      BY <2>5
    <2>8. /\ Append(scan[p], r)[i] = r /\ i \in DOMAIN Append(scan[p], r)
          /\ SubSeq(Append(scan[p], r), 1, i - 1) = scan[p]
      <3>1. r \in Line /\ Len(scan[p]) \in Nat
        BY <2>6, LenProperties DEF Line
      <3>2. i - 1 = Len(scan[p])
        BY <3>1
      <3>3. SubSeq(Append(scan[p], r), 1, Len(scan[p])) = scan[p]
        BY <2>6, <3>1, OneLine
      <3>4. DOMAIN Append(scan[p], r) = 1 .. i /\ Append(scan[p], r)[i] = r
        BY <2>6, <3>1, AppendProperties, LenProperties
      <3> QED
        BY <3>1, <3>2, <3>3, <3>4
    <2>9. r.by = p /\ (r.tool = "export" <=> kind[p] = "export")
      BY <2>6 DEF OwnRecord, Tool, Writers
    <2>10. answer'[p].seen = IF r.tool = "export"
                             THEN Log!View("export", SubSeq(logs'[f], 1, i - 1))
                             ELSE <<>>
      <3>1. CASE kind[p] # "export"
        BY <2>3, <2>9, <3>1
      <3>2. CASE kind[p] = "export"
        <4>1. logs'[f] = Append(scan[p], r) /\ r.tool = "export"
          BY <2>7, <2>9, <3>2
        <4>2. SubSeq(logs'[f], 1, i - 1) = scan[p]
          BY <2>8, <4>1
        <4>3. Log!View("export", SubSeq(logs'[f], 1, i - 1)) = View("export", scan[p])
          BY <4>2, SameView
        <4>4. answer'[p].seen = View("export", scan[p])
          BY <2>3, <3>2
        <4> QED
          BY <4>1, <4>3, <4>4
      <3> QED
        BY <3>1, <3>2
    <2>11. i \in DOMAIN logs'[f] /\ logs'[f][i] = r
      BY <2>7, <2>8
    <2>12. Log!AnswerWritten(p)
      BY <1>0, <2>3, <2>4, <2>6, <2>9, <2>10, <2>11 DEF Log!AnswerWritten
    <2> QED
      BY <2>12 DEF LogStep, Log!LogNext
  <1> QED
    BY <1>1, <1>2 DEF Publish

LEMMA RollBackLog ==
    ASSUME TraceInv, TraceInv', NEW p \in Proc, RollBack(p) PROVE LogStep
  <1>1. /\ Gain(p) /\ pc[p] # "done" /\ made' = made /\ journal' \in {journal, 0}
        /\ answer' = [answer EXCEPT ![p] = [status |-> "write_failed", seen |-> <<>>]]
    BY RollBackGain DEF RollBack, Return
  <1> QED
    BY <1>1, LogFails

LEMMA KillLog == ASSUME TraceInv, TraceInv', NEW p \in Proc, Kill(p) PROVE LogStep
  <1>1. Gain(p) /\ pc[p] # "done" /\ UNCHANGED <<made, journal, answer>>
    BY KillGain DEF Kill
  <1> QED
    BY <1>1, LogAdds

LEMMA UserLog == ASSUME TraceInv, ArchiveJournal \/ MoveWorkspace PROVE LogStep
  <1>1. TypeOK /\ UNCHANGED <<callVars, lines, made>>
    BY DEF TraceInv, JournalInv, ArchiveJournal, MoveWorkspace
  <1>2. SettledStays
    BY <1>1 DEF SettledStays, Settled, Unsettled, callVars
  <1>3. answer' = answer /\ (journal' = 0 \/ journal' = journal)
    BY <1>1 DEF ArchiveJournal, MoveWorkspace, callVars
  <1> QED
    BY <1>1, <1>2, <1>3, LogRenames, LogStays

\* Every step of the calls, the system and the user is a step of the logs or
\* none: locks, torn lines and rollbacks show nobody a record that will go.
THEOREM ImplementsLog == Spec => LogImplemented
  <1>1. Init => Log!LogInit
    <2> SUFFICES ASSUME Init PROVE Log!LogInit
      OBVIOUS
    <2>1. TypeOK
      BY TraceInit DEF TraceInv, JournalInv
    <2>2. answer = [p \in Proc |-> Log!Unanswered]
      BY DEF Init, Pending, Log!Unanswered
    <2>3. journal \in (1 .. made) \cup {0}
      BY <2>1, BoundsAreNumbers DEF TypeOK
    <2> QED
      BY <2>2, <2>3 DEF Log!LogInit
  <1>2. TraceInv /\ TraceInv' /\ [Next]_journalVars => [Log!LogNext]_Log!logVars
    <2> SUFFICES ASSUME TraceInv, TraceInv', [Next]_journalVars PROVE LogStep
      BY DEF LogStep
    <2>1. CASE UNCHANGED journalVars
      <3>1. UNCHANGED <<fileVars, callVars>>
        BY <2>1 DEF journalVars
      <3>2. SettledStays
        BY <3>1 DEF SettledStays, Settled, Unsettled, callVars, fileVars
      <3> QED
        BY <3>1, <3>2, LogStays DEF fileVars, callVars
    <2>2. ASSUME NEW p \in Proc, Step(p) PROVE LogStep
      BY <2>2, QuietLog, AppendLog, PublishLog, RollBackLog DEF Step, Quiet
    <2>3. ASSUME NEW p \in Proc, Kill(p) PROVE LogStep
      BY <2>3, KillLog
    <2> QED
      BY <2>1, <2>2, <2>3, UserLog DEF Next
  <1> QED
    BY <1>1, <1>2, TracesAreKept, PTL DEF Spec, LogImplemented, Log!LogSpec
================================================================================
