---------------------------- MODULE RoundReading ----------------------------
(***************************************************************************)
(* One agent's session with map_rounds (kind "map") or                      *)
(* trace_paragraph_history (kind "history") over a folder in which people    *)
(* keep working: server.py's tool handlers, round_map.py and                *)
(* _history_io.py.  A call enumerates the folder's documents, reads them one *)
(* by one, checks that nothing moved, computes the complete result, returns  *)
(* one page of it with a cursor bound to what it was computed from, and      *)
(* writes its own record to the workspace's journal.                        *)
(*                                                                         *)
(* A file is its document, its inode and a version that every save, touch    *)
(* and creation renews: the size, mtime and ctime a descriptor compares.     *)
(* Nothing is kept between two calls but the cursor the agent hands back.    *)
(***************************************************************************)
EXTENDS ParagraphHistory

CONSTANTS
    Names,        \* the names of a folder's documents in filename order
    NoFile,       \* no document under this name
    Lexical,      \* the filename_lexicographic_v1 order: no sequence is given
    Tasks,        \* the sessions looked at: see Task
    ApplyRecords, \* the apply records other tools may append
    NewDocuments  \* what others save in the folder

NameSet == {Names[i] : i \in DOMAIN Names}

(* A session has a tool, an order and a seed; a first folder and journal;    *)
(* the page sizes it asks for; and bounds on its calls and on the changes    *)
(* others make meanwhile.                                                    *)
ASSUME TasksAssumption ==
    /\ NewDocuments \subseteq Documents
    /\ Names \in Seq(NameSet)
    /\ \A t \in Tasks :
         /\ t.kind \in {"map", "history"}
         /\ t.order = Lexical \/ t.order \in Seq(NameSet)
         /\ t.seedName \in NameSet
         /\ t.seed[1] \in Documents /\ t.seed[2] \in DOMAIN Content[t.seed[1]].paras
         /\ t.folder \in [NameSet -> Documents \cup {NoFile}]
         /\ t.journal \in Seq(ToSet(t.journal))
         /\ \A r \in ToSet(t.journal) \cup ApplyRecords :
              ApplyRecord(r) /\ (r.tool = "history" => RecordIsValid(r))
         /\ t.sizes \subseteq Nat \ {0}
         /\ {t.calls, t.changes} \subseteq Nat

VARIABLES
    task,       \* this session (never changes)
    folder,     \* [name -> document or NoFile]
    stamp,      \* [name -> [inode, version]] of the file under the name
    clock,      \* how often the folder or the journal changed
    journal,    \* the workspace's journal, as far as these tools read it
    calls,      \* calls made so far
    pc,         \* what the call in progress does next; "idle" between calls
    request,    \* its page size and cursor
    found,      \* the candidates it enumerated: [name -> inode]
    opened,     \* the descriptor it holds open
    captured,   \* the files it has read: [name, document, stamp]
    checked,    \* how many of them it has looked at again
    answer,     \* the last answer
    cursor,     \* the cursor of the last page, NoCursor without one
    first,      \* the complete result the session's first page was cut from
    pages,      \* the pages returned since then: [offset, items]
    moment,     \* the folder when the last file was read
    basis,      \* the files and the journal the last result was computed from
    shown       \* ... and those of the last page returned

folderVars == <<folder, stamp>>
reading == <<found, opened, captured, checked, moment>>
session == <<cursor, first, pages, shown>>
vars == <<task, folder, stamp, clock, journal, calls, pc, request, found, opened,
          captured, checked, answer, cursor, first, pages, moment, basis, shown>>

\* A call for the first page bears no cursor.
NoCursor == [offset |-> 0, binding |-> [files |-> <<>>, records |-> {}, items |-> <<>>]]
Nothing == [files |-> <<>>, journal |-> <<>>]
NoStamp == [inode |-> 0, version |-> 0]
NoRequest == [size |-> 1, cursor |-> NoCursor]
NoMoment == [folder |-> <<>>, stamp |-> <<>>]
Refusal(code) == [status |-> "error", code |-> code]
IsMap == task.kind = "map"

Init ==
    /\ task \in Tasks
    /\ folder = task.folder
    /\ stamp = [n \in NameSet |-> NoStamp]
    /\ clock = 0
    /\ journal = task.journal
    /\ calls = 0
    /\ pc = "idle"
    /\ request = NoRequest
    /\ found = <<>>
    /\ opened = NoStamp
    /\ captured = <<>>
    /\ checked = 0
    /\ answer = Refusal("none")
    /\ cursor = NoCursor
    /\ first = <<>>
    /\ pages = {}
    /\ moment = NoMoment
    /\ basis = Nothing
    /\ shown = Nothing

-----------------------------------------------------------------------------
(* The agent.                                                                *)

(* A call for the first page, or for the page after the last one; a call     *)
(* whose answer was lost or refused is made again with the same cursor.      *)
Call(size, from) ==
    /\ pc = "idle"
    /\ calls < task.calls
    /\ request' = [size |-> size, cursor |-> from]
    /\ calls' = calls + 1
    /\ pc' = "enumerate"
    /\ answer' = Refusal("none")
    /\ basis' = Nothing
    /\ UNCHANGED <<task, folderVars, clock, journal, reading, session>>

(* A malformed request is refused before the folder is looked at.            *)
InputFaults == {"invalid_request", "invalid_round_order", "invalid_cursor"}
RefuseInputs(code) ==
    /\ pc = "idle"
    /\ answer' = Refusal(code)
    /\ UNCHANGED <<task, folderVars, clock, journal, calls, pc, request, reading,
                   session, basis>>

(* The call ends and forgets what it read.                                   *)
CallOver ==
    /\ pc' = "idle"
    /\ request' = NoRequest
    /\ found' = <<>>
    /\ opened' = NoStamp
    /\ captured' = <<>>
    /\ checked' = 0
    /\ moment' = NoMoment
    /\ UNCHANGED <<task, folderVars, clock, calls>>

Refuse(code) ==
    /\ CallOver
    /\ answer' = Refusal(code)
    /\ UNCHANGED <<journal, session, basis>>

Listed(f) == {n \in NameSet : f[n] # NoFile}

(* _effective_order: the documents are read in the order of their names or  *)
(* in the one the call gives.                                                *)
Order == IF task.order = Lexical THEN Names ELSE task.order
Place(n) == CHOOSE i \in DOMAIN Order : Order[i] = n

OrderRefused(candidates) ==
    /\ task.order # Lexical
    /\ \/ Len(task.order) # Cardinality(candidates)
       \/ {task.order[i] : i \in DOMAIN task.order} # candidates

(* _capture_workspace up to its first read: enumerate the candidates, settle *)
(* their order, and find the seed among them (for a history, as the last).   *)
Enumerate ==
    LET candidates == Listed(folder)
        seedIsLast == \A n \in candidates : Place(n) <= Place(task.seedName)
    IN  /\ pc = "enumerate"
        /\ \/ OrderRefused(candidates) /\ Refuse("invalid_round_order")
           \/ /\ ~OrderRefused(candidates)
              /\ task.seedName \notin candidates
              /\ Refuse("seed_not_candidate")
           \/ /\ ~OrderRefused(candidates)
              /\ task.seedName \in candidates
              /\ ~IsMap /\ ~seedIsLast
              /\ Refuse("seed_not_last_declared_position")
           \/ /\ ~OrderRefused(candidates)
              /\ task.seedName \in candidates
              /\ IsMap \/ seedIsLast
              /\ found' = [n \in candidates |-> stamp[n].inode]
              /\ pc' = "open"
              /\ UNCHANGED <<task, folderVars, clock, journal, calls, request, opened,
                             captured, checked, moment, answer, session, basis>>

Unread(files) == DOMAIN found \ {files[i].name : i \in DOMAIN files}
NextName == CHOOSE n \in Unread(captured) : \A m \in Unread(captured) : Place(n) <= Place(m)

(* _read_candidate_with_descriptor: open the next file by its name; it must  *)
(* be the file that was enumerated.                                          *)
Open ==
    /\ pc = "open"
    /\ \/ folder[NextName] = NoFile /\ Refuse("file_unreadable")
       \/ /\ folder[NextName] # NoFile
          /\ stamp[NextName].inode # found[NextName]
          /\ Refuse("workspace_changed")
       \/ /\ folder[NextName] # NoFile
          /\ stamp[NextName].inode = found[NextName]
          /\ opened' = stamp[NextName]
          /\ pc' = "read"
          /\ UNCHANGED <<task, folderVars, clock, journal, calls, request, found,
                         captured, checked, moment, answer, session, basis>>

(* Read it; neither the open file nor the file under its name may have       *)
(* changed since it was opened.                                              *)
Read ==
    /\ pc = "read"
    /\ \/ /\ folder[NextName] = NoFile \/ stamp[NextName] # opened
          /\ Refuse("workspace_changed")
       \/ /\ folder[NextName] # NoFile
          /\ stamp[NextName] = opened
          /\ captured' = Append(captured, [name |-> NextName, document |-> folder[NextName],
                                           stamp |-> opened])
          /\ moment' = [folder |-> folder, stamp |-> stamp]
          /\ pc' = IF Unread(captured') = {} THEN "recheck" ELSE "open"
          /\ UNCHANGED <<task, folderVars, clock, journal, calls, request, found,
                         opened, checked, answer, session, basis>>

(* The folder must still hold the candidates that were enumerated.           *)
Recheck ==
    /\ pc = "recheck"
    /\ \/ Listed(folder) # DOMAIN found /\ Refuse("workspace_changed")
       \/ /\ Listed(folder) = DOMAIN found
          /\ pc' = IF IsMap THEN "answer" ELSE "restat"
          /\ UNCHANGED <<task, folderVars, clock, journal, calls, request, reading,
                         answer, session, basis>>

(* The files are only looked for.                                            *)
MutantNoRestat(file) == folder[file.name] = NoFile

(* A history looks at every file it read once more.                          *)
RestatFails(file) == folder[file.name] = NoFile \/ stamp[file.name] # file.stamp

Restat ==
    LET file == captured[checked + 1]
    IN  /\ pc = "restat"
        /\ \/ RestatFails(file) /\ Refuse("workspace_changed")
           \/ /\ ~RestatFails(file)
              /\ checked' = checked + 1
              /\ pc' = IF checked + 1 = Len(captured) THEN "answer" ELSE "restat"
              /\ UNCHANGED <<task, folderVars, clock, journal, calls, request, found,
                             opened, captured, moment, answer, session, basis>>

-----------------------------------------------------------------------------
(* The computation, after which the call needs the folder no more.           *)

Files == [i \in DOMAIN captured |->
            [name |-> captured[i].name, document |-> captured[i].document]]
SeedFile == CHOOSE file \in {captured[i] : i \in DOMAIN captured} :
              file.name = task.seedName

(* _parse_candidates, then _resolve_seed_evidence                            *)
Unparsable == \E i \in DOMAIN captured : ~Content[captured[i].document].readable
SeedStale == SeedFile.document # task.seed[1]

(* The complete result, and what the code's cursor binding takes digests of. *)
Evidence == MapEvidence(task.order, Files, task.seed, journal)
Complete == IF IsMap THEN MapItems(Evidence) ELSE HistoryItems(Files, task.seed)
(* The binding forgets what the result says.                                 *)
MutantBinding(items) == [files |-> Files, records |-> {}, items |-> <<>>]
(* The binding is taken of the whole journal.                                *)
MutantWholeJournal(items) ==
    [files |-> IF IsMap THEN Files ELSE captured, records |-> DOMAIN journal,
     items |-> items]
(* A history's binding is to the files it read, a map's to their documents   *)
(* and to the records it tells of.                                           *)
HistoryBinding(items) == [files |-> captured, records |-> {}, items |-> items]
Binding(items) ==
    IF IsMap THEN [files |-> Files, records |-> RelevantRecords(Evidence), items |-> items]
    ELSE HistoryBinding(items)

Offset == request.cursor.offset

Page(items) ==
    IF IsMap
    THEN SubSeq(items, Offset + 1,
                IF Offset + request.size < Len(items) THEN Offset + request.size
                ELSE Len(items))
    ELSE HistoryPage(items, Offset, request.size)

Mismatch(items) == request.cursor # NoCursor /\ request.cursor.binding # Binding(items)

\* What an answer says besides its cursor.
Result(items, page) ==
    IF IsMap THEN [status |-> "ok", offset |-> Offset, items |-> page]
    ELSE [status |-> "ok", offset |-> Offset, items |-> page,
          coverage |-> Coverage(items, Offset, page),
          more |-> Offset + Len(page) < Len(items)]

(* What a computation refuses once it has read the folder, in this order.    *)
MapFault(items) ==
    IF Unparsable THEN "invalid_docx"
    ELSE IF SeedStale THEN "file_sha256_mismatch"
    ELSE IF TooManyNodes({f.document : f \in {Files[i] : i \in DOMAIN Files}}, journal)
    THEN "resource_limit_exceeded"
    ELSE IF Mismatch(items) THEN "cursor_mismatch"
    ELSE IF Offset >= Len(items) THEN "invalid_cursor"
    ELSE "none"

HistoryFault(items) ==
    IF ParseFault(Files) # "none" THEN ParseFault(Files)
    ELSE IF SeedStale THEN "file_sha256_mismatch"
    ELSE IF Text(task.seed) \in Blank THEN "seed_not_match_eligible"
    ELSE IF MaterializeFault(items) # "none" THEN MaterializeFault(items)
    ELSE IF Mismatch(items) THEN "cursor_mismatch"
    ELSE IF Offset >= Len(items) THEN "invalid_cursor"
    ELSE IF ~ResultIsConsistent(items, Result(items, Page(items))) THEN "output_contract_error"
    ELSE "none"

Fault(items) == IF IsMap THEN MapFault(items) ELSE HistoryFault(items)

(* build_round_map after its capture, with the journal's records as they are *)
(* now, and _build_paragraph_history after its own.                          *)
Answer ==
    /\ pc = "answer"
    /\ basis' = [files |-> captured, journal |-> journal]
    /\ journal' = journal
    /\ \E items \in {Complete} :
       LET fault == Fault(items)
           page == Page(items)
           next == Offset + Len(page)
       IN  \/ /\ fault # "none"
              /\ CallOver
              /\ answer' = Refusal(fault)
              /\ UNCHANGED session
           \/ /\ fault = "none"
              /\ answer' = Result(items, page)
              /\ cursor' = IF next < Len(items)
                           THEN [offset |-> next, binding |-> Binding(items)]
                           ELSE NoCursor
              /\ first' = IF Offset = 0 THEN items ELSE first
              /\ pages' = (IF Offset = 0 THEN {} ELSE pages) \cup
                          {[offset |-> Offset, items |-> page]}
              /\ shown' = basis'
              /\ pc' = "publish"
              /\ UNCHANGED <<task, folderVars, clock, calls, request, reading>>

(* A map cannot wait for a journal that others hold, and refuses a corrupt   *)
(* one.                                                                      *)
JournalRefused ==
    /\ pc = "answer"
    /\ IsMap
    /\ ~Unparsable
    /\ ~SeedStale
    /\ Refuse("journal_refused")

(* write_record: the call's own record, or record_status "write_failed".  A  *)
(* history's record is only written if the journal's reader will take it.    *)
Record ==
    IF IsMap THEN [tool |-> "map"]
    ELSE HistoryRecord(answer, <<task.seedName, task.seed[1]>>)

Publish ==
    /\ pc = "publish"
    /\ CallOver
    /\ \/ /\ ~IsMap => RecordIsValid(Record)
          /\ journal' = Append(journal, Record)
       \/ journal' = journal
    /\ UNCHANGED <<answer, session, basis>>

-----------------------------------------------------------------------------
(* Everyone else.                                                            *)

Change(n, document, inode) ==
    /\ clock < task.changes
    /\ clock' = clock + 1
    /\ folder' = [folder EXCEPT ![n] = document]
    /\ stamp' = [stamp EXCEPT ![n] = [inode |-> inode, version |-> clock + 1]]
    /\ UNCHANGED <<task, journal, calls, pc, request, reading, answer, session, basis>>

(* A program rewrites a document in place (or only touches it), ...          *)
SaveInPlace(n, d) == folder[n] # NoFile /\ Change(n, d, stamp[n].inode)
(* ... puts another file under its name, or a new one into the folder, ...    *)
Replace(n, d) == Change(n, d, clock + 1)
(* ... or takes it away.                                                      *)
TakeAway(n) == folder[n] # NoFile /\ Change(n, NoFile, stamp[n].inode)

(* apply_edits writes its record.                                             *)
RecordApply(r) ==
    /\ clock < task.changes
    /\ clock' = clock + 1
    /\ journal' = Append(journal, r)
    /\ UNCHANGED <<task, folderVars, calls, pc, request, reading, answer, session, basis>>

Agent ==
    \/ \E size \in task.sizes, from \in {NoCursor, cursor} : Call(size, from)
    \/ \E code \in InputFaults : RefuseInputs(code)
    \/ Enumerate \/ Open \/ Read \/ Recheck \/ Restat
    \/ Answer \/ JournalRefused \/ Publish

Others ==
    \/ \E n \in NameSet, d \in NewDocuments : SaveInPlace(n, d) \/ Replace(n, d)
    \/ \E n \in NameSet : TakeAway(n)
    \/ \E r \in ApplyRecords : RecordApply(r)

Next == Agent \/ Others

Spec == Init /\ [][Next]_vars
-----------------------------------------------------------------------------
(* Properties.                                                               *)

(* Following the cursors of a session gives the pages of one result: each    *)
(* page continues the last one inside the complete result the first page was *)
(* cut from, and the last page ends it, whatever happened to the folder and  *)
(* the journal between the calls (ROUND_MAP_V0.3.md rules 18 and 24).        *)
PagesAreOneResult ==
    /\ \A page \in pages :
         /\ page.items # <<>>
         /\ page.offset + Len(page.items) <= Len(first)
         /\ page.items = SubSeq(first, page.offset + 1, page.offset + Len(page.items))
    /\ pages # {} =>
         UNION {page.offset + 1 .. page.offset + Len(page.items) : page \in pages} =
           1 .. (IF cursor = NoCursor THEN Len(first) ELSE cursor.offset)

(* A history is the folder at one moment: when it is answered, every document*)
(* it was computed from was in the folder under its name when the last of    *)
(* them was read, although they were read one after the other.               *)
HistoryIsOneMoment ==
    ~IsMap /\ pc = "publish" =>
        \A i \in DOMAIN basis.files, n \in NameSet :
           basis.files[i].name = n => moment.folder[n] = basis.files[i].document

(* A record that tells how one document was made from another, read off its  *)
(* fields rather than through the code's tests.                              *)
Derives(r) ==
    /\ r.tool = "apply_edits"
    /\ r.status = "ok"
    /\ None \notin {r.source, r.output}
    /\ r.resultOutput = r.output
    /\ \/ r.check = "legacy" /\ r.resultSource = None /\ r.strength = "none"
       \/ /\ r.check = "current"
          /\ r.resultSource = r.source
          /\ r.strength \in {"none", "matching"}

Edges(records) ==
    {<<records[k].source, records[k].output>> :
       k \in {k \in DOMAIN records : Derives(records[k])}}
(* The least set that holds the start and follows every edge.                *)
Reachable(edges, start) ==
    LET all == start \cup UNION {{e[1], e[2]} : e \in edges}
    IN  {d \in all : \A S \in SUBSET all :
           start \subseteq S /\ (\A e \in edges : e[1] \in S => e[2] \in S) => d \in S}
Connected(current, records) ==
    Reachable(Edges(records) \cup {<<e[2], e[1]>> : e \in Edges(records)}, current)

(* A cursor dies only of a change to what its map or history says: another   *)
(* document or another file in the folder, or, for a map, a new apply record *)
(* about a document connected to the folder's.  Journal records of other     *)
(* tools, the calls' own among them, and records about unrelated documents   *)
(* never end a session (ROUND_MAP_V0.3.md rule 19).                          *)
Seen(files) == [i \in DOMAIN files |-> [name |-> files[i].name,
                                       document |-> files[i].document]]
UnrelatedChangesTolerated ==
    answer = Refusal("cursor_mismatch") /\ pc = "idle" =>
        \/ IsMap /\ Seen(basis.files) # Seen(shown.files)
        \/ ~IsMap /\ basis.files # shown.files
        \/ /\ IsMap
           /\ \E k \in Len(shown.journal) + 1 .. Len(basis.journal) :
                LET r == basis.journal[k]
                    current == {basis.files[i].document : i \in DOMAIN basis.files}
                IN  /\ r.tool = "apply_edits"
                    /\ Endpoints(r) \cap Connected(current, basis.journal) # {}

(* The graph of a map is the one the journal tells: its documents are those  *)
(* connected to the folder's, its derivations are the records among them,    *)
(* and a document is flagged a cycle member exactly if another document is   *)
(* both derived from it and one of its sources.                              *)
MapGraphIsTrue ==
    IsMap /\ pc = "publish" /\ answer.offset = 0 =>
        LET typed(t) == {first[i][2] : i \in {i \in DOMAIN first : first[i][1] = t}}
            nodes == typed("document_node")
            current == {basis.files[i].document : i \in DOMAIN basis.files}
            edges == Edges(basis.journal)
            graph == Connected(current, basis.journal)
        IN  /\ {x.document : x \in nodes} = graph
            /\ \A x \in nodes :
                 x.cycleMember <=> \E d \in graph \ {x.document} :
                                     d \in Reachable(edges, {x.document}) /\ x.document \in Reachable(edges, {d})
            /\ {<<r.from[1], r.to[1]>> :
                  r \in {r \in typed("relationship") : r.type = "recorded_derivation"}} =
               {e \in edges : e[1] \in graph}

(* The paragraphs that continue a history one document below p.              *)
Continues(p, q) ==
    /\ Rejected(p) # Unavailable
    /\ Text(q) \notin Blank
    /\ Text(q) = Text(p) \/ Text(q) = Rejected(p)

(* The chains of k such steps from the seed down the answered documents.     *)
ChainEnds(files, k) ==
    LET n == Len(files)
        paragraphs == UNION {ParagraphsOf(files[i].document) : i \in DOMAIN files}
    IN  {c \in [0 .. k -> paragraphs] :
           /\ c[0] = task.seed
           /\ \A j \in 1 .. k : /\ c[j][1] = files[n - j].document
                                /\ Continues(c[j - 1], c[j])}

(* A history names a paragraph at a position only if it is the end of the    *)
(* one and only chain of equal texts from the seed down to that position,    *)
(* with no second chain to any position above it; where such a chain exists  *)
(* it names its end; and it calls a position ambiguous only if two           *)
(* paragraphs there continue the one above.                                  *)
TraceIsOnlyChain ==
    ~IsMap /\ pc = "publish" /\ answer.offset = 0 =>
        \A k \in 1 .. Len(first) - 1 :
           LET step == first[k + 1].step
               only == \A j \in 1 .. k : Cardinality(ChainEnds(basis.files, j)) = 1
           IN  /\ step.selected = IF only
                                  THEN {c[k] : c \in ChainEnds(basis.files, k)} ELSE {}
               /\ step.state = "ambiguous" =>
                    /\ Cardinality(step.candidates) >= 2
                    /\ \A q \in step.candidates : \E p \in first[k].step.selected :
                         Text(q) \in {Text(p), Rejected(p)}

(* What a history counts is so of its complete result on every page of it:   *)
(* going down, paragraphs are selected until one position has none, for a    *)
(* reason of its own, and all the positions below it are blocked.            *)
CountsAreTrue ==
    ~IsMap /\ pc = "publish" =>
        LET counted == answer.coverage
        IN  /\ counted.documents = Len(basis.files)
            /\ counted.selected >= 1
            /\ counted.selected + counted.blocked =
                 counted.documents - (IF counted.selected < counted.documents THEN 1 ELSE 0)
            /\ counted.resolutions["exact_unique"] = counted.selected - 1
            /\ counted.selected + counted.resolutions["ambiguous"]
                                + counted.resolutions["unresolved"] = counted.documents
            /\ counted.resolutions["ambiguous"] <= 1
            /\ counted.unchanged + counted.unavailable <= counted.selected

(* A history that is answered can always be recorded: nothing the resolver   *)
(* and the pages can say is refused by the result's own validation or by the *)
(* shape the journal's reader demands of a history record, and every record  *)
(* in the journal has that shape.                                            *)
HistoriesAreRecordable ==
    /\ answer # Refusal("output_contract_error")
    /\ ~IsMap /\ pc = "publish" => RecordIsValid(Record)
    /\ \A k \in DOMAIN journal : journal[k].tool = "history" => RecordIsValid(journal[k])

(* The pages of either tool say what is so of the documents and records they *)
(* were computed from, and a history's record repeats it.                    *)
ReadingsAreTrue ==
    MapGraphIsTrue /\ TraceIsOnlyChain /\ CountsAreTrue /\ HistoriesAreRecordable

=============================================================================
