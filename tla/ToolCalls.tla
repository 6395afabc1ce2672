------------------------------ MODULE ToolCalls ------------------------------
(***************************************************************************)
(* The document tools of the MCP server as its clients call them: several  *)
(* server processes, each with its own author and build, answer calls      *)
(* about the documents of one folder, which Word and its users change at   *)
(* any moment.  A call reads its bytes once, derives everything from them, *)
(* is checked against the contract of its answer, appends at most one      *)
(* record to the folder's journal and only then answers; a server may fail *)
(* or be killed at every step, and the journal may be unwritable or off.   *)
(* The journal's own steps are the subject of RecordJournal, the tools     *)
(* over whole rounds of RoundReading.                                      *)
(***************************************************************************)
EXTENDS BatchDiagnosis

CONSTANTS
  Servers,     \* server processes
  Listing,     \* the paths of the folder's documents, in the order of their names
  First(_),    \* what the folder holds at the start: a document or None
  Author(_), Build(_),  \* the configured author and the code of a server
  Recording,   \* the servers that keep decision records
  Changes,     \* the batches a client asks for: what each edit replaces and with what
  Quotes,      \* the quotes it asks about: a wording, verbatim or retyped
  MaxCalls,    \* bound: calls
  MaxPreflights, MaxApplies, MaxQuestions, \* bounds: those of preflight_edits, of apply_edits, of the rest
  MaxSaves,    \* bound: changes of the folder by Word and its users
  MaxFaults    \* bound: failures and kills

ASSUME CallsAssumption ==
  /\ Recording \subseteq Servers
  /\ DOMAIN Listing \subseteq Nat
  /\ Changes \subseteq Seq([old : Wordings \cup {None}, new : Wordings \cup {None}])
  /\ {MaxCalls, MaxPreflights, MaxApplies, MaxQuestions, MaxSaves, MaxFaults} \subseteq Nat

Paths == ToSet(Listing)

VARIABLES
  folder,   \* the document at each path, or None
  journal,  \* the decision records
  read,     \* documents the clients have been given anchors of
  proofs,   \* the proofs they have been given
  call,     \* the call each server is in
  count     \* calls, saves and faults so far

vars == <<folder, journal, read, proofs, call, count>>

Idle == [phase |-> "idle"]

Init ==
  /\ folder = [p \in Paths |-> First(p)]
  /\ journal = <<>>
  /\ read = {First(p) : p \in Paths} \ {None}
  /\ proofs = {}
  /\ call = [s \in Servers |-> Idle]
  /\ count = [preflights |-> 0, applies |-> 0, questions |-> 0, saves |-> 0, faults |-> 0]

(***************************************************************************)
(* The beginning of a call.  held is what its documents have been since;   *)
(* put is what the call itself put into the folder.                        *)
(***************************************************************************)
Calls == count.preflights + count.applies + count.questions

Limit == [preflights |-> MaxPreflights, applies |-> MaxApplies, questions |-> MaxQuestions]

Counted(tool) ==
  LET kind == IF tool = "preflight_edits" THEN "preflights"
              ELSE IF tool = "apply_edits" THEN "applies" ELSE "questions"
  IN /\ Calls < MaxCalls /\ count[kind] < Limit[kind]
     /\ count' = [count EXCEPT ![kind] = @ + 1]

Started(tool, args, phase) ==
  [id |-> Calls + 1, tool |-> tool, args |-> args, phase |-> phase,
   outcome |-> None, result |-> None, recorded |-> "no",
   held |-> [p \in Paths |-> {folder[p]}], put |-> None]

Begin(s, tool, args, phase) ==
  /\ call[s] = Idle /\ Counted(tool)
  /\ call' = [call EXCEPT ![s] = Started(tool, args, phase)]
  /\ UNCHANGED <<folder, journal, read, proofs>>

ExtractRedlines(s, path) == Begin(s, "extract_redlines", [path |-> path, ref |-> None], "read")

InspectDocument(s, path, ref) == Begin(s, "inspect_document", [path |-> path, ref |-> ref], "read")

VerifyQuote(s, path, anchor, mode, quote) ==
  Begin(s, "verify_quote", [path |-> path, anchor |-> anchor, mode |-> mode, quote |-> quote], "read")

ListRounds(s) == Begin(s, "list_rounds",
        [paths |-> {p \in Paths : folder[p] # None}, facts |-> [p \in {} |-> None]], "list")

PreflightEdits(s, path, batch) == Begin(s, "preflight_edits", [path |-> path, edits |-> batch], "read")

ApplyEdits(s, path, output, batch, proof) ==
  Begin(s, "apply_edits", [path |-> path, output |-> output, edits |-> batch, proof |-> proof], "look")

ExportDecisionRecord(s) == Begin(s, "export_decision_record", None, "export")

(* Malformed arguments, or a folder whose records cannot be attributed, are *)
(* refused before the tool is entered.                                     *)
RefuseCall(s, code) ==
  /\ call[s] = Idle /\ Counted("tool")
  /\ call' = [call EXCEPT ![s] = [Started("tool", None, "answer") EXCEPT !.outcome = code]]
  /\ UNCHANGED <<folder, journal, read, proofs>>

(***************************************************************************)
(* The operation.                                                          *)
(***************************************************************************)
In(s, phase) == call[s].phase = phase
Ended(c, outcome, result) == [c EXCEPT !.phase = "record", !.outcome = outcome, !.result = result]
Ends(s, outcome, result) == call' = [call EXCEPT ![s] = Ended(@, outcome, result)]

ReadingOf(c, doc) ==
  IF c.args.ref \notin {None, doc}
  THEN Ended(c, "file_sha256_mismatch", None)
  ELSE Ended(c, "ok", [source |-> doc])

Verdict(doc, mode, quote) ==
  IF quote.wording \notin Reading(doc, mode) THEN "not_found"
  ELSE IF quote.verbatim THEN "exact" ELSE "normalized"

VerdictOf(c, doc) ==
  IF c.args.anchor # doc
  THEN Ended(c, "file_sha256_mismatch", None)
  ELSE Ended(c, "ok", [source |-> doc, verdict |-> Verdict(doc, c.args.mode, c.args.quote)])

\* A dry run that cannot read the document or apply the batch is an answer,
\* not an error.
Unread(batch) ==
  [phase |-> IF batch = <<>> THEN "validation" ELSE "source", blocking |-> None, edits |-> NotEvaluated(batch)]

PreflightOf(s, c, doc) ==
  LET edits == c.args.edits
  IN Ended(c, "ok",
       [source |-> doc,
        diagnosis |-> IF doc = None THEN Unread(edits) ELSE Diagnosis(doc, edits, Author(s)),
        proof |-> IF doc # None /\ Fits(doc, edits, Author(s))
                  THEN {Proof(doc, edits, Author(s), Build(s))} ELSE {}])

ReadDocument(s) ==
  /\ In(s, "read")
  /\ LET c == call[s]
         doc == folder[c.args.path]
     IN call' = [call EXCEPT ![s] =
          IF c.tool = "preflight_edits" THEN PreflightOf(s, c, doc)
          ELSE IF doc = None THEN Ended(c, "file_unreadable", None)
          ELSE IF c.tool = "verify_quote" THEN VerdictOf(c, doc)
          ELSE ReadingOf(c, doc)]
  /\ UNCHANGED <<folder, journal, read, proofs, count>>

\* The folder is enumerated first; its documents are read one by one, and one
\* that is gone by then is skipped.
ListDocument(s) ==
  /\ In(s, "list")
  /\ LET c == call[s]
         unread == c.args.paths \ DOMAIN c.args.facts
         path == Listing[Least({i \in DOMAIN Listing : Listing[i] \in unread})]
     IN IF unread = {}
        THEN Ends(s, "ok", c.args.facts)
        ELSE call' = [call EXCEPT ![s].args.facts = [p \in DOMAIN @ \cup {path} |-> IF p = path THEN folder[p] ELSE @[p]]]
  /\ UNCHANGED <<folder, journal, read, proofs, count>>

\* Whether the output is there, before anything is read.
LookForOutput(s) ==
  /\ In(s, "look")
  /\ IF folder[call[s].args.output] # None
     THEN Ends(s, "output_exists", None)
     ELSE call' = [call EXCEPT ![s].phase = "prepare"]
  /\ UNCHANGED <<folder, journal, read, proofs, count>>

\* A plausible bug: the proof is compared with the document and the edits alone.
MutantForeignProof(s) ==
  /\ In(s, "prepare")
  /\ LET c == call[s]
         doc == folder[c.args.path]
     IN IF doc = None THEN Ends(s, "file_unreadable", None)
        ELSE IF ~Fits(doc, c.args.edits, Author(s)) THEN Ends(s, "batch_refused", None)
        ELSE IF c.args.proof.source # doc \/ c.args.proof.edits # c.args.edits
             THEN Ends(s, "preflight_binding_mismatch", None)
        ELSE call' = [call EXCEPT ![s].phase = "publish",
               ![s].result = [source |-> doc, made |-> Candidate(doc, c.args.edits, Author(s))]]
  /\ UNCHANGED <<folder, journal, read, proofs, count>>

\* The same pipeline as the dry run's, and the proof compared with it.
PrepareCandidate(s) ==
  /\ In(s, "prepare")
  /\ LET c == call[s]
         doc == folder[c.args.path]
     IN IF doc = None THEN Ends(s, "file_unreadable", None)
        ELSE IF ~Fits(doc, c.args.edits, Author(s)) THEN Ends(s, "batch_refused", None)
        ELSE IF c.args.proof # Proof(doc, c.args.edits, Author(s), Build(s))
             THEN Ends(s, "preflight_binding_mismatch", None)
        ELSE call' = [call EXCEPT ![s].phase = "publish",
               ![s].result = [source |-> doc, made |-> Candidate(doc, c.args.edits, Author(s))]]
  /\ UNCHANGED <<folder, journal, read, proofs, count>>

Witnessed(calls, f) ==
  [s \in Servers |-> IF calls[s] = Idle THEN Idle
                     ELSE [calls[s] EXCEPT !.held = [p \in Paths |-> @[p] \cup {f[p]}]]]

\* A private temporary file is linked to the output, which must be absent.
PublishOutput(s) ==
  /\ In(s, "publish")
  /\ LET c == call[s]
     IN IF folder[c.args.output] # None
        THEN Ends(s, "output_exists", None) /\ UNCHANGED folder
        ELSE /\ folder' = [folder EXCEPT ![c.args.output] = c.result.made]
             /\ call' = Witnessed([call EXCEPT ![s] =
                          [Ended(@, "ok", c.result) EXCEPT !.put = c.result.made]], folder')
  /\ UNCHANGED <<journal, read, proofs, count>>

(***************************************************************************)
(* The record and the answer.                                              *)
(***************************************************************************)
\* What a record keeps of the result, so that it can be checked again: a verdict
\* and a dry run of their document, an apply of its source and its output.
VerifyProvenance(c) ==
  [source |-> c.args.anchor, mode |-> c.args.mode, quote |-> c.args.quote, verdict |-> c.result.verdict]

PreflightProvenance(s, c) ==
  [source |-> c.result.source, edits |-> c.args.edits, author |-> Author(s),
   applicable |-> c.result.proof # {}, made |-> {proof.candidate : proof \in c.result.proof}]

ApplyProvenance(s, c) ==
  [source |-> c.result.source, edits |-> c.args.edits, author |-> Author(s),
   output |-> c.args.output, made |-> c.result.made]

Provenance(s, c) ==
  CASE c.tool = "verify_quote" -> VerifyProvenance(c)
    [] c.tool = "preflight_edits" -> PreflightProvenance(s, c)
    [] c.tool = "apply_edits" -> ApplyProvenance(s, c)
    [] OTHER -> None

RecordOf(s, c) ==
  [id |-> c.id, tool |-> c.tool, outcome |-> c.outcome,
   facts |-> IF c.outcome = "ok" THEN Provenance(s, c) ELSE None]

Fault == /\ count.faults < MaxFaults
         /\ count' = [count EXCEPT !.faults = @ + 1]

\* Every answer says what became of its record.
AnswersWith(s, answer, status) == call' = [call EXCEPT ![s] = [answer EXCEPT !.recorded = status]]

\* An append that fails may have left the record (an fsync that fails).
Recorded(s, record, answer) ==
  \/ /\ s \in Recording /\ AnswersWith(s, answer, "written")
     /\ journal' = Append(journal, record)
     /\ UNCHANGED count
  \/ /\ s \in Recording /\ AnswersWith(s, answer, "write_failed") /\ Fault
     /\ journal' \in {journal, Append(journal, record)}
  \/ /\ s \notin Recording /\ AnswersWith(s, answer, "disabled")
     /\ UNCHANGED <<journal, count>>

WriteRecord(s) ==
  /\ In(s, "record")
  /\ Recorded(s, RecordOf(s, call[s]), [call[s] EXCEPT !.phase = "answer"])
  /\ UNCHANGED <<folder, read, proofs>>

\* The export answers with the records before its own access event.
Exportable(indices) == {journal[i] : i \in {j \in indices : journal[j].tool # "export_decision_record"}}

ExportRecords(s) ==
  /\ In(s, "export")
  /\ LET exported == Ended(call[s], "ok", Exportable(DOMAIN journal))
     IN Recorded(s, RecordOf(s, Ended(call[s], "ok", None)), [exported EXCEPT !.phase = "answer"])
  /\ UNCHANGED <<folder, read, proofs>>

\* A journal that cannot be read, or a snapshot that fails the contract, is
\* refused under the journal's lock and leaves no record.
RefuseExport(s) ==
  /\ In(s, "export") /\ Fault
  /\ \E code \in {"output_contract_error", "records_refused"} :
       call' = [call EXCEPT ![s].phase = "answer", ![s].outcome = code]
  /\ UNCHANGED <<folder, journal, read, proofs>>

Answer(s) ==
  /\ In(s, "answer")
  /\ LET c == call[s]
         told == c.outcome = "ok"
     IN /\ read' = IF told /\ c.tool \in {"extract_redlines", "inspect_document"}
                   THEN read \cup {c.result.source} ELSE read
        /\ proofs' = IF told /\ c.tool = "preflight_edits" THEN proofs \cup c.result.proof ELSE proofs
        /\ call' = [call EXCEPT ![s] = Idle]
  /\ UNCHANGED <<folder, journal, count>>

(***************************************************************************)
(* What goes wrong.                                                        *)
(***************************************************************************)
\* A plausible bug: the contract is checked when the record has been written.
MutantLateContract(s) ==
  /\ In(s, "answer") /\ call[s].outcome = "ok" /\ Fault
  /\ call' = [call EXCEPT ![s].outcome = "output_contract_error", ![s].result = None]
  /\ UNCHANGED <<folder, journal, read, proofs>>

\* The result fails the contract of its tool: the error is what is recorded.
FailContract(s) ==
  /\ In(s, "record") /\ call[s].outcome = "ok" /\ Fault
  /\ Ends(s, "output_contract_error", None)
  /\ UNCHANGED <<folder, journal, read, proofs>>

\* Anything unexpected after the tool was entered has one public name.
FailUnexpectedly(s) ==
  /\ call[s].phase \in {"read", "list", "look", "prepare", "publish", "record", "export"} /\ Fault
  /\ call[s].outcome \notin {"internal_error", "output_contract_error"}
  /\ Ends(s, "internal_error", None)
  /\ UNCHANGED <<folder, journal, read, proofs>>

PublicationFails(s) ==
  /\ In(s, "publish") /\ Fault
  /\ Ends(s, "output_unwritable", None)
  /\ UNCHANGED <<folder, journal, read, proofs>>

KillServer(s) ==
  /\ call[s] # Idle /\ Fault
  /\ call' = [call EXCEPT ![s] = Idle]
  /\ UNCHANGED <<folder, journal, read, proofs>>

(***************************************************************************)
(* Word saves a draft; a user removes a document.                          *)
(***************************************************************************)
ChangeFolder(path, doc) ==
  /\ count.saves < MaxSaves
  /\ folder[path] # doc
  /\ count' = [count EXCEPT !.saves = @ + 1]
  /\ folder' = [folder EXCEPT ![path] = doc]
  /\ call' = Witnessed(call, folder')
  /\ UNCHANGED <<journal, read, proofs>>

WordSaves(path) == \E d \in Drafts : ChangeFolder(path, Saved(d))
UserRemoves(path) == ChangeFolder(path, None)

Anchored(change, anchors) == [i \in DOMAIN change |-> Edit(anchors[i], change[i].old, change[i].new)]

Requests(s) ==
  \/ \E path \in Paths :
       \/ ExtractRedlines(s, path)
       \/ \E ref \in read : InspectDocument(s, path, ref)
       \/ \E anchor \in read, mode \in {"accepted_current", "pending_rejected"},
             quote \in Quotes : VerifyQuote(s, path, anchor, mode, quote)
       \/ \E change \in Changes :
            \E anchors \in [DOMAIN change -> read] : PreflightEdits(s, path, Anchored(change, anchors))
       \/ \E output \in Paths, proof \in proofs :
            \E edits \in {q.edits : q \in proofs} : ApplyEdits(s, path, output, edits, proof)
  \/ ListRounds(s)
  \/ ExportDecisionRecord(s)
  \/ \E code \in {"invalid_arguments", "workspace_refused"} : RefuseCall(s, code)

Steps(s) ==
  \/ ReadDocument(s) \/ ListDocument(s) \/ LookForOutput(s) \/ PrepareCandidate(s)
  \/ PublishOutput(s) \/ WriteRecord(s) \/ ExportRecords(s) \/ Answer(s)

Failures(s) == FailContract(s) \/ RefuseExport(s) \/ FailUnexpectedly(s) \/ PublicationFails(s) \/ KillServer(s)

Next ==
  \/ \E s \in Servers : Requests(s) \/ Steps(s) \/ Failures(s)
  \/ \E path \in Paths : WordSaves(path) \/ UserRemoves(path)

Spec == Init /\ [][Next]_vars

(***************************************************************************)
(* Properties.                                                             *)
(***************************************************************************)
(* A tool puts a document into the folder only where there is none, only   *)
(* the very candidate that a preflight of the same author and build proved *)
(* to a client, made of bytes a client had read: whatever Word, the users  *)
(* and the other servers do between the calls and between their steps      *)
(* (apply_edits, _validated_preflight_proof, _publish_output_no_clobber).  *)
OutputsAreWhatWasPreviewed ==
  [][count'.saves = count.saves =>
       \A p \in {q \in Paths : folder'[q] # folder[q]} :
         /\ folder[p] = None
         /\ \E proof \in proofs, s \in Servers :
              /\ folder'[p] = Candidate(proof.source, proof.edits, Author(s))
              /\ proof = Proof(proof.source, proof.edits, Author(s), Build(s))
              /\ proof.source \in read]_vars

(* What an answer says was so at some moment of the call: a reading is of  *)
(* bytes its path held, a list of what each path held, a verdict of the    *)
(* very bytes its anchor names; a dry run that planned or passed an edit   *)
(* found its anchor in the bytes it was made from, and gives a proof       *)
(* exactly if it passed them all; an apply names what it put into the      *)
(* folder; an export is all that was recorded before its own access event. *)
TrueResult(c) ==
  /\ c.tool \in {"extract_redlines", "inspect_document"} => c.result.source \in c.held[c.args.path]
  /\ c.tool = "list_rounds" =>
       \A p \in Paths : IF p \in DOMAIN c.result THEN c.result[p] \in c.held[p] ELSE None \in c.held[p]
  /\ c.tool = "verify_quote" =>
       /\ c.args.anchor \in c.held[c.args.path]
       /\ (c.result.verdict # "not_found") = (c.args.quote.wording \in Reading(c.args.anchor, c.args.mode))
  /\ c.tool = "preflight_edits" =>
       LET edits == c.result.diagnosis.edits
       IN /\ c.result.source \in c.held[c.args.path]
          /\ \A i \in DOMAIN c.args.edits :
               edits[i] \in {"planned", "applicable"} => c.args.edits[i].on = c.result.source
          /\ (c.result.proof # {}) = (DOMAIN edits # {} /\ \A i \in DOMAIN edits : edits[i] = "applicable")
  /\ c.tool = "apply_edits" => c.result.source \in c.held[c.args.path] /\ c.result.made = c.put
  /\ c.tool = "export_decision_record" =>
       \E n \in 0..Len(journal) :
         /\ c.result = Exportable(1..n)
         /\ \A i \in DOMAIN journal : journal[i].id = c.id => i = n + 1

(* An answer that is not an error is true, and one that refuses has put    *)
(* nothing into the folder: only output_contract_error and internal_error  *)
(* leave it open (_with_record, _run_tool_boundary).                       *)
AnswersTellTheTruth ==
  \A s \in Servers :
    call[s].phase = "answer" =>
      /\ call[s].outcome = "ok" => TrueResult(call[s])
      /\ call[s].outcome \notin {"ok", "output_contract_error", "internal_error"} => call[s].put = None

(* What a record says can be checked from it alone, whatever became of the *)
(* documents since: the verdict is that of the reading it names, a dry run *)
(* is said to be applicable exactly if its batch fits its document and     *)
(* names what that batch makes of it, an apply names a document that is    *)
(* its source with its edits.                                              *)
TrueRecord(r) ==
  LET f == r.facts IN
  r.outcome = "ok" =>
    /\ r.tool = "verify_quote" => (f.verdict # "not_found") = (f.quote.wording \in Reading(f.source, f.mode))
    /\ r.tool = "preflight_edits" =>
         /\ f.applicable = (f.source # None /\ Fits(f.source, f.edits, f.author))
         /\ f.made = IF f.applicable THEN {Candidate(f.source, f.edits, f.author)} ELSE {}
    /\ r.tool = "apply_edits" => f.made = Candidate(f.source, f.edits, f.author)

(* A call leaves at most one record, one if its answer says so, none if    *)
(* it says that none was wanted; that one has the outcome of the answer    *)
(* and is true of the documents it names (_with_record, _record_error, the *)
(* provenance of the tools).                                               *)
RecordsTellTheTruth ==
  /\ \A i \in DOMAIN journal :
       /\ \A j \in DOMAIN journal : journal[i].id = journal[j].id => i = j
       /\ TrueRecord(journal[i])
  /\ \A s \in Servers :
       call[s].phase = "answer" =>
         LET mine == {i \in DOMAIN journal : journal[i].id = call[s].id}
         IN /\ call[s].recorded = "written" => mine # {}
            /\ mine # {} => call[s].recorded \in {"written", "write_failed"}
            /\ \A i \in mine : journal[i].outcome = call[s].outcome
=============================================================================
