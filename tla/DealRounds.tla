------------------------------- MODULE DealRounds -------------------------------
(***************************************************************************)
(* The commands of mutate_deal_state over rounds, working documents,       *)
(* issues, outgoing kits, the agreed basis and the final document          *)
(* (deal_state.py, _deal_workflow.py, _working_copies.py, _deal_outgoing.py,*)
(* _deal_finalization.py, _final_saved_document.py), with the positions    *)
(* they refer to, the document journals they link and the files they name. *)
(*                                                                         *)
(* The store keeps its requests in order and one row per request in one of *)
(* its collections, so it is the sequence `requests' of rows, a request id *)
(* is an index in it, and a collection is the rows of some actions.  Rows  *)
(* are never changed (a round's sent documents are rows of their own), so  *)
(* a hash of rows is the set of their indices.                             *)
(*                                                                         *)
(* A command holds the lock of both stores (DealStore).  It is decided on  *)
(* what it reads, its document published as its effect, and only then is   *)
(* its row committed; the user, Word and document operations run between.  *)
(***************************************************************************)
EXTENDS PositionHistory

CONSTANTS
    Round, NoRound,
    Doc, NoDoc,         \* SHA-256 values of documents
    Path, NoPath,       \* paths of documents in the matter folder
    Folder,             \* paths of kits and of final candidates there
    Operation, NoOperation,
    Intent,             \* what the journal of an operation says it would do
    Issue, NoIssue,
    Choice,             \* what a lawyer may decide of an issue
    Proposal,           \* contents of issues, without their links
    RevisionFree,       \* documents without revisions, fully inspected
    Rendered,           \* what a kit or a final document is made of each document
    Saved,              \* what the user or Word may leave at each path
    MaxRequests,        \* the requests a store may hold
    Session             \* what the clients of a deal make use of: commands with bounds on
                        \* their number, document operations, changes of positions

ASSUME DistinctNothings ==
    /\ NoRound \notin Round /\ NoDoc \notin Doc
    /\ NoPath \notin Path \cup Folder /\ Path \cap Folder = {}
    /\ NoOperation \notin Operation /\ NoIssue \notin Issue
    /\ "none" \notin Choice
ASSUME IntentsOK ==
    Intent \in [Operation -> [source : Doc, candidate : Doc, path : Path,
                              mode : {"create_new", "replace_source"}]]
ASSUME ProposalsOK ==
    Proposal \subseteq [sent_quote : Doc \cup {NoDoc}, incoming_quote : Doc \cup {NoDoc},
                        working_quote : Doc \cup {NoDoc}]
ASSUME DocumentsOK ==
    /\ RevisionFree \subseteq Doc
    /\ Rendered \in [Doc -> Doc]
    /\ Saved \in [Path \cup Folder -> SUBSET (Doc \cup {NoDoc})]
VARIABLES
    requests, \* the rows of deal-rounds.json, in the order of their requests
    version,  \* its schema version
    history,  \* deal-positions.json
    journal,  \* the outcome each document operation has on record
    file,     \* what lies at each path
    pending,  \* the row a command is about to commit
    sound,    \* every command that was accepted could be validated
    session   \* what its clients make use of

vars == <<requests, version, history, journal, file, pending, sound, session>>

WorkActions == {"import_working_document", "link_working_document", "record_working_version",
                "publish_working_copy", "record_working_copy_verification"}
IssueActions == {"save_issue", "decide_issue", "link_issue_operation"}
PlanActions == {"prepare_outgoing_package", "prepare_outgoing_package_with_table"}
KitEvents == {"publish_outgoing_package", "record_outgoing_verification"}
CopyActions == {"publish_working_copy", "record_working_copy_verification"}
FinalEvents == {"publish_final_document", "record_final_document_verification"}
Action == {"start_round", "record_sent", "link_operation", "prepare_working_copy",
           "record_final_basis_agreement", "prepare_final_document",
           "prepare_final_saved_review", "confirm_final_saved_document"}
          \cup WorkActions \cup IssueActions \cup PlanActions \cup KitEvents \cup FinalEvents

ASSUME RequestLimit == MaxRequests \in Nat
ASSUME SessionsOK ==
    \A u \in Session :
        /\ DOMAIN u.commands \subseteq Action /\ u.length \in 0..MaxRequests
        /\ u.operations \subseteq Operation
        /\ \A b \in u.batches : b \in Seq(Change) /\ b # <<>>

\* The links that an issue keeps beside its proposal: to a position, and to
\* operations in the order they were linked.
NoLink == [revision |-> <<>>, position |-> NoIssue, version |-> 0]
NoDecision == [choice |-> "none", basis |-> NoDoc]
NoContent == [issue |-> NoIssue, version |-> 0, decision |-> NoDecision, link |-> NoLink,
              operations |-> <<>>,
              proposal |-> [sent_quote |-> NoDoc, incoming_quote |-> NoDoc,
                            working_quote |-> NoDoc]]

\* What a hash binds: rows, the positions, and what was seen of live files.
NoBasis == [rows |-> {}, positions |-> <<>>, live |-> <<>>]

\* A row: its round, its document, its path, the request it refers to (0: none)
\* and what only some actions have.
Row(action, rid) ==
    [action |-> action, round |-> rid, file |-> NoDoc, path |-> NoPath, ref |-> 0,
     operation |-> NoOperation, content |-> NoContent, basis |-> NoBasis,
     cleanup |-> FALSE]
Nothing == Row("none", NoRound)

--------------------------------------------------------------------------------
(* What the rows of a store say.                                           *)

Rows(s, actions) == {i \in DOMAIN s : s[i].action \in actions}
RowsOf(s, actions, rid) == {i \in Rows(s, actions) : s[i].round = rid}

Started(s) == {s[i].round : i \in Rows(s, {"start_round"})}
Start(s, rid) == s[Max(RowsOf(s, {"start_round"}, rid))]
Sent(s, rid) == RowsOf(s, {"record_sent"}, rid)
SentBasis(s, rid) == IF Start(s, rid).ref = 0 THEN NoDoc ELSE s[Start(s, rid).ref].file
Previous(s, rid) == IF Start(s, rid).ref = 0 THEN NoRound ELSE s[Start(s, rid).ref].round

Working(s, rid) == RowsOf(s, WorkActions, rid)
Selected(s, rid) == s[Max(Working(s, rid))]
WorkingFiles(s, rid) == {s[i].file : i \in Working(s, rid)}
Basis(s, rid) == IF Working(s, rid) = {} THEN Start(s, rid).file ELSE Selected(s, rid).file

Linked(s, rid) == {s[i].operation : i \in RowsOf(s, {"link_operation"}, rid)}
AllLinked(s) == {s[i].operation : i \in Rows(s, {"link_operation"})}
Applied(s) == {s[i].operation : i \in Rows(s, {"link_working_document"})}

IssueRows(s, issue) == {i \in Rows(s, IssueActions) : s[i].content.issue = issue}
MutantLatestIssue(s, issue) ==
    IF IssueRows(s, issue) = {} THEN 0 ELSE Min(IssueRows(s, issue))
\* The latest event of an issue (0: none).
LatestIssue(s, issue) ==
    IF IssueRows(s, issue) = {} THEN 0 ELSE Max(IssueRows(s, issue))
LatestIssues(s) == {LatestIssue(s, i) : i \in Issue} \ {0}

\* _roles: the documents a round stands on.
Roles(s, rid) == {Start(s, rid).file, SentBasis(s, rid)} \ {NoDoc}

MutantNegotiated(s) == Rows(s, {"start_round", "link_operation"} \cup WorkActions \cup IssueActions)
\* The rows of rounds, operations, working_documents and issue_events.
Negotiated(s) ==
    Rows(s, {"start_round", "record_sent", "link_operation"} \cup WorkActions \cup IssueActions)

\* scope: what an agreement is bound to.
Scope(s, positions) == [NoBasis EXCEPT !.rows = Negotiated(s), !.positions = positions]

MutantKitBasis(s, rid, positions) ==
    [NoBasis EXCEPT !.rows = {Max(Working(s, rid))}, !.positions = positions]
\* basis: what an outgoing plan is bound to, within its round.
KitBasis(s, rid, positions) ==
    [NoBasis EXCEPT !.rows = {Max(Working(s, rid))}
                               \cup {i \in LatestIssues(s) : s[i].round = rid},
                    !.positions = positions]

--------------------------------------------------------------------------------
(* What a command sees outside the store.                                  *)

\* operation_observation: the outcome on record and the bytes at its output.
Observed(o) == [outcome |-> journal[o], output |-> file[Intent[o].path]]

WorkingStatus(s, rid) ==
    IF Working(s, rid) = {} THEN "not_selected"
    ELSE LET live == file[Selected(s, rid).path]
         IN IF live = Selected(s, rid).file THEN "same_bytes"
            ELSE IF live = NoDoc THEN "unavailable" ELSE "changed"

\* read_locked: what the whole review shows of live files and journals.
Live(s, rid) == <<WorkingStatus(s, rid), [o \in AllLinked(s) |-> Observed(o)]>>

\* read_locked, _require_review: nothing but open issues may be left, and
\* the agreement names each of those (_resolutions).
Reviewable(s, rid) ==
    /\ \A r \in Started(s) : Previous(s, r) # rid
    /\ WorkingStatus(s, rid) \in {"not_selected", "same_bytes"}
    /\ \A i \in Rows(s, IssueActions) :
          s[i].content.link # NoLink => LinkStatus(s[i].content.link, history) # "unavailable"
    /\ \A o \in AllLinked(s) : journal[o] \in {"published", "not_published"}
    /\ Basis(s, rid) \in RevisionFree

\* _current (_deal_finalization): the saved scope, then the live review.
AgreementCurrent(s, a) ==
    /\ s[a].basis = [Scope(s, history) EXCEPT !.live = Live(s, s[a].round)]
    /\ Reviewable(s, s[a].round)

\* _current (_deal_outgoing).
KitCurrent(s, k) ==
    /\ s[k].basis = KitBasis(s, s[k].round, history)
    /\ file[Selected(s, s[k].round).path] = s[k].file

\* What the document or kit of a plan holds: a copy of the incoming document,
\* the selected files, or the candidate.
Output(plan) == IF plan.action \in PlanActions THEN Rendered[plan.file] ELSE plan.file

--------------------------------------------------------------------------------
(* Reading a store again: the validators.                                  *)

\* The least schema version that admits a row.
Level(r) ==
    CASE r.action \in {"start_round", "record_sent"} -> 1
      [] r.action = "import_working_document" -> 3
      [] r.action = "prepare_outgoing_package" -> IF r.cleanup THEN 6 ELSE 4
      [] r.action = "prepare_outgoing_package_with_table" -> 7
      [] r.action \in KitEvents -> 4
      [] r.action \in CopyActions \cup {"prepare_working_copy"} -> 5
      [] r.action \in {"record_final_basis_agreement", "prepare_final_document"}
                      \cup FinalEvents -> 8
      [] r.action \in {"prepare_final_saved_review", "confirm_final_saved_document"} -> 9
      [] OTHER -> 2

\* The version that upgrade leaves, for each kind of command.
WorkflowUpgrade(v, imported) ==
    IF v >= 4 THEN v ELSE IF imported \/ v = 3 THEN 3 ELSE 2
OutgoingUpgrade(v, cleanup, table) ==
    IF v >= 8 THEN v
    ELSE IF table \/ v = 7 THEN 7
    ELSE IF cleanup \/ v = 6 THEN 6
    ELSE IF v = 5 THEN 5 ELSE 4
CopyUpgrade(v) == IF v >= 6 THEN v ELSE 5
FinalUpgrade(v) == IF v = 9 THEN 9 ELSE 8

Upgraded(v, r) ==
    CASE r.action \in {"start_round", "record_sent"} -> v
      [] r.action \in PlanActions \cup KitEvents ->
            OutgoingUpgrade(v, r.cleanup, r.action = "prepare_outgoing_package_with_table")
      [] r.action \in CopyActions \cup {"prepare_working_copy"} -> CopyUpgrade(v)
      [] r.action \in {"record_final_basis_agreement", "prepare_final_document"}
                      \cup FinalEvents -> FinalUpgrade(v)
      [] r.action \in {"prepare_final_saved_review", "confirm_final_saved_document"} -> 9
      [] OTHER -> WorkflowUpgrade(v, r.action = "import_working_document")

\* _content: quotes come from the documents of the round, operations are linked.
ContentMatches(s, rid, c) ==
    /\ c.proposal.incoming_quote # NoDoc \/ c.proposal.sent_quote # NoDoc
    /\ c.proposal.incoming_quote \in {Start(s, rid).file, NoDoc}
    /\ c.proposal.sent_quote \in {SentBasis(s, rid), NoDoc}
    /\ c.proposal.working_quote \in WorkingFiles(s, rid) \cup {NoDoc}
    /\ ToSet(c.operations) \subseteq Linked(s, rid)

\* validate (_deal_workflow), the working documents.
WorkFollows(s, r) ==
    /\ r.ref = (IF Working(s, r.round) = {} THEN 0 ELSE Max(Working(s, r.round)))
         \/ r.action \in CopyActions
    /\ CASE r.action = "import_working_document" -> Working(s, r.round) = {}
         [] r.action \in CopyActions ->
               /\ Working(s, r.round) = {}
               /\ r.file = Start(s, r.round).file
         [] r.action = "record_working_version" ->
               /\ Working(s, r.round) # {}
               /\ r.path = Selected(s, r.round).path
               /\ r.file # Selected(s, r.round).file
         [] OTHER ->
               /\ r.operation \in Linked(s, r.round) \ Applied(s)
               /\ r.file = Intent[r.operation].candidate
               /\ r.path = Intent[r.operation].path
               /\ Intent[r.operation].mode = "replace_source" =>
                     /\ Working(s, r.round) # {}
                     /\ Selected(s, r.round).file = Intent[r.operation].source
                     /\ Selected(s, r.round).path = r.path

\* validate (_deal_workflow), the issues.
IssueFollows(s, r) ==
    LET new == r.content
        last == LatestIssue(s, new.issue)
        old == IF last = 0 THEN NoContent ELSE s[last].content
    IN /\ ContentMatches(s, r.round, new)
       /\ last # 0 => s[last].round = r.round
       /\ CASE r.action = "save_issue" ->
                  new.version = old.version + 1 /\ new.decision = NoDecision
            [] r.action = "link_issue_operation" ->
                  /\ last # 0
                  /\ new.operations # <<>>
                  /\ new = [old EXCEPT !.operations = Append(@, Last(new.operations))]
            [] OTHER ->
                  /\ last # 0 /\ old.decision = NoDecision /\ new.decision # NoDecision
                  /\ new = [old EXCEPT !.decision = new.decision]
                  /\ new.decision.basis = Basis(s, r.round)

\* validate (_working_copies).
CopyFollows(s, r) ==
    /\ Working(s, r.round) = {} /\ Linked(s, r.round) = {}
    /\ IF r.action = "prepare_working_copy"
       THEN /\ r.file = Start(s, r.round).file
            /\ \A i \in Rows(s, {"prepare_working_copy"}) : s[i].path # r.path
       ELSE /\ r.ref \in RowsOf(s, {"prepare_working_copy"}, r.round)
            /\ r.path = s[r.ref].path /\ r.file = s[r.ref].file

\* validate (_deal_outgoing).
OutgoingFollows(s, r) ==
    IF r.action \in PlanActions
    THEN /\ Working(s, r.round) # {}
         /\ r.ref = Max(Working(s, r.round)) /\ r.file = s[r.ref].file
         /\ r.basis = KitBasis(s, r.round, r.basis.positions)
    ELSE /\ r.ref \in RowsOf(s, PlanActions, r.round)
         /\ r.action = "publish_outgoing_package" =>
               /\ s[r.ref].basis = KitBasis(s, r.round, s[r.ref].basis.positions)
               /\ \A i \in Rows(s, KitEvents) : s[i].ref # r.ref

\* The rows a basis names are those of the store now.
ScopeHolds(s, basis) == basis.rows = Scope(s, basis.positions).rows

\* validate (_deal_finalization).
FinalFollows(s, r) ==
    CASE r.action = "record_final_basis_agreement" ->
            ScopeHolds(s, r.basis) /\ r.file = Basis(s, r.round)
      [] r.action = "prepare_final_document" ->
            /\ r.ref \in RowsOf(s, {"record_final_basis_agreement"}, r.round)
            /\ r.file = Rendered[s[r.ref].file]
            /\ ScopeHolds(s, s[r.ref].basis)
      [] OTHER ->
            /\ r.ref \in RowsOf(s, {"prepare_final_document"}, r.round)
            /\ r.action = "publish_final_document" =>
                  /\ ScopeHolds(s, s[s[r.ref].ref].basis)
                  /\ \A i \in Rows(s, FinalEvents) : s[i].ref # r.ref

\* validate (_final_saved_document).
SavedFollows(s, r) ==
    IF r.action = "prepare_final_saved_review"
    THEN /\ r.ref \in RowsOf(s, {"prepare_final_document"}, r.round)
         /\ \E i \in Rows(s, FinalEvents) : s[i].ref = r.ref
         /\ r.basis = s[s[r.ref].ref].basis
         /\ ScopeHolds(s, r.basis)
    ELSE /\ r.ref \in RowsOf(s, {"prepare_final_saved_review"}, r.round)
         /\ r.file = s[r.ref].file
         /\ ScopeHolds(s, s[r.ref].basis)
         /\ r.file \in RevisionFree

\* _load: rounds and what was sent, and the validators of the later records.
Follows(s, r) ==
    IF r.action = "start_round"
    THEN /\ r.round \notin Started(s)
         /\ r.ref # 0 =>
               /\ r.ref \in Rows(s, {"record_sent"})
               /\ r.ref = Max(Sent(s, s[r.ref].round))
    ELSE /\ r.round \in Started(s)
         /\ r.action = "link_operation" =>
               /\ r.operation \notin AllLinked(s)
               /\ IF Intent[r.operation].mode = "create_new"
                  THEN Intent[r.operation].source
                          \in Roles(s, r.round) \cup WorkingFiles(s, r.round)
                  ELSE /\ Working(s, r.round) # {}
                       /\ Selected(s, r.round).file = Intent[r.operation].source
                       /\ Selected(s, r.round).path = Intent[r.operation].path
         /\ r.action \in WorkActions => WorkFollows(s, r)
         /\ r.action \in IssueActions => IssueFollows(s, r)
         /\ r.action \in CopyActions \cup {"prepare_working_copy"} => CopyFollows(s, r)
         /\ r.action \in PlanActions \cup KitEvents => OutgoingFollows(s, r)
         /\ r.action \in {"record_final_basis_agreement", "prepare_final_document"}
                         \cup FinalEvents => FinalFollows(s, r)
         /\ r.action \in {"prepare_final_saved_review", "confirm_final_saved_document"} =>
               SavedFollows(s, r)

Valid(s, v) ==
    /\ \A i \in DOMAIN s : Level(s[i]) <= v
    /\ \A i \in DOMAIN s : Follows(SubSeq(s, 1, i - 1), s[i])

--------------------------------------------------------------------------------
(* The commands.                                                           *)

\* A client asks for a command; both stores are locked until it ends.
Asked(action) ==
    /\ pending = Nothing
    /\ action \in DOMAIN session.commands
    /\ Len(requests) < session.length
    /\ Cardinality(Rows(requests, {action})) < session.commands[action]

\* The candidate store is validated before anything is written.
Propose(r) ==
    LET next == Append(requests, r)
        level == Upgraded(version, r)
    IN /\ sound' = Valid(next, level)
       /\ pending' = IF sound' THEN r ELSE Nothing
       /\ UNCHANGED <<requests, version, history, journal, file, session>>

\* A live document is read and its bytes hashed.
Readable(path) == file[path] # NoDoc

\* start_round, on the last document sent in the selected previous round.
StartRound(rid, prev, d) ==
    /\ Asked("start_round")
    /\ rid \notin Started(requests)
    /\ prev # NoRound => prev \in Started(requests) /\ Sent(requests, prev) # {}
    /\ Propose([Row("start_round", rid) EXCEPT
                   !.file = d,
                   !.ref = IF prev = NoRound THEN 0 ELSE Max(Sent(requests, prev)),
                   !.basis = [NoBasis EXCEPT !.positions = history]])

RecordSent(rid, d) ==
    /\ Asked("record_sent")
    /\ rid \in Started(requests)
    /\ Propose([Row("record_sent", rid) EXCEPT !.file = d])

ImportWorkingDocument(rid, path) ==
    /\ Asked("import_working_document")
    /\ rid \in Started(requests)
    /\ Working(requests, rid) = {}
    /\ Readable(path)
    /\ Propose([Row("import_working_document", rid) EXCEPT !.file = file[path], !.path = path])

LinkOperation(rid, o) ==
    /\ Asked("link_operation")
    /\ rid \in Started(requests)
    /\ o \notin AllLinked(requests)
    /\ journal[o] # "none"
    /\ IF Intent[o].mode = "create_new"
       THEN Intent[o].source \in Roles(requests, rid) \cup WorkingFiles(requests, rid)
       ELSE /\ Working(requests, rid) # {}
            /\ Selected(requests, rid).file = Intent[o].source
            /\ Selected(requests, rid).path = Intent[o].path
    /\ Propose([Row("link_operation", rid) EXCEPT
                   !.operation = o, !.file = Intent[o].candidate, !.path = Intent[o].path])

MutantExtends(s, rid, o) == TRUE
\* An in-place result must still extend the latest selected copy.
ExtendsSelected(s, rid, o) ==
    Intent[o].mode = "replace_source" =>
        /\ Working(s, rid) # {}
        /\ Selected(s, rid).path = Intent[o].path
        /\ Selected(s, rid).file = Intent[o].source

LinkWorkingDocument(rid, o) ==
    /\ Asked("link_working_document")
    /\ rid \in Started(requests)
    /\ o \in Linked(requests, rid)
    /\ journal[o] = "published" /\ file[Intent[o].path] = Intent[o].candidate
    /\ o \notin Applied(requests)
    /\ ExtendsSelected(requests, rid, o)
    /\ Propose([Row("link_working_document", rid) EXCEPT
                   !.operation = o, !.file = Intent[o].candidate, !.path = Intent[o].path,
                   !.ref = IF Working(requests, rid) = {} THEN 0
                           ELSE Max(Working(requests, rid))])

RecordWorkingVersion(rid) ==
    /\ Asked("record_working_version")
    /\ rid \in Started(requests)
    /\ Working(requests, rid) # {}
    /\ LET old == Selected(requests, rid)
       IN /\ file[old.path] \notin {NoDoc, old.file}
          /\ Propose([Row("record_working_version", rid) EXCEPT
                         !.file = file[old.path], !.path = old.path,
                         !.ref = Max(Working(requests, rid))])

\* The event an issue command may follow: none, or one of the same round.
IssueOpen(rid, issue) ==
    /\ rid \in Started(requests)
    /\ LatestIssue(requests, issue) # 0 => requests[LatestIssue(requests, issue)].round = rid
Issued(issue) == requests[LatestIssue(requests, issue)].content

SaveIssue(rid, issue, proposal, link, operations) ==
    LET last == LatestIssue(requests, issue)
        content == [issue |-> issue, decision |-> NoDecision, link |-> link,
                    version |-> IF last = 0 THEN 1 ELSE Issued(issue).version + 1,
                    operations |-> operations, proposal |-> proposal]
    IN /\ Asked("save_issue")
       /\ IssueOpen(rid, issue)
       /\ ContentMatches(requests, rid, content)
       /\ link # NoLink => CurrentPosition(link, history)
       /\ Propose([Row("save_issue", rid) EXCEPT !.content = content])

LinkIssueOperation(rid, issue, o) ==
    /\ Asked("link_issue_operation")
    /\ IssueOpen(rid, issue)
    /\ LatestIssue(requests, issue) # 0
    /\ o \in Linked(requests, rid) \ ToSet(Issued(issue).operations)
    /\ Propose([Row("link_issue_operation", rid) EXCEPT
                   !.content = [Issued(issue) EXCEPT !.operations = Append(@, o)]])

DecideIssue(rid, issue, choice) ==
    /\ Asked("decide_issue")
    /\ IssueOpen(rid, issue)
    /\ LatestIssue(requests, issue) # 0
    /\ Issued(issue).decision = NoDecision
    /\ Issued(issue).link # NoLink => CurrentPosition(Issued(issue).link, history)
    /\ WorkingStatus(requests, rid) \in {"not_selected", "same_bytes"}
    /\ Propose([Row("decide_issue", rid) EXCEPT
                   !.content = [Issued(issue) EXCEPT
                       !.decision = [choice |-> choice, basis |-> Basis(requests, rid)]]])

\* The initial copy comes before any operation and any working document.
CopyAllowed(s, rid) == Working(s, rid) = {} /\ Linked(s, rid) = {}

PrepareWorkingCopy(rid, path) ==
    /\ Asked("prepare_working_copy")
    /\ rid \in Started(requests)
    /\ CopyAllowed(requests, rid)
    /\ \A i \in Rows(requests, {"prepare_working_copy"}) : requests[i].path # path
    /\ file[path] = NoDoc
    /\ Propose([Row("prepare_working_copy", rid) EXCEPT
                   !.file = Start(requests, rid).file, !.path = path])

SelectWorkingCopy(action, plan) ==
    /\ Asked(action)
    /\ plan \in Rows(requests, {"prepare_working_copy"})
    /\ CopyAllowed(requests, requests[plan].round)
    /\ Propose([Row(action, requests[plan].round) EXCEPT
                   !.file = requests[plan].file, !.path = requests[plan].path, !.ref = plan])

\* A table names issues of the round.
PrepareOutgoingPackage(rid, path, action, cleanup) ==
    /\ Asked(action)
    /\ rid \in Started(requests)
    /\ Working(requests, rid) # {}
    /\ WorkingStatus(requests, rid) = "same_bytes"
    /\ action = "prepare_outgoing_package_with_table" =>
          \E i \in LatestIssues(requests) : requests[i].round = rid
    /\ Propose([Row(action, rid) EXCEPT
                   !.file = Selected(requests, rid).file, !.path = path, !.cleanup = cleanup,
                   !.ref = Max(Working(requests, rid)),
                   !.basis = KitBasis(requests, rid, history)])

PublishOutgoingPackage(plan) ==
    /\ Asked("publish_outgoing_package")
    /\ plan \in Rows(requests, PlanActions)
    /\ KitCurrent(requests, plan)
    /\ \A i \in Rows(requests, KitEvents) : requests[i].ref # plan
    /\ Propose([Row("publish_outgoing_package", requests[plan].round) EXCEPT !.ref = plan])

RecordOutgoingVerification(plan) ==
    /\ Asked("record_outgoing_verification")
    /\ plan \in Rows(requests, PlanActions)
    /\ Propose([Row("record_outgoing_verification", requests[plan].round) EXCEPT !.ref = plan])

RecordFinalBasisAgreement(rid) ==
    /\ Asked("record_final_basis_agreement")
    /\ rid \in Started(requests)
    /\ Reviewable(requests, rid)
    /\ Propose([Row("record_final_basis_agreement", rid) EXCEPT
                   !.file = Basis(requests, rid),
                   !.basis = [Scope(requests, history) EXCEPT !.live = Live(requests, rid)]])

PrepareFinalDocument(agreement, path) ==
    /\ Asked("prepare_final_document")
    /\ agreement \in Rows(requests, {"record_final_basis_agreement"})
    /\ AgreementCurrent(requests, agreement)
    /\ file[path] = NoDoc
    /\ Propose([Row("prepare_final_document", requests[agreement].round) EXCEPT
                   !.file = Rendered[requests[agreement].file], !.path = path, !.ref = agreement])

PublishFinalDocument(plan) ==
    /\ Asked("publish_final_document")
    /\ plan \in Rows(requests, {"prepare_final_document"})
    /\ AgreementCurrent(requests, requests[plan].ref)
    /\ \A i \in Rows(requests, FinalEvents) : requests[i].ref # plan
    /\ Propose([Row("publish_final_document", requests[plan].round) EXCEPT !.ref = plan])

RecordFinalDocumentVerification(plan) ==
    /\ Asked("record_final_document_verification")
    /\ plan \in Rows(requests, {"prepare_final_document"})
    /\ Propose([Row("record_final_document_verification", requests[plan].round)
                   EXCEPT !.ref = plan])

\* _checked: the agreement stands, the candidate is as published, and the
\* saved copy has the expected bytes.
SavedChecked(plan, path, d) ==
    /\ \E i \in Rows(requests, FinalEvents) : requests[i].ref = plan
    /\ AgreementCurrent(requests, requests[plan].ref)
    /\ file[requests[plan].path] = requests[plan].file
    /\ file[path] = d

PrepareFinalSavedReview(plan, path) ==
    /\ Asked("prepare_final_saved_review")
    /\ plan \in Rows(requests, {"prepare_final_document"})
    /\ Readable(path)
    /\ SavedChecked(plan, path, file[path])
    /\ Propose([Row("prepare_final_saved_review", requests[plan].round) EXCEPT
                   !.file = file[path], !.path = path, !.ref = plan,
                   !.basis = requests[requests[plan].ref].basis])

ConfirmFinalSavedDocument(review) ==
    /\ Asked("confirm_final_saved_document")
    /\ review \in Rows(requests, {"prepare_final_saved_review"})
    /\ LET r == requests[review]
       IN /\ SavedChecked(r.ref, r.path, r.file)
          /\ r.file \in RevisionFree
          /\ Propose([Row("confirm_final_saved_document", r.round) EXCEPT
                         !.file = r.file, !.ref = review])

--------------------------------------------------------------------------------
(* The end of a command, and what runs beside it.                          *)

Publishing == {"publish_working_copy", "publish_outgoing_package", "publish_final_document"}
Verifying == {"record_working_copy_verification", "record_outgoing_verification",
              "record_final_document_verification"}

\* What an effect checks again before it writes.
StillCurrent(r) ==
    CASE r.action = "publish_outgoing_package" -> KitCurrent(requests, r.ref)
      [] r.action = "publish_final_document" ->
            AgreementCurrent(requests, requests[r.ref].ref)
      [] OTHER -> TRUE

\* The effect of a command and the commit of its row.  A publication creates
\* its path and never replaces one.
Commit ==
    /\ requests' = Append(requests, pending)
    /\ version' = Upgraded(version, pending)
    /\ pending' = Nothing
    /\ UNCHANGED <<history, journal, sound, session>>

CommitRow ==
    /\ pending # Nothing
    /\ pending.action \notin Publishing
    /\ pending.action \in Verifying =>
          file[requests[pending.ref].path] = Output(requests[pending.ref])
    /\ pending.action = "confirm_final_saved_document" =>
          LET review == requests[pending.ref]
          IN /\ AgreementCurrent(requests, requests[review.ref].ref)
             /\ file[review.path] = review.file
    /\ Commit
    /\ UNCHANGED file

\* The document is published before the row is committed; the commit may fail
\* and leave it behind, and so may a kill.
PublishAndCommit ==
    /\ pending.action \in Publishing
    /\ StillCurrent(pending)
    /\ LET plan == requests[pending.ref]
       IN /\ file[plan.path] = NoDoc
          /\ file' = [file EXCEPT ![plan.path] = Output(plan)]
    /\ \/ Commit
       \/ pending' = Nothing /\ UNCHANGED <<requests, version, history, journal, sound, session>>

\* A refused effect, a failed commit or a kill before anything was published.
Abandon ==
    /\ pending # Nothing
    /\ pending' = Nothing
    /\ UNCHANGED <<requests, version, history, journal, file, sound, session>>

\* mutate_deal_positions, under the same lock.
MutateDealPositions(batch) ==
    /\ pending = Nothing
    /\ Applies(history, batch)
    /\ sound' = HistoryValid(Extended(history, batch))
    /\ history' = IF sound' THEN Extended(history, batch) ELSE history
    /\ UNCHANGED <<requests, version, journal, file, pending, session>>

\* The user saves, moves or deletes a document, in Word or otherwise.
UserSaves(path) ==
    /\ \E d \in Saved[path] : file' = [file EXCEPT ![path] = d]
    /\ UNCHANGED <<requests, version, history, journal, pending, sound, session>>

\* The output of an operation is as its intent has it: not there, or the source.
Publishable(o) ==
    file[Intent[o].path] = IF Intent[o].mode = "create_new" THEN NoDoc ELSE Intent[o].source

\* A document operation (DraftingSave) puts its intent on record, publishes
\* or not, and puts the outcome on record, if it can be told.
PrepareOperation(o) ==
    /\ journal[o] = "none"
    /\ Publishable(o)
    /\ journal' = [journal EXCEPT ![o] = "prepared"]
    /\ UNCHANGED <<requests, version, history, file, pending, sound, session>>

EndOperation(o) ==
    /\ journal[o] = "prepared"
    /\ \/ /\ Publishable(o)
          /\ file' = [file EXCEPT ![Intent[o].path] = Intent[o].candidate]
          /\ \E outcome \in {"published", "unknown"} :
                journal' = [journal EXCEPT ![o] = outcome]
       \/ /\ \E outcome \in {"not_published", "unknown"} :
                journal' = [journal EXCEPT ![o] = outcome]
          /\ UNCHANGED file
    /\ UNCHANGED <<requests, version, history, pending, sound, session>>

--------------------------------------------------------------------------------

Init ==
    /\ requests = <<>> /\ version = 1
    /\ history = <<>>
    /\ journal = [o \in Operation |-> "none"]
    /\ file \in [Path \cup Folder -> {NoDoc}]
    /\ pending = Nothing
    /\ sound = TRUE
    /\ session \in Session

RoundCommand(rid) ==
    \/ \E prev \in Round \cup {NoRound}, d \in Doc : StartRound(rid, prev, d)
    \/ \E d \in Doc : RecordSent(rid, d)

WorkingCommand(rid) ==
    \/ \E path \in Path : ImportWorkingDocument(rid, path) \/ PrepareWorkingCopy(rid, path)
    \/ \E o \in Operation : LinkOperation(rid, o) \/ LinkWorkingDocument(rid, o)
    \/ RecordWorkingVersion(rid)
    \/ \E plan \in DOMAIN requests, action \in CopyActions : SelectWorkingCopy(action, plan)

\* An issue is saved with a link to a position or none, and with an operation
\* or none.
IssueCommand(rid) ==
    \E issue \in Issue :
        \/ \E proposal \in Proposal,
              link \in {NoLink} \cup {LinkTo(SubSeq(history, 1, n), p) :
                                       n \in 1..Len(history), p \in Known(history)},
              operations \in {<<>>} \cup {<<o>> : o \in Operation} :
                SaveIssue(rid, issue, proposal, link, operations)
        \/ \E o \in Operation : LinkIssueOperation(rid, issue, o)
        \/ \E choice \in Choice : DecideIssue(rid, issue, choice)

KitCommand(rid) ==
    \/ \E path \in Folder, action \in PlanActions, cleanup \in BOOLEAN :
          PrepareOutgoingPackage(rid, path, action, cleanup)
    \/ \E plan \in DOMAIN requests :
          PublishOutgoingPackage(plan) \/ RecordOutgoingVerification(plan)

FinalCommand(rid) ==
    \/ RecordFinalBasisAgreement(rid)
    \/ \E agreement \in DOMAIN requests, path \in Folder : PrepareFinalDocument(agreement, path)
    \/ \E plan \in DOMAIN requests :
          \/ PublishFinalDocument(plan)
          \/ RecordFinalDocumentVerification(plan)
          \/ \E path \in Path : PrepareFinalSavedReview(plan, path)
          \/ ConfirmFinalSavedDocument(plan)

Next ==
    \/ \E rid \in Round : \/ RoundCommand(rid) \/ WorkingCommand(rid) \/ IssueCommand(rid)
                          \/ KitCommand(rid) \/ FinalCommand(rid)
    \/ CommitRow \/ PublishAndCommit \/ Abandon
    \/ \E batch \in session.batches : MutateDealPositions(batch)
    \/ \E path \in Path \cup Folder : UserSaves(path)
    \/ \E o \in session.operations : PrepareOperation(o) \/ EndOperation(o)

Spec == Init /\ [][Next]_vars

--------------------------------------------------------------------------------
(* Properties.                                                             *)

Contents == [issue : Issue \cup {NoIssue}, version : Nat,
             decision : [choice : Choice \cup {"none"}, basis : Doc \cup {NoDoc}],
             link : Link \cup {NoLink}, operations : Seq(Operation),
             proposal : Proposal \cup {NoContent.proposal}]
Outcome == {"none", "prepared", "published", "not_published", "unknown"}
Observation == [outcome : Outcome, output : Doc \cup {NoDoc}]
Review == {"not_selected", "same_bytes", "unavailable", "changed"}
          \X UNION {[os -> Observation] : os \in SUBSET Operation}
Bases == [rows : SUBSET (1..MaxRequests), positions : Seq(Event), live : Review \cup {<<>>}]
RowType == [action : Action, round : Round, file : Doc \cup {NoDoc},
            path : Path \cup Folder \cup {NoPath}, ref : 0..MaxRequests,
            operation : Operation \cup {NoOperation}, content : Contents,
            basis : Bases, cleanup : BOOLEAN]

Typed ==
    /\ session \in Session
    /\ requests \in Seq(RowType) /\ Len(requests) <= session.length
    /\ pending \in RowType \cup {Nothing}
    /\ version \in 1..9
    /\ history \in Seq(Event)
    /\ journal \in [Operation -> Outcome]
    /\ file \in [Path \cup Folder -> Doc \cup {NoDoc}]
    /\ sound \in BOOLEAN

\* The rows that name a document.
Documented == WorkActions \cup PlanActions
              \cup {"start_round", "prepare_working_copy", "record_final_basis_agreement"}
NamesItsDocument(r) == r.action \in Documented => r.file \in Doc

\* The state has its types, and a row that names a document has its hash: none is
\* made of a file that could not be read.
TypeOK ==
    /\ Typed
    /\ \A i \in DOMAIN requests : NamesItsDocument(requests[i])
    /\ NamesItsDocument(pending)

\* A command that passes its own checks is never refused as storage_corrupt or
\* by the schema of the store: change and validate agree in every state that
\* commands can build up, in every order and at every schema version, and so do
\* _change and _validate_store.
AcceptedCommandsAreValid == sound

\* Whatever the state records of positions (the basis of a round, of a plan, of
\* an agreement, the link of an issue) can be found in the history for ever:
\* nothing becomes "unavailable" while the stores are kept.
Found(r) ==
    /\ IsPrefix(r.basis.positions, history)
    /\ r.content.link # NoLink => LinkStatus(r.content.link, history) # "unavailable"
PositionLinksResolve == \A i \in DOMAIN requests : Found(requests[i])

\* A decision is about one text: two events of the same version of an issue have
\* the same proposal and position, and once that version is decided the
\* decision stays, whatever operations are linked to it later.
Keeps(old, new) ==
    /\ old.version <= new.version
    /\ old.version = new.version =>
          /\ new.proposal = old.proposal /\ new.link = old.link
          /\ IsPrefix(old.operations, new.operations)
          /\ old.decision # NoDecision => new.decision = old.decision
DecisionsStayWithTheirText ==
    \A i, j \in Rows(requests, IssueActions) :
        (i < j /\ requests[i].content.issue = requests[j].content.issue) =>
            Keeps(requests[i].content, requests[j].content)

\* What a row refers to stays as it was, whatever the commands that follow it.
RecordsStandLater == PositionLinksResolve /\ DecisionsStayWithTheirText

\* A kit is recorded as published only if since its preview no version of the
\* working document was selected, no issue of the round was touched and no
\* position was changed.
KitUnchangedSincePreview ==
    [][\A i \in DOMAIN requests' \ DOMAIN requests :
          requests'[i].action = "publish_outgoing_package" =>
              LET plan == requests'[i].ref
              IN /\ history = requests'[plan].basis.positions
                 /\ \A j \in (plan + 1)..(i - 1) :
                       requests'[j].round = requests'[i].round =>
                           requests'[j].action \notin WorkActions \cup IssueActions]_vars

\* The final document of a deal stands on its agreement: FinalAgreement, where
\* an agreement is current as long as nothing was negotiated after it.
Negotiation == {"start_round", "record_sent", "link_operation"} \cup WorkActions \cup IssueActions
AgreementOf(s, i) ==
    CASE s[i].action = "prepare_final_document" -> s[i].ref
      [] s[i].action = "confirm_final_saved_document" -> s[s[s[i].ref].ref].ref
      [] OTHER -> s[s[i].ref].ref
Stage(action) ==
    CASE action = "prepare_final_document" -> "prepared"
      [] action \in FinalEvents -> "observed"
      [] action = "prepare_final_saved_review" -> "reviewed"
      [] OTHER -> "confirmed"
Agreements == Rows(requests, {"record_final_basis_agreement"})
Finalizing == {"prepare_final_document", "prepare_final_saved_review",
               "confirm_final_saved_document"} \cup FinalEvents
Final == INSTANCE FinalAgreement WITH
    Agreement <- 1..MaxRequests,
    made <- Agreements,
    current <- {a \in Agreements :
                   /\ requests[a].basis.positions = history
                   /\ \A i \in (a + 1)..Len(requests) : requests[i].action \notin Negotiation},
    reached <- {<<AgreementOf(requests, i), Stage(requests[i].action)>> :
                   i \in Rows(requests, Finalizing)}
FinalizationImplemented == Final!Spec

--------------------------------------------------------------------------------
(* The inductive invariant: what a row rests on, and what a command that    *)
(* was accepted has seen.                                                  *)

\* The actions whose row a row of some action refers to.
Refers(r) ==
    CASE r.action \in CopyActions -> {"prepare_working_copy"}
      [] r.action \in KitEvents -> PlanActions
      [] r.action = "prepare_final_document" -> {"record_final_basis_agreement"}
      [] r.action \in FinalEvents \cup {"prepare_final_saved_review"} -> {"prepare_final_document"}
      [] r.action = "confirm_final_saved_document" -> {"prepare_final_saved_review"}
      [] OTHER -> {}

\* A row is about its round and the requests it refers to, all among the first
\* n rows of the store, and what it took from them is there still.
Grounded(s, n, r) ==
    /\ r.ref \in 0..n /\ r.basis.rows \subseteq 1..n
    /\ NamesItsDocument(r)
    /\ r.action \in WorkActions \cup {"prepare_working_copy"} => r.path \in Path
    /\ r.action = "link_operation" => r.operation \in Operation
    /\ r.action # "start_round" => r.round \in Started(s)
    /\ Refers(r) # {} => r.ref \in RowsOf(s, Refers(r), r.round)
    /\ r.action = "prepare_working_copy" => r.file = Start(s, r.round).file
    /\ r.action \in IssueActions =>
          /\ r.content.issue \in Issue
          /\ ContentMatches(s, r.round, r.content)
          /\ \A i \in (1..n) \cap IssueRows(s, r.content.issue) :
                s[i].round = r.round /\ Keeps(s[i].content, r.content)
    /\ r.action = "prepare_final_saved_review" =>
          /\ r.basis = s[s[r.ref].ref].basis
          /\ \E i \in Rows(s, FinalEvents) : s[i].ref = r.ref
RowsGrounded == \A i \in DOMAIN requests : Grounded(requests, i - 1, requests[i])

\* Nothing was negotiated since the agreement.
Stands(a) ==
    requests[a].basis.rows = Negotiated(requests) /\ requests[a].basis.positions = history

\* A command was accepted: there is room for its row, the row is grounded and
\* found, the store with it is valid, and its agreement stands until it ends.
PendingStands ==
    pending # Nothing =>
        /\ Len(requests) < session.length
        /\ Grounded(requests, Len(requests), pending)
        /\ Found(pending)
        /\ Valid(Append(requests, pending), Upgraded(version, pending))
        /\ pending.action = "record_final_basis_agreement" => pending.basis.positions = history
        /\ pending.action = "prepare_final_document" => Stands(pending.ref)
        /\ pending.action = "prepare_final_saved_review" => Stands(requests[pending.ref].ref)

DealInv ==
    /\ Typed
    /\ RowsGrounded /\ PositionLinksResolve /\ PendingStands
    /\ Valid(requests, version) /\ HistoryValid(history) /\ sound
================================================================================
