------------------------------ MODULE MCDealRounds ------------------------------
(***************************************************************************)
(* Instances of DealRounds for TLC: two rounds, an incoming document with  *)
(* revisions and a clean one, a working path, a folder, one issue, two     *)
(* positions.  What the clients of a deal do is cut into the sessions      *)
(* below, each with the commands that can meet in it.                      *)
(***************************************************************************)
EXTENDS DealRounds

CONSTANTS r1, r2, dirty, clean, work, kit, o1, o2, i1, p1, p2

\* Both operations make the clean document: o1 as a new one, o2 in place.
MCIntent == [o \in Operation |-> [source |-> dirty, candidate |-> clean, path |-> work,
                                  mode |-> IF o = o1 THEN "create_new" ELSE "replace_source"]]
MCProposal == {[sent_quote |-> NoDoc, incoming_quote |-> dirty, working_quote |-> NoDoc],
               [sent_quote |-> NoDoc, incoming_quote |-> dirty, working_quote |-> clean]}
MCRendered == [d \in Doc |-> clean]
\* Word leaves a document at its path; a kit may be moved away.
MCSaved == [q \in Path \cup Folder |-> IF q \in Folder THEN {NoDoc} ELSE {dirty, clean}]

Ask(op, p, expected, related) ==
    <<[op |-> op, position |-> p, expected |-> expected, related |-> related]>>
Create == Ask("create", p1, 0, {})
Update == Ask("update", p1, 1, {})
CreatePair == Ask("create", p1, 0, {p2}) \o Ask("create", p2, 0, {})
Confirm == Ask("confirm", p1, 1, {})
Withdraw == Ask("withdraw", p1, 1, {})

Use(commands, length, operations, batches) ==
    [commands |-> commands, length |-> length, operations |-> operations, batches |-> batches]

\* A round that follows one or two sent documents.
Rounds == Use("start_round" :> 2 @@ "record_sent" :> 2 @@ "save_issue" :> 1
              @@ "record_final_basis_agreement" :> 1,
              5, {}, {Create})

\* An issue is saved, saved again, decided, and operations are linked to it.
Negotiate == Use("start_round" :> 1 @@ "save_issue" :> 2 @@ "decide_issue" :> 1
                 @@ "link_operation" :> 1 @@ "link_issue_operation" :> 1,
                 5, {o1}, {Create, Update})

\* A working copy, and operations that make or replace the document.
Copies == Use("start_round" :> 1 @@ "prepare_working_copy" :> 1 @@ "publish_working_copy" :> 1
              @@ "record_working_copy_verification" :> 1 @@ "link_operation" :> 2
              @@ "link_working_document" :> 2 @@ "record_working_version" :> 1,
              6, {o1, o2}, {CreatePair, Confirm, Withdraw})

\* An imported document, its issue, and kits of it.
Deliver == Use("start_round" :> 1 @@ "import_working_document" :> 1 @@ "save_issue" :> 1
               @@ "decide_issue" :> 1 @@ "record_working_version" :> 1
               @@ "prepare_outgoing_package" :> 1 @@ "prepare_outgoing_package_with_table" :> 1
               @@ "publish_outgoing_package" :> 1 @@ "record_outgoing_verification" :> 1,
               6, {}, {Create})

\* From the incoming document to the confirmed final one.
Finalize == Use("start_round" :> 1 @@ "record_sent" :> 1 @@ "record_final_basis_agreement" :> 2
                @@ "prepare_final_document" :> 1 @@ "publish_final_document" :> 1
                @@ "record_final_document_verification" :> 1
                @@ "prepare_final_saved_review" :> 1 @@ "confirm_final_saved_document" :> 1,
                7, {}, {Create})

MCSession == {Rounds, Negotiate, Copies, Deliver, Finalize}
================================================================================
