------------------------------- MODULE MCDealStore ------------------------------
(* Small instances of DealStore for TLC.                                   *)
EXTENDS DealStore, TLC

CONSTANTS r1, r2, r3, r4, r5       \* request ids
CONSTANTS d1                       \* a document

Command(id, action, digest, plan) ==
    [id |-> id, action |-> action, digest |-> digest, plan |-> plan]

ChangePositions == Command(r5, "mutate_deal_positions", NoDigest, NoPlan)
StartRound == Command(r1, "start_round", d1, NoPlan)
Import(id) == Command(id, "import_working_document", d1, NoPlan)
Prepare == Command(r3, "prepare_outgoing_package", NoDigest, NoPlan)
Publish == Command(r4, "publish_outgoing_package", NoDigest, r3)
Verify == Command(r5, "record_outgoing_verification", NoDigest, r3)

\* The import is sent once under the round's own request id, by mistake.
Attempts == {ChangePositions, StartRound, Import(r1), Import(r2), Prepare, Publish, Verify}

\* A fresh folder, and one that has its round and working document.
Fresh == {<<>>}
Started == {<<[attempt |-> StartRound, positions |-> <<>>],
              [attempt |-> Import(r2), positions |-> <<>>]>>}
FreshOrStarted == Fresh \cup Started

\* What a call has read matters only while it runs, what it was asked also once
\* it has answered ok, and no other answer matters but of a call that touched.
Live(f) == [c \in Call |-> IF pc[c] \in Running THEN f[c] ELSE Empty]
Matters(c) == pc[c] \in Running \/ answer[c] = "ok" \/ (answer[c] = "refused" /\ c \in touched)
Said(f) == [c \in Call |-> IF Matters(c) THEN f[c] ELSE NoCall]
StateView == <<storeVars, fileVars, holder, pc, Said(attempt), Live(expected), Live(loaded),
               Said(answer), {c \in touched : Matters(c)}, losses, orphans, folderLost>>
================================================================================
