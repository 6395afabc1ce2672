--------------------------- MODULE BatchDiagnosis ---------------------------
(***************************************************************************)
(* What a batch of tracked edits is told before anything is written: the   *)
(* shape of every edit, the binding of every anchor to the bytes it was    *)
(* read from, the match of every quoted wording and the overlaps, in the   *)
(* order of apply.py, and the diagnosis that preflight_edits reports.  A   *)
(* document is a draft that Word saved and the batches applied to it since *)
(* (its hash stands for exactly that); its text is the set of wordings a   *)
(* reader finds in it.  How edits are laid out in a paragraph is the       *)
(* subject of TrackedEdits.                                                *)
(***************************************************************************)
EXTENDS Naturals, Sequences, FiniteSets, SequencesExt

CONSTANTS
  None,       \* an absent value
  Drafts,     \* the documents that Word may save
  Wordings,   \* the wordings that edits and quotes are about
  Says(_),    \* the wordings of a draft's accepted reading
  Said(_),    \* those of its reading with the pending revisions rejected
  Unprovable(_, _), \* the batches on a document whose candidate fails its round trip
  MaxBatch,   \* MAX_EDIT_BATCH_SIZE
  MaxNewText  \* MAX_NEW_TEXT_CHARS_PER_BATCH: new wordings in one batch

ASSUME BatchAssumption ==
  /\ {MaxBatch, MaxNewText} \subseteq Nat
  /\ \A d \in Drafts : Says(d) \cup Said(d) \subseteq Wordings

Saved(draft) == [draft |-> draft, batches |-> <<>>]

\* An edit quotes the wording it replaces or deletes, and is anchored to the
\* document it was read in; without one it reinstates a wording they struck.
Edit(on, old, new) == [on |-> on, old |-> old, new |-> new]

Candidate(doc, batch, author) ==
  [doc EXCEPT !.batches =
     Append(@, [by |-> author, edits |-> [i \in DOMAIN batch |-> [old |-> batch[i].old, new |-> batch[i].new]]])]

Struck(b) == {b.edits[i].old : i \in DOMAIN b.edits} \ {None}
Inserted(b) == {b.edits[i].new : i \in DOMAIN b.edits} \ {None}

CurrentReading(doc) ==
  FoldLeft(LAMBDA text, b : (text \ Struck(b)) \cup Inserted(b), Says(doc.draft), doc.batches)

\* Rejecting what is pending undoes every batch with the draft's own revisions.
RejectedReading(doc) == Said(doc.draft)

Reading(doc, mode) == IF mode = "accepted_current" THEN CurrentReading(doc) ELSE RejectedReading(doc)

BatchesBy(doc, authors) == {b \in ToSet(doc.batches) : b.by \in authors}
OwnPending(doc, author) == UNION {Inserted(b) : b \in BatchesBy(doc, {author})}
TheirDeletions(doc, author) ==
  (Said(doc.draft) \ Says(doc.draft))
  \cup UNION {Struck(b) : b \in {c \in ToSet(doc.batches) : c.by # author}}

(***************************************************************************)
(* The refusals.  Each stage names the edits it would stop at.             *)
(***************************************************************************)
Shapeless(edit) == edit.old = None /\ edit.new = None

\* The new texts are counted up to each edit.
WritesTooMuch(batch, j) == Cardinality({i \in 1..j : batch[i].new # None}) > MaxNewText

Misshapen(batch) == {j \in DOMAIN batch : Shapeless(batch[j]) \/ WritesTooMuch(batch, j)}

\* An anchor binds an edit to the very bytes it was read from.
Misanchored(doc, edit) == edit.on # doc

Unmatched(doc, batch, author) ==
  {j \in DOMAIN batch :
     \/ Misanchored(doc, batch[j])
     \/ batch[j].old # None /\ batch[j].old \notin CurrentReading(doc) \ OwnPending(doc, author)
     \/ batch[j].old = None /\ batch[j].new \notin TheirDeletions(doc, author)}

Overlapping(batch) ==
  {j \in DOMAIN batch :
     \E i \in 1..(j - 1) : /\ batch[i].old = batch[j].old
                           /\ batch[j].old = None => batch[i].new = batch[j].new}

\* The last stage writes the candidate and reads it back.
Stages(doc, batch, author) ==
  << [phase |-> "validation", stops |-> IF Len(batch) \in 1..MaxBatch THEN {} ELSE {None}],
     [phase |-> "validation", stops |-> Misshapen(batch)],
     [phase |-> "matching", stops |-> Unmatched(doc, batch, author)],
     [phase |-> "planning", stops |-> Overlapping(batch)],
     [phase |-> "round_trip", stops |-> IF Unprovable(doc, batch) THEN {None} ELSE {}] >>

Refusals(doc, batch, author) == {k \in 1..5 : Stages(doc, batch, author)[k].stops # {}}
Fits(doc, batch, author) == Refusals(doc, batch, author) = {}

Least(numbers) == CHOOSE n \in numbers : \A m \in numbers : n <= m
FirstOf(stops) == IF stops = {None} THEN None ELSE Least(stops)

(***************************************************************************)
(* The diagnosis: edits matched before the refusal are planned, the one it *)
(* stopped at is blocked, the rest was not evaluated.                      *)
(***************************************************************************)
NotEvaluated(batch) == [i \in DOMAIN batch |-> "not_evaluated"]

\* A plausible bug: all that was not refused counts as planned.
MutantAllPlanned(doc, batch, author) ==
  LET refusal == Stages(doc, batch, author)[Least(Refusals(doc, batch, author))]
  IN IF Fits(doc, batch, author)
     THEN [phase |-> None, blocking |-> None, edits |-> [i \in DOMAIN batch |-> "applicable"]]
     ELSE [phase |-> refusal.phase, blocking |-> FirstOf(refusal.stops),
           edits |-> [i \in DOMAIN batch |-> IF i = FirstOf(refusal.stops) THEN "blocked" ELSE "planned"]]

\* What a refusal keeps of the edits before it.
MatchedBefore(batch, refusal) ==
  CASE refusal.phase = "validation" -> {}
    [] refusal.phase = "matching" -> 1..(FirstOf(refusal.stops) - 1)
    [] OTHER -> DOMAIN batch

Status(i, at, matched) ==
  IF i = at THEN "blocked" ELSE IF i \in matched THEN "planned" ELSE "not_evaluated"

Diagnosis(doc, batch, author) ==
  LET refusal == Stages(doc, batch, author)[Least(Refusals(doc, batch, author))]
      at == FirstOf(refusal.stops)
  IN IF Fits(doc, batch, author)
     THEN [phase |-> None, blocking |-> None, edits |-> [i \in DOMAIN batch |-> "applicable"]]
     ELSE [phase |-> refusal.phase, blocking |-> at,
           edits |-> [i \in DOMAIN batch |-> Status(i, at, MatchedBefore(batch, refusal))]]

Proof(doc, batch, author, build) ==
  [source |-> doc, edits |-> batch, author |-> author, build |-> build,
   candidate |-> Candidate(doc, batch, author)]
=============================================================================
