------------------------------- MODULE Redline -------------------------------
(***************************************************************************)
(* A paragraph under negotiation.  The parties edit it in Word with track  *)
(* changes on; our side also calls the tools on it: a batch of explicit    *)
(* edits (apply_edits), a batch of drafting operations                     *)
(* (apply_document_edits on text), a batch of decisions on pending         *)
(* revisions.  A tool answers with what it saved, or that its own check of *)
(* the candidate failed; a refusal before that changes nothing and is no   *)
(* step.  The binding of a batch to the file it was prepared on is the     *)
(* subject of DraftingSave; here every batch meets the paragraph it was    *)
(* written for.                                                            *)
(***************************************************************************)
EXTENDS TrackedEdits, DraftedText, RevisionChoices

CONSTANTS
  Draft,         \* the paragraph both sides start from
  WordTexts,     \* what a party types in Word
  EditBatches(_), DraftBatches(_), DecisionBatches(_), \* the batches our side asks for
  MaxPending,    \* bound: pending revisions of a paragraph anybody works on
  MaxDecided,    \* bound: pending revisions of a paragraph with decisions to take
  MaxLength      \* bound: characters of a paragraph that Word adds to

VARIABLES par, answer

vars == <<par, answer>>

Answer(tool, outcome) == [tool |-> tool, outcome |-> outcome]

Init ==
  /\ par = Written(Draft, None)
  /\ answer = None

Pending == Cardinality(Revisions(par))
Workable(bound) == Pending <= bound /\ Len(par) <= MaxLength
FreshRevision(author) ==
  {r \in {[id |-> LargestId(par) + 1, by |-> author]} : r.id <= MaxRevisionId}

(***************************************************************************)
(* Word.                                                                   *)
(***************************************************************************)
\* Typing between characters that are not of one wrapper, or in plain text.
WordInsert(author, at, text) ==
  /\ Pending < MaxPending
  /\ Len(par) + Len(text) <= MaxLength
  /\ at \in 0..Len(par)
  /\ at \in 1..(Len(par) - 1) => Outer(par[at]) # Outer(par[at + 1]) \/ Outer(par[at]) = None
  /\ \E r \in FreshRevision(author) : par' = Splice(par, at + 1, at, Written(text, r))
  /\ answer' = None

\* Deleting visible text of one kind; one's own insertion just disappears.
WordDelete(author, lo, hi) ==
  /\ Pending < MaxPending
  /\ lo \in DOMAIN par /\ hi \in lo..Len(par)
  /\ \A i \in lo..hi : par[i].ins = par[lo].ins /\ par[i].del = None
  /\ \E r \in FreshRevision(author) :
     par' = IF par[lo].ins # None /\ par[lo].ins.by = author
            THEN Splice(par, lo, hi, <<>>)
            ELSE Strike(par, lo, hi, r)
  /\ answer' = None

\* Accept all or reject all.
WordSettle ==
  /\ Pending > 0
  /\ \/ par' = Written(Reading(par), None)
     \/ par' = Written(TextAt(par, Where(par, LAMBDA a : a.ins = None)), None)
  /\ answer' = None

(***************************************************************************)
(* The tools.                                                              *)
(***************************************************************************)
ApplyEdits(batch) ==
  /\ Workable(MaxPending)
  /\ \E q \in Candidates(par, batch) :
       LET verdict == RoundTripVerdict(par, batch, q)
       IN /\ answer' = Answer("apply_edits", verdict)
          /\ par' = IF verdict = "saved" THEN q ELSE par

ApplyDrafts(ops) ==
  /\ Workable(MaxPending)
  /\ \E draft \in Drafts(par, ops) :
       /\ answer' = Answer("draft", IF draft.verified THEN "saved" ELSE "round_trip_failed")
       /\ par' = IF draft.verified THEN draft.step.par ELSE par

ApplyDecisions(ops) ==
  /\ Workable(MaxDecided)
  /\ Decidable(par, ops)
  /\ answer' = None
  /\ par' = Decided(par, ops)

Next ==
  \/ \E author \in Authors, at \in 0..MaxLength, text \in WordTexts : WordInsert(author, at, text)
  \/ \E author \in Authors, lo, hi \in DOMAIN par : WordDelete(author, lo, hi)
  \/ WordSettle
  \/ \E batch \in EditBatches(par) : ApplyEdits(batch)
  \/ \E ops \in DraftBatches(par) : ApplyDrafts(ops)
  \/ \E ops \in DecisionBatches(par) : ApplyDecisions(ops)

Spec == Init /\ [][Next]_vars

(***************************************************************************)
(* Properties.                                                             *)
(***************************************************************************)
Saved(tool) == answer' = Answer(tool, "saved")
Foreign(p) == {r \in Revisions(p) : r.by # Us}
Original(p) == TextAt(p, Where(p, LAMBDA a : a.ins = None))

\* The planner foresees every layout that cannot be written: what it lets
\* through never comes back from the candidate as something else than asked.
ChecksNeverFail == answer # None => answer.outcome # "round_trip_failed"

\* Rejecting exactly what a batch of edits added gives back the paragraph it was
\* applied to, with every revision that was pending on it.
EditsCanBeRejected ==
  [][Saved("apply_edits") =>
       LET added == Revisions(par') \ Revisions(par)
           gone == {i \in DOMAIN par' : par'[i].ins \in added}
           kept == SelectSeq([i \in DOMAIN par' |-> i], LAMBDA i : i \notin gone)
       IN par = [k \in DOMAIN kept |-> [par'[kept[k]] EXCEPT !.del = IF @ \in added THEN None ELSE @]]]_vars

\* No edit settles anything: rejecting all revisions reads the same before and
\* after, and what the counterparty inserted or deleted still says what it said.
OnlyDecisionsSettle ==
  [][Saved("apply_edits") \/ Saved("draft") =>
       /\ Original(par') = Original(par)
       /\ \A r \in Foreign(par) : TextOf(par', r) = TextOf(par, r)]_vars

\* Decisions taken together are the decisions taken each by itself: a character
\* stays unless its insertion is rejected or its deletion accepted.
Verdicts(p, ops) ==
  UNION {LET op == ops[n] IN
         IF IsCounter(p, op.target)
         THEN {<<op.target[1], op.decision>>} \cup {<<op.target[k], op.counter>> : k \in 2..Len(op.target)}
         ELSE {<<op.target[k], op.decision>> : k \in DOMAIN op.target} : n \in DOMAIN ops}

Together(p, ops) ==
  LET verdicts == Verdicts(p, ops)
      accepted == {v[1] : v \in {w \in verdicts : w[2] = "accept"}}
      rejected == {v[1] : v \in {w \in verdicts : w[2] = "reject"}}
      stays == SelectSeq([i \in DOMAIN p |-> i], LAMBDA i : p[i].ins \notin rejected /\ p[i].del \notin accepted)
      open(r) == IF r \in accepted \cup rejected THEN None ELSE r
  IN [k \in DOMAIN stays |-> [p[stays[k]] EXCEPT !.ins = open(@), !.del = open(@)]]

DecisionsAreSimultaneous ==
  Pending <= MaxDecided =>
    \A ops \in DecisionBatches(par) : Decidable(par, ops) => Decided(par, ops) = Together(par, ops)

\* A clean copy reads as the paragraph read with its changes shown as taken,
\* whether it takes the revisions one by one or in one pass; and where none is
\* inside another, neither way ends in its own proof failing.
CleanCopyIsTheReading ==
  /\ \A q \in SelectiveCopies(par) \cup CleanCopies(par) : q = Written(Reading(par), None)
  /\ NeedsFullContext(par) \/ {} \notin {SelectiveCopies(par), CleanCopies(par)}
=============================================================================
