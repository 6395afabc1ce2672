--------------------------- MODULE RevisionChoices ---------------------------
(***************************************************************************)
(* revision_decisions.py, counter_revisions.py and clean_copy.py: which    *)
(* pending revisions of a paragraph can be decided, alone or together, and *)
(* what the paragraph is afterwards.  A target is the sequence of the      *)
(* revisions it selects.                                                   *)
(***************************************************************************)
EXTENDS RedlineText, SequencesExt

CONSTANT BatchMin \* _BATCH_MIN_REVISIONS: a clean copy of so many revisions takes them in one pass

ASSUME ChoicesAssumption == BatchMin \in Nat

Isolated(p, r) == ~Nested(p, r) /\ Strikes(p, r) = {}
NextSibling(p, r, s) == ChildAfter(p, Highest(AtomsOf(p, r))) = s

\* One insertion whose only strike is its end, or all of it.
CounterUnit(p, host, strike) ==
  /\ Strikes(p, host) = {strike}
  /\ p[Highest(AtomsOf(p, host))].del = strike

Targets(p) ==
  LET revisions == Revisions(p)
      alone == {r \in revisions : Isolated(p, r)}
      counters == {<<h, s>> \in Insertions(p) \X revisions : CounterUnit(p, h, s)}
      inserted == alone \cap Insertions(p)
  IN {<<r>> : r \in alone}
     \cup {<<d, i>> \in (alone \ inserted) \X inserted : NextSibling(p, d, i)}
     \cup counters
     \cup {<<c[1], c[2], i>> : <<c, i>> \in {x \in counters \X inserted : NextSibling(p, x[1][1], x[2])}}

IsCounter(p, target) == Len(target) > 1 /\ target[1] \in Insertions(p)

\* The atoms of freed become plain text, the atoms of gone disappear.
Patched(p, freed, gone) ==
  LET kept == SelectSeq([i \in DOMAIN p |-> i], LAMBDA i : i \notin gone)
  IN [k \in DOMAIN kept |->
        IF kept[k] \in freed THEN [p[kept[k]] EXCEPT !.ins = None, !.del = None] ELSE p[kept[k]]]

\* Mutant: accepting a deletion restores its text.
MutantTextOutcome(p, target, decision) ==
  LET kept == IF decision = "accept" THEN ToSet(target) ELSE ToSet(target) \ Insertions(p)
  IN Patched(p, UNION {AtomsOf(p, r) : r \in kept}, UNION {AtomsOf(p, r) : r \in ToSet(target) \ kept})

TextOutcome(p, target, decision) ==
  LET members == ToSet(target)
      kept == {r \in members : (r \in Insertions(p)) = (decision = "accept")}
  IN Patched(p, UNION {AtomsOf(p, r) : r \in kept}, UNION {AtomsOf(p, r) : r \in members \ kept})

\* Mutant: rejecting a counter restores its text in a rejected insertion too.
MutantCounterOutcome(p, target, original, counter) ==
  LET struck == AtomsOf(p, target[2])
      all == UNION {AtomsOf(p, r) : r \in ToSet(target)}
      freed == (IF original = "accept" THEN AtomsOf(p, target[1]) \ struck ELSE {})
               \cup (IF counter = "reject" THEN struck ELSE all \ AtomsOf(p, target[1]))
  IN Patched(p, freed, all \ freed)

CounterOutcome(p, target, original, counter) ==
  LET struck == AtomsOf(p, target[2])
      proposal == AtomsOf(p, target[1]) \ struck
      answer == IF Len(target) = 3 THEN AtomsOf(p, target[3]) ELSE {}
      freed == (IF original = "accept" THEN proposal ELSE {})
               \cup (IF original = "accept" /\ counter = "reject" THEN struck ELSE {})
               \cup (IF counter = "accept" THEN answer ELSE {})
  IN Patched(p, freed, (struck \cup proposal \cup answer) \ freed)

Outcome(p, op) ==
  IF IsCounter(p, op.target) THEN CounterOutcome(p, op.target, op.decision, op.counter)
  ELSE TextOutcome(p, op.target, op.decision)

(* A batch: every target resolved on the source, none sharing a revision   *)
(* with another, the decisions taken one after the other.                  *)
Decidable(p, ops) ==
  /\ \A m, n \in DOMAIN ops : m # n => ToSet(ops[m].target) \cap ToSet(ops[n].target) = {}
  /\ {ops[n].target : n \in DOMAIN ops} \subseteq Targets(p)

Decided(p, ops) == FoldLeft(Outcome, p, ops)

(* The clean copy, one by one: accept the first revision of the document,  *)
(* again and again; empty when one of them cannot be decided.              *)
AcceptFirst(p) ==
  LET first == Outer(p[Lowest({i \in DOMAIN p : Outer(p[i]) # None})])
      target == IF Cardinality(Strikes(p, first)) = 1
                THEN <<first, CHOOSE s \in Strikes(p, first) : TRUE>> ELSE <<first>>
  IN IF Revisions(p) = {} THEN {p}
     ELSE IF target \notin Targets(p) THEN {}
     ELSE {Outcome(p, [target |-> target, decision |-> "accept", counter |-> "accept"])}

SelectiveCopies(p) ==
  FoldLeft(LAMBDA S, n : UNION {AcceptFirst(q) : q \in S}, {p},
           [n \in 1..Cardinality(Revisions(p)) |-> n])

(* In one pass: each revision, in the order of the document, is accepted   *)
(* by a patch of the children it is found at.  The patches are proved      *)
(* together: undone in the opposite order they give back the source, and   *)
(* replayed on the source, each on its exact preimage, the same copy.      *)
NeedsFullContext(p) == \E r \in Revisions(p) : Nested(p, r)

Patch(at, before, after) == [at |-> at, before |-> before, after |-> after]

AcceptingPatch(p, r) ==
  LET lo == Lowest(AtomsOf(p, r))
      wrapper == SubSeq(p, lo, Highest(AtomsOf(p, r)))
  IN Patch(lo, wrapper, TextOutcome(wrapper, <<r>>, "accept"))

\* What the patch makes of the paragraphs that hold its preimage.
ApplyBatchPatch(paragraphs, patch) ==
  LET last == patch.at + Len(patch.before) - 1
  IN {Splice(q, patch.at, last, patch.after) : q \in {x \in paragraphs : SubSeq(x, patch.at, last) = patch.before}}

Undo(patch) == Patch(patch.at, patch.after, patch.before)

OrdinaryBatch(p) ==
  LET inOrder == SetToSortSeq(Revisions(p), LAMBDA r, s : Lowest(AtomsOf(p, r)) < Lowest(AtomsOf(p, s)))
      accept(plan, r) ==
        LET patch == AcceptingPatch(plan.par, r)
            last == patch.at + Len(patch.before) - 1
        IN [par |-> Splice(plan.par, patch.at, last, patch.after), ledger |-> Append(plan.ledger, patch)]
      planned == FoldLeft(accept, [par |-> p, ledger |-> <<>>], inOrder)
      undone == Reverse([k \in DOMAIN planned.ledger |-> Undo(planned.ledger[k])])
  IN {q \in FoldLeft(ApplyBatchPatch, {p}, planned.ledger) :
        /\ q = planned.par /\ Revisions(q) = {}
        /\ FoldLeft(ApplyBatchPatch, {q}, undone) = {p}}

CleanCopies(p) ==
  IF Cardinality(Revisions(p)) >= BatchMin /\ ~NeedsFullContext(p) THEN OrdinaryBatch(p) ELSE SelectiveCopies(p)
=============================================================================
