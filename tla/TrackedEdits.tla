----------------------------- MODULE TrackedEdits ----------------------------
(***************************************************************************)
(* apply.py: a batch of explicit edits of one paragraph.  Every edit is    *)
(* matched against the source paragraph and planned, the plans' layout is  *)
(* checked, the plans are applied from right to left, and the candidate's  *)
(* change units are compared with the source's plus the promised ones.     *)
(* A set of paragraphs that is empty stands for a refusal.                 *)
(***************************************************************************)
EXTENDS RedlineText, SequencesExt, TLC

IsWrapper(r) == r # None
IsOurs(r) == IsWrapper(r) /\ r.by = Us

(***************************************************************************)
(* Matching.  A plan: what to do, from which reading offset up to which,   *)
(* inside which counterparty insertion (counter) or before which           *)
(* counterparty deletion (reinstate).                                      *)
(***************************************************************************)
Covered(p, at, upto) == {ShownAt(p)[k] : k \in at..(upto - 1)}

MatchDeleteSpan(p, edit) ==
  LET hits == Occurrences(Reading(p), edit.old)
  IN {[op |-> IF host = None THEN "plain" ELSE "counter", host |-> host,
       old |-> edit.old, new |-> edit.new, at |-> k, upto |-> k + Len(edit.old)] :
        <<k, host>> \in {m \in hits \X (Insertions(p) \cup {None}) :
                           /\ Cardinality(hits) = 1
                           /\ \A i \in Covered(p, m[1], m[1] + Len(edit.old)) : p[i].ins = m[2]
                           /\ ~IsOurs(m[2])}}

MatchReinstate(p, edit) ==
  LET theirs == {r \in Revisions(p) \ Insertions(p) : ~IsOurs(r) /\ ~Nested(p, r)}
      hits == UNION {{r} \X Occurrences(TextOf(p, r), edit.new) : r \in theirs}
      once == \A h, k \in hits : h[1] = k[1] /\ h[2] < k[2] + Len(edit.new)
      point(r) == 1 + Cardinality({i \in DOMAIN p : i < Lowest(AtomsOf(p, r)) /\ p[i].del = None})
  IN {[op |-> "reinstate", host |-> r, old |-> <<>>, new |-> edit.new, at |-> point(r), upto |-> point(r)] :
        r \in {h[1] : h \in {g \in hits : once /\ ~IsWrapper(ChildBefore(p, Lowest(AtomsOf(p, g[1]))))}}}

Matches(p, edit) ==
  IF edit.kind = "reinstate" THEN MatchReinstate(p, edit) ELSE MatchDeleteSpan(p, edit)

(* The identifiers an edit reserves: the strike's, then the insertion's.   *)
Needed(edit) == (IF edit.kind = "reinstate" THEN 0 ELSE 1) + (IF edit.new = <<>> THEN 0 ELSE 1)

Reserved(p, batch, n) ==
  LET first == LargestId(p) + 1 + FoldLeft(LAMBDA sum, e : sum + Needed(e), 0, SubSeq(batch, 1, n - 1))
  IN [strike |-> first, insertion |-> first + Needed(batch[n]) - 1]

Plans(p, batch) ==
  [n \in DOMAIN batch |->
     (CHOOSE plan \in Matches(p, batch[n]) : TRUE) @@ Reserved(p, batch, n)]

(***************************************************************************)
(* Layout: where two of our operations, or one of them and markup that is  *)
(* there already, would touch, the batch is refused.                       *)
(***************************************************************************)
OneEditPerWrapper(plans) ==
  \A m, n \in DOMAIN plans : plans[m].host = plans[n].host => m = n \/ plans[m].host = None

CounterHasRoom(p, plan) ==
  LET following == ChildAfter(p, Highest(AtomsOf(p, plan.host)))
  IN /\ \A r \in Strikes(p, plan.host) : ~IsOurs(r)
     /\ plan.new # <<>> => ~IsWrapper(following)
     /\ ~IsOurs(following)

HostEnd(p, host) ==
  1 + Cardinality({i \in 1..Highest(AtomsOf(p, host)) : p[i].del = None})

\* Mutant: an edit may start right where a countered insertion ends.
MutantNothingStarts(p, plan, plans) == TRUE

NothingStartsAtHostEnd(p, plan, plans) ==
  \A n \in DOMAIN plans : plans[n].op = "plain" => plans[n].at # HostEnd(p, plan.host)

SpansAreApart(plans) ==
  \A m, n \in DOMAIN plans :
    m # n => /\ plans[m].at # plans[n].at
             /\ plans[m].at < plans[n].at => plans[m].upto <= plans[n].at

LayoutIsClear(p, plans) ==
  /\ OneEditPerWrapper(plans)
  /\ \A n \in DOMAIN plans : plans[n].op = "counter" =>
       CounterHasRoom(p, plans[n]) /\ NothingStartsAtHostEnd(p, plans[n], plans)
  /\ SpansAreApart(plans)

(***************************************************************************)
(* Surgery.                                                                *)
(***************************************************************************)
\* The covered characters are consecutive and have no markup of ours, nor an
\* insertion we countered, flush against them.
SpanIsFree(p, plan, covered) ==
  LET before == ChildBefore(p, Lowest(covered))
  IN /\ \A i \in Lowest(covered)..Highest(covered) : p[i].ins = plan.host /\ p[i].del = None
     /\ plan.op = "plain" =>
          /\ ~IsOurs(before)
          /\ IsWrapper(before) => \A r \in Strikes(p, before) : ~IsOurs(r)
          /\ ~IsOurs(ChildAfter(p, Highest(covered)))

Replacement(plan) == Written(plan.new, Ours(plan.insertion))

\* Mutant: a plain replacement swallows the character after it.
MutantApplyPlan(p, plan) ==
  LET covered == Covered(p, plan.at, plan.upto)
      last == IF plan.op = "plain" /\ Highest(covered) < Len(p) THEN 1 ELSE 0
      place == IF plan.op = "reinstate" THEN Lowest(AtomsOf(p, plan.host)) ELSE Highest(covered) + 1
      struck == IF covered = {} THEN p ELSE Strike(p, Lowest(covered), Highest(covered), Ours(plan.strike))
  IN IF plan.op = "reinstate" \/ SpanIsFree(p, plan, covered)
     THEN {Splice(struck, place, place - 1 + last, Replacement(plan))} ELSE {}

ApplyPlan(p, plan) ==
  LET covered == Covered(p, plan.at, plan.upto)
      place == CASE plan.op = "reinstate" -> Lowest(AtomsOf(p, plan.host))
                 [] plan.op = "counter" -> Highest(AtomsOf(p, plan.host)) + 1
                 [] OTHER -> Highest(covered) + 1
      struck == IF covered = {} THEN p ELSE Strike(p, Lowest(covered), Highest(covered), Ours(plan.strike))
  IN IF plan.op = "reinstate" \/ SpanIsFree(p, plan, covered)
     THEN {Splice(struck, place, place - 1, Replacement(plan))} ELSE {}

RightToLeft(plans) == SortSeq(plans, LAMBDA a, b : a.at > b.at)

Candidates(p, batch) ==
  LET plans == Plans(p, batch)
  IN IF /\ \A n \in DOMAIN batch : Matches(p, batch[n]) # {}
        /\ Reserved(p, batch, Len(batch)).insertion <= MaxRevisionId
        /\ LayoutIsClear(p, plans)
     THEN FoldLeft(LAMBDA S, plan : UNION {ApplyPlan(q, plan) : q \in S}, {p}, RightToLeft(plans))
     ELSE {}

(***************************************************************************)
(* The round trip.  A paragraph with revisions is addressed by one of its  *)
(* change units; one without is addressed itself, and must then also read  *)
(* as requested.                                                           *)
(***************************************************************************)
ExpectedUnit(plan) ==
  [type |-> CASE plan.op = "reinstate" -> "insert"
              [] plan.op = "counter" -> "counter"
              [] OTHER -> IF plan.new = <<>> THEN "delete" ELSE "replace",
   revisions |-> {Ours(id) : id \in plan.strike..plan.insertion},
   old |-> plan.old, new |-> plan.new]

ExpectedText(p, plans) ==
  FoldLeft(LAMBDA text, plan : SubSeq(text, 1, plan.at - 1) \o plan.new \o SubSeq(text, plan.upto, Len(text)),
           Reading(p), RightToLeft(plans))

RoundTripVerdict(p, batch, q) ==
  LET plans == Plans(p, batch)
      promised == {ExpectedUnit(plans[n]) : n \in DOMAIN plans}
  IN IF Units(q) = Units(p) \cup promised /\ (Revisions(p) = {} => Reading(q) = ExpectedText(p, plans))
     THEN "saved"
     ELSE IF ~(Units(p) \subseteq Units(q)) THEN "adjacent_to_own_revision"
     ELSE "round_trip_failed"
=============================================================================
