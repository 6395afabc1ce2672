----------------------------- MODULE DraftedText -----------------------------
(***************************************************************************)
(* _drafting_text.py and _drafting_paragraphs.py: the drafting operations  *)
(* on the text of one paragraph.  They run one after the other, each on    *)
(* what the one before it left, with one allocator of identifiers.  Unlike *)
(* the edits of apply.py they revise our own pending insertions in place.  *)
(* A step is a paragraph with the next identifier to give; an empty set of *)
(* steps stands for a refusal.                                             *)
(***************************************************************************)
EXTENDS RedlineText, SequencesExt, TLC

Step(p, next) == [par |-> p, next |-> next]
InRange(step) == {s \in {step} : s.next <= MaxRevisionId + 1}

(***************************************************************************)
(* _replace_candidate: the len characters shown from offset k on.  Plain   *)
(* text is struck and the new text written after it; our own insertion is  *)
(* rewritten; the end of a counterparty insertion is countered.            *)
(***************************************************************************)
\* Mutant: what this batch will delete is overwritten instead of struck.
MutantReplaceSpan(s, k, len, new) ==
  LET shown == ShownAt(s.par)
  IN InRange(Step(Splice(s.par, shown[k], shown[k + len - 1], Written(new, Ours(s.next))),
                  s.next + (IF new = <<>> THEN 0 ELSE 1)))

ReplaceSpan(s, k, len, new) ==
  LET p == s.par
      lo == ShownAt(p)[k]
      hi == ShownAt(p)[k + len - 1]
      host == p[lo].ins
      together == \A i \in lo..hi : p[i].ins = host /\ p[i].del = None
      inside == host # None /\ Strikes(p, host) = {}
      marked == Splice(Strike(p, lo, hi, Ours(s.next)), hi + 1, hi, Written(new, Ours(s.next + 1)))
  IN CASE ~together -> {}
       [] together /\ inside /\ host.by = Us -> {Step(Splice(p, lo, hi, Written(new, host)), s.next)}
       [] together /\ (host = None \/ (inside /\ host.by # Us /\ hi = Highest(AtomsOf(p, host)))) ->
            InRange(Step(marked, s.next + (IF new = <<>> THEN 1 ELSE 2)))
       [] OTHER -> {}

ReplaceText(s, old, new) ==
  LET hits == Occurrences(Reading(s.par), old)
  IN IF Cardinality(hits) = 1 THEN UNION {ReplaceSpan(s, k, Len(old), new) : k \in hits} ELSE {}

(***************************************************************************)
(* replace_paragraph, mode "whole": every visible piece goes and the new   *)
(* text stands where the first piece was.                                  *)
(***************************************************************************)
\* Every insertion is ours and none of it is struck.
ValidateReplacementShape(p) ==
  \A r \in Insertions(p) : r.by = Us /\ Strikes(p, r) = {}

PlainRunsBefore(p, i) ==
  LET plain(j) == j >= 1 /\ p[j].ins = None /\ p[j].del = None
  IN Cardinality({j \in 1..i : plain(j) /\ ~plain(j - 1)})

ReplaceWhole(s, new) ==
  LET p == s.par
      shown == {i \in DOMAIN p : p[i].del = None}
      place == IF shown = {} THEN Len(p) + 1 ELSE Lowest(shown)
      struck == [i \in DOMAIN p |->
                   IF i \in shown /\ p[i].ins = None
                   THEN [p[i] EXCEPT !.del = Ours(s.next + PlainRunsBefore(p, i) - 1)] ELSE p[i]]
      next == s.next + PlainRunsBefore(p, Len(p))
      hidden == SelectSeq(SubSeq(struck, place, Len(p)), LAMBDA a : a.del # None)
  IN CASE shown # {} /\ \E r \in Insertions(p) : r.by = Us /\ \A i \in shown : p[i].ins = r ->
            ReplaceSpan(s, 1, Cardinality(shown), new)
       [] OTHER ->
            IF ValidateReplacementShape(p)
            THEN InRange(Step(SubSeq(struck, 1, place - 1) \o Written(new, Ours(next)) \o hidden,
                              next + (IF new = <<>> THEN 0 ELSE 1)))
            ELSE {}

(***************************************************************************)
(* replace_paragraph, mode "minimal": the hunks of a token diff, from      *)
(* right to left.                                                          *)
(***************************************************************************)
\* difflib's matching blocks: the longest common block, then left and right of it.
MatchedPairs(old, new, prefix, suffix) ==
  LET common(i, upto, j, end) ==
        Highest({n \in 0..(upto - i) : j + n <= end /\ SubSeq(old, i, i + n - 1) = SubSeq(new, j, j + n - 1)})
      match[i, upto \in 1..(Len(old) + 1), j, end \in 1..(Len(new) + 1)] ==
        LET starts == {<<x, y>> \in (i..(upto - 1)) \X (j..(end - 1)) : old[x] = new[y]}
            size(b) == common(b[1], upto, b[2], end)
            best == CHOOSE b \in starts : \A c \in starts :
                      \/ size(b) > size(c)
                      \/ size(b) = size(c) /\ (b[1] < c[1] \/ (b[1] = c[1] /\ b[2] <= c[2]))
        IN IF starts = {} THEN {}
           ELSE {<<best[1] + d, best[2] + d>> : d \in 0..(size(best) - 1)}
                \cup match[i, best[1], j, best[2]]
                \cup match[best[1] + size(best), upto, best[2] + size(best), end]
  IN match[prefix + 1, Len(old) + 1 - suffix, prefix + 1, Len(new) + 1 - suffix]
       \cup {<<i, i>> : i \in 1..prefix}
       \cup {<<Len(old) + 1 - i, Len(new) + 1 - i>> : i \in 1..suffix}

MinimalHunks(old, new) ==
  LET shorter == IF Len(old) <= Len(new) THEN Len(old) ELSE Len(new)
      prefix == Highest({n \in 0..shorter : SubSeq(old, 1, n) = SubSeq(new, 1, n)})
      suffix == Highest({n \in 0..(shorter - prefix) :
                  SubSeq(old, Len(old) + 1 - n, Len(old)) = SubSeq(new, Len(new) + 1 - n, Len(new))})
      pairs == MatchedPairs(old, new, prefix, suffix) \cup {<<0, 0>>, <<Len(old) + 1, Len(new) + 1>>}
      gaps == {<<a, b>> \in pairs \X pairs :
                 a[1] < b[1] /\ a[1] + a[2] + 2 < b[1] + b[2] /\ ~\E c \in pairs : a[1] < c[1] /\ c[1] < b[1]}
  IN {[from |-> g[1][1] + 1, upto |-> g[2][1] - 1, new |-> SubSeq(new, g[1][2] + 1, g[2][2] - 1)] : g \in gaps}

\* _insert_at: before the character shown at offset k, or after the last one.
InsertBefore(s, k, new) ==
  LET p == s.par
      shown == ShownAt(p)
      next == shown[IF k <= Len(shown) THEN k ELSE Len(shown)]
      place == IF shown = <<>> THEN Len(p) + 1 ELSE IF k <= Len(shown) THEN next ELSE next + 1
      own == shown # <<>> /\ p[next].ins # None
      put(ins) == Splice(p, place, place - 1, Written(new, ins))
  IN IF own THEN {Step(put(p[next].ins), s.next) : r \in {p[next].ins} \cap {x \in Insertions(p) : x.by = Us /\ Strikes(p, x) = {}}}
     ELSE IF shown = <<>> /\ ~ValidateReplacementShape(p) THEN {}
     ELSE InRange(Step(put(Ours(s.next)), s.next + 1))

\* The spans of one piece of text each, the last one first; the first span
\* receives the new text.
ReplaceHunk(s, hunk) ==
  LET p == s.par
      shown == ShownAt(p)
      starts == {k \in hunk.from..hunk.upto :
                   k = hunk.from \/ shown[k] # shown[k - 1] + 1 \/ p[shown[k]].ins # p[shown[k - 1]].ins}
      endOf(k) == IF \E m \in starts : m > k THEN Lowest({m \in starts : m > k}) - 1 ELSE hunk.upto
      apply(t, k) == ReplaceSpan(t, k, endOf(k) - k + 1, IF k = hunk.from THEN hunk.new ELSE <<>>)
      foreign == \E k \in hunk.from..hunk.upto : p[shown[k]].ins # None /\ p[shown[k]].ins.by # Us
  IN IF hunk.from > hunk.upto THEN InsertBefore(s, hunk.from, hunk.new)
     ELSE IF foreign THEN {}
     ELSE FoldLeft(LAMBDA S, k : UNION {apply(t, k) : t \in S}, {s},
                   SelectSeq([n \in 1..hunk.upto |-> hunk.upto + 1 - n], LAMBDA k : k \in starts))

ReplaceMinimal(s, new) ==
  LET hunks == MinimalHunks(Reading(s.par), new)
      rightToLeft == SortSeq(SetToSeq(hunks), LAMBDA a, b : a.from > b.from)
  IN FoldLeft(LAMBDA S, hunk : UNION {ReplaceHunk(t, hunk) : t \in S}, {s}, rightToLeft)

(***************************************************************************)
(* A batch of the drafting tool on one paragraph.  After every operation   *)
(* the paragraph must read as requested, each revision that is not an own  *)
(* insertion must hold what it held, and the only new revisions are those  *)
(* whose identifiers the operation took.                                   *)
(***************************************************************************)
DraftStep(s, op) ==
  CASE op.old = op.new -> {}
    [] op.old # op.new /\ op.kind = "replace_text" -> ReplaceText(s, op.old, op.new)
    [] OTHER -> IF op.old # Reading(s.par) THEN {}
                ELSE IF op.kind = "whole" THEN ReplaceWhole(s, op.new) ELSE ReplaceMinimal(s, op.new)

ReadingAfter(text, op) ==
  IF op.kind # "replace_text" THEN op.new
  ELSE LET k == CHOOSE h \in Occurrences(text, op.old) : TRUE
       IN SubSeq(text, 1, k - 1) \o op.new \o SubSeq(text, k + Len(op.old), Len(text))

Preserved(s, t, op) ==
  LET p == s.par
      q == t.par
  IN /\ Reading(q) = ReadingAfter(Reading(p), op)
     /\ \A r \in Revisions(p) : (r \in Insertions(p) /\ r.by = Us) \/ TextOf(q, r) = TextOf(p, r)
     /\ Revisions(q) \ Revisions(p) = {Ours(id) : id \in s.next..(t.next - 1)}

\* The paragraphs a batch can leave, and whether every check on the way held.
Drafts(p, ops) ==
  LET after(d, op) == {[step |-> t, verified |-> d.verified /\ Preserved(d.step, t, op)] : t \in DraftStep(d.step, op)}
  IN FoldLeft(LAMBDA S, op : UNION {after(d, op) : d \in S},
              {[step |-> Step(p, LargestId(p) + 1), verified |-> TRUE]}, ops)
=============================================================================
