----------------------------- MODULE RedlineText -----------------------------
(***************************************************************************)
(* One paragraph of a redlined contract, as the package's readers see it:  *)
(* a sequence of characters, each with the pending insertion and the       *)
(* pending deletion (if any) that hold it.  A revision is an identifier    *)
(* and an author; a w:ins or w:del element is a maximal run of characters  *)
(* of one revision, so a deletion inside an insertion is a counter to it.  *)
(* From apply.py (the current reading and its segments) and extract.py     *)
(* (the change units a document is reported as).                           *)
(***************************************************************************)
EXTENDS Naturals, FiniteSets, Sequences

CONSTANTS
  None,         \* no revision
  Chars,        \* the characters of the paragraph
  Authors,      \* the authors of tracked changes
  Us,           \* the author the tools write as
  MaxRevisionId \* MAX_REVISION_ID: the largest identifier a revision may get

ASSUME RedlineAssumption ==
  /\ Us \in Authors
  /\ MaxRevisionId \in Nat

Revision == [id : 1..MaxRevisionId, by : Authors]
Atom == [char : Chars, ins : Revision \cup {None}, del : Revision \cup {None}]

Written(text, ins) ==
  [k \in DOMAIN text |-> [char |-> text[k], ins |-> ins, del |-> None]]

TextAt(p, where) == [k \in DOMAIN where |-> p[where[k]].char]
Where(p, Held(_)) == SelectSeq([i \in DOMAIN p |-> i], LAMBDA i : Held(p[i]))

\* The current reading: every insertion taken, every deleted character hidden.
ShownAt(p) == Where(p, LAMBDA a : a.del = None)
Reading(p) == TextAt(p, ShownAt(p))

\* The wrapper that is a child of the paragraph itself, for a character in one.
Outer(a) == IF a.ins # None THEN a.ins ELSE a.del

Revisions(p) == UNION {{p[i].ins, p[i].del} : i \in DOMAIN p} \ {None}
Insertions(p) == {p[i].ins : i \in DOMAIN p} \ {None}
AtomsOf(p, r) == {i \in DOMAIN p : r \in {p[i].ins, p[i].del}}
Lowest(S) == CHOOSE i \in S : \A j \in S : i <= j
Highest(S) == CHOOSE i \in S : \A j \in S : j <= i

TextOf(p, r) == TextAt(p, Where(p, LAMBDA a : r \in {a.ins, a.del}))

Strikes(p, host) == {p[i].del : i \in {j \in DOMAIN p : p[j].ins = host}} \ {None}
Nested(p, r) == r \notin Insertions(p) /\ p[Lowest(AtomsOf(p, r))].ins # None

(* The paragraph's children around the characters lo..hi.                  *)
ChildBefore(p, lo) == IF lo = 1 THEN None ELSE Outer(p[lo - 1])
ChildAfter(p, hi) == IF hi = Len(p) THEN None ELSE Outer(p[hi + 1])

Strike(p, lo, hi, r) ==
  [i \in DOMAIN p |-> IF i \in lo..hi THEN [p[i] EXCEPT !.del = r] ELSE p[i]]
Splice(p, lo, hi, new) == SubSeq(p, 1, lo - 1) \o new \o SubSeq(p, hi + 1, Len(p))

Occurrences(text, part) ==
  {k \in 1..(Len(text) + 1) :
     /\ k + Len(part) <= Len(text) + 1
     /\ SubSeq(text, k, k + Len(part) - 1) = part}

LargestId(p) == Highest({0} \cup {r.id : r \in Revisions(p)})
Ours(id) == [id |-> id, by |-> Us]

(***************************************************************************)
(* Change units.  In the stream of wrappers a counter's strikes follow the *)
(* insertion they are nested in, kept apart from one another; wrappers of  *)
(* one author with nothing between them make one unit.                     *)
(***************************************************************************)
LastIn(p, r) ==
  IF Strikes(p, r) = {} THEN r ELSE p[Highest({i \in AtomsOf(p, r) : p[i].del # None})].del

Follows(p, r, s) ==
  /\ ~Nested(p, s)
  /\ LET before == ChildBefore(p, Lowest(AtomsOf(p, s)))
     IN before # None /\ r = LastIn(p, before) /\ r.by = s.by

UnitHead(p, r) ==
  LET head[s \in Revisions(p)] ==
        IF \E q \in Revisions(p) : Follows(p, q, s)
        THEN head[CHOOSE q \in Revisions(p) : Follows(p, q, s)]
        ELSE s
  IN head[r]

Unit(p, group) ==
  LET new == TextAt(p, Where(p, LAMBDA a : a.ins \in group))
      old == TextAt(p, Where(p, LAMBDA a : a.del \in group))
  IN [type |-> IF \E r \in group : Nested(p, r) THEN "counter"
               ELSE IF old = <<>> THEN "insert"
               ELSE IF new = <<>> THEN "delete" ELSE "replace",
      revisions |-> group, old |-> old, new |-> new]

Units(p) ==
  LET headOf == [r \in Revisions(p) |-> UnitHead(p, r)]
  IN {Unit(p, {r \in Revisions(p) : headOf[r] = h}) : h \in {headOf[r] : r \in Revisions(p)}}
=============================================================================
