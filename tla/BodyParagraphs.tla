--------------------------- MODULE BodyParagraphs ---------------------------
(***************************************************************************)
(* Whole paragraphs with track changes (_drafting_paragraphs.py,           *)
(* _paragraph_chain.py, _preserved_paragraph_boundaries.py).  The          *)
(* paragraphs of one container, the body or a table cell, are a sequence.  *)
(* Each has its style, the list it names itself (Inherit: none), its       *)
(* children and the pending revisions of its paragraph mark.  A child is a *)
(* character, with the revision it lies in, or an end of a range or of a   *)
(* field.                                                                  *)
(*                                                                         *)
(* A set of results that is empty stands for a refusal.                    *)
(***************************************************************************)
EXTENDS Naturals, Sequences, SequencesExt, FiniteSets, FiniteSetsExt

CONSTANTS Us, Inherit, Opens, Closes, Begins, Ends

NoRevision == [kind |-> "none", id |-> 0, by |-> Us]
Revision(kind, id, author) == [kind |-> kind, id |-> id, by |-> author]

Child(what, r) == [what |-> what, rev |-> r]
IsRangeEnd(c) == c.what \in {Opens, Closes}
IsFieldEnd(c) == c.what \in {Begins, Ends}
IsMarker(c) == IsRangeEnd(c) \/ IsFieldEnd(c)
Written(text, r) == [i \in DOMAIN text |-> Child(text[i], r)]

TextRevisions(p) == {c.rev : c \in ToSet(p.children)} \ {NoRevision}
RevisionsOf(p) == TextRevisions(p) \cup ToSet(p.marks)
Revisions(ps) == UNION {RevisionsOf(ps[k]) : k \in DOMAIN ps}

\* A deletion stays readable in the file but is not part of the reading.
Reading(p) ==
  LET shown == SelectSeq(p.children, LAMBDA c : ~IsMarker(c) /\ c.rev.kind # "del")
  IN [i \in DOMAIN shown |-> shown[i].what]

(***************************************************************************)
(* Ranges (a comment, a bookmark, a permission) that paragraphs must not   *)
(* be inserted into or removed from.                                       *)
(***************************************************************************)
ChildrenUpTo(ps, k) == FlattenSeq([j \in 1..k |-> ps[j].children])
RangeEnds(ps, k) == SelectSeq(ChildrenUpTo(ps, k), IsRangeEnd)

Balance(ends) ==
  FoldLeft(LAMBDA n, c : IF c.what \in {Opens, Begins} THEN n + 1 ELSE n - 1, 0, ends)

NoRangeOpenAfter(ps, k) == Balance(RangeEnds(ps, k)) = 0

(***************************************************************************)
(* Fields of the main story, which may span paragraphs.                    *)
(***************************************************************************)
FieldEnds(ps, k) == SelectSeq(ChildrenUpTo(ps, k), IsFieldEnd)

\* Neither in one of the paragraphs K nor around it, in a story that is well formed.
OutsideFields(ps, K) ==
  /\ \A k \in K : \A c \in ToSet(ps[k].children) : ~IsFieldEnd(c)
  /\ \A k \in K : Balance(FieldEnds(ps, k - 1)) = 0
  /\ LET ends == FieldEnds(ps, Len(ps)) IN
       Balance(ends) = 0 /\ \A n \in DOMAIN ends : Balance(SubSeq(ends, 1, n)) >= 0

(***************************************************************************)
(* insert_paragraph, delete_paragraph.                                     *)
(***************************************************************************)
\* Before an anchor with an inserted mark of one's own the anchor keeps it.
CanInherit(p, position) ==
  p.marks = <<>> \/ (position = "before" /\ Len(p.marks) = 1 /\ p.marks[1].kind = "ins" /\ p.marks[1].by = Us)

InsertParagraph(ps, k, position, text, id) ==
  LET mark == Revision("ins", id, Us)
      added == [ps[k] EXCEPT !.children = Written(text, Revision("ins", id + 1, Us)), !.marks = <<>>]
      results == IF position = "before"
                 THEN InsertAt(ps, k, [added EXCEPT !.marks = <<mark>>])
                 ELSE InsertAt([ps EXCEPT ![k].marks = <<mark>>], k + 1, added)
  IN IF /\ text # <<>>
        /\ NoRangeOpenAfter(ps, IF position = "before" THEN k - 1 ELSE k)
        /\ CanInherit(ps[k], position)
     THEN {results} ELSE {}

Plain(p) == p.marks = <<>> /\ \A c \in ToSet(p.children) : c.rev = NoRevision /\ ~IsMarker(c)

DeleteParagraph(ps, k, inCell, id) ==
  IF /\ ~inCell /\ k < Len(ps)
     /\ Reading(ps[k]) # <<>>
     /\ NoRangeOpenAfter(ps, k - 1) /\ NoRangeOpenAfter(ps, k + 1)
     /\ Plain(ps[k]) /\ Plain(ps[k + 1])
  THEN {[ps EXCEPT ![k].marks = <<Revision("del", id, Us)>>,
                   ![k].children = Written(Reading(ps[k]), Revision("del", id + 1, Us))]}
  ELSE {}

(***************************************************************************)
(* A structural unit: a mark and all of the text that came or goes with    *)
(* it, found by its shape.  An inserted mark belongs to the paragraph it   *)
(* ends or, for a paragraph inserted after it, to the one that follows.    *)
(***************************************************************************)
IsUnit(ps, k, content) ==
  LET mark == ps[k].marks[1]
      whole(p) == p.children # <<>> /\ \A c \in ToSet(p.children) : ~IsMarker(c) /\ c.rev.kind = mark.kind
  IN /\ Len(ps[k].marks) = 1 /\ k < Len(ps)
     /\ content \in IF mark.kind = "ins" THEN {k, k + 1} ELSE {k}
     /\ NoRangeOpenAfter(ps, k - 1) /\ NoRangeOpenAfter(ps, k + 1)
     /\ whole(ps[content])
     /\ \A j \in {k, k + 1} \ {content} : Plain([ps[j] EXCEPT !.marks = IF j = k THEN <<>> ELSE @])
     /\ ps[k + 1].marks = <<>>

UnitsAt(ps, k) == {[mark |-> k, content |-> c] : c \in {j \in {k, k + 1} : IsUnit(ps, k, j)}}

UnitMembers(ps, unit) == {ps[unit.mark].marks[1]} \cup TextRevisions(ps[unit.content])

Freed(p) == [p EXCEPT !.children = [i \in DOMAIN @ |-> [@[i] EXCEPT !.rev = NoRevision]]]

UnitOutcome(ps, unit, decision) ==
  LET marked == [ps EXCEPT ![unit.mark].marks = <<>>]
  IN IF (ps[unit.mark].marks[1].kind = "ins") # (decision = "accept")
     THEN RemoveAt(marked, unit.content)
     ELSE [marked EXCEPT ![unit.content] = Freed(@)]

(***************************************************************************)
(* A chain: all the marks of consecutive paragraphs of a cell, decided     *)
(* together when nothing but marks is pending; each segment that stays     *)
(* keeps the formatting of its last paragraph.                             *)
(***************************************************************************)
Component(ps, k) ==
  LET joined(i, j) == \A m \in i..(j - 1) : ps[m].marks # <<>>
  IN {j \in DOMAIN ps : IF j <= k THEN joined(j, k) ELSE joined(k, j)}

Closed(ps, C) == ps[Max(C)].marks = <<>>

\* Only whole ranges inside the component.
RangesInside(ps, C) ==
  /\ NoRangeOpenAfter(ps, Min(C) - 1) /\ NoRangeOpenAfter(ps, Max(C))

IsChain(ps, C, inCell) ==
  /\ inCell /\ Closed(ps, C) /\ Cardinality(C) > 1
  /\ RangesInside(ps, C)
  /\ \A k \in C : \A c \in ToSet(ps[k].children) : c.rev = NoRevision /\ ~IsFieldEnd(c)
  /\ \A k \in C : Len(ps[k].marks) <= 1 \/ ps[k].marks[1].kind # ps[k].marks[2].kind

ChainMarks(ps, C) == UNION {ToSet(ps[k].marks) : k \in C}

\* A paragraph with a mark that the decision removes is joined to the next one.
Stays(p, decision) == \A m \in ToSet(p.marks) : (m.kind = "ins") = (decision = "accept")

\* The segment that paragraph k ends.
Segment(ps, C, k, decision) == {j \in C : j <= k /\ \A m \in j..(k - 1) : ~Stays(ps[m], decision)}

ChildrenOf(ps, S) ==
  FoldLeft(LAMBDA s, k : IF k \in S THEN s \o ps[k].children ELSE s, <<>>, [k \in DOMAIN ps |-> k])

FormattedAs(segment) == Max(segment)

ChainOutcome(ps, C, decision) ==
  LET joined(k) == LET S == Segment(ps, C, k, decision)
                   IN [ps[FormattedAs(S)] EXCEPT !.marks = <<>>, !.children = ChildrenOf(ps, S)]
      kept == SelectSeq([k \in DOMAIN ps |-> k], LAMBDA k : k \in C => Stays(ps[k], decision))
  IN [i \in DOMAIN kept |-> IF kept[i] \in C THEN joined(kept[i]) ELSE ps[kept[i]]]

(***************************************************************************)
(* One text revision.  Next to a pending mark it is refused, unless the    *)
(* marks around it are explicitly kept, which needs a cell.                *)
(***************************************************************************)
\* Mutant: only a mark that ends the paragraph itself is looked at.
MutantNextToMark(ps, k) == ps[k].marks # <<>>
NextToMark(ps, k) == ps[k].marks # <<>> \/ (k > 1 /\ ps[k - 1].marks # <<>>)

PreservesMarks(ps, k, inCell) ==
  LET C == Component(ps, k) IN
  /\ inCell /\ Closed(ps, C) /\ ChainMarks(ps, C) # {}
  /\ \A j \in C : Len(ps[j].marks) <= 1 \/ ps[j].marks[1].kind # ps[j].marks[2].kind

TextOutcome(ps, k, r, decision) ==
  LET mine(c) == c.rev = r
      kept == IF (r.kind = "ins") = (decision = "accept") THEN ps[k].children
              ELSE SelectSeq(ps[k].children, LAMBDA c : ~mine(c))
  IN [ps EXCEPT ![k].children = [i \in DOMAIN kept |-> IF mine(kept[i]) THEN [kept[i] EXCEPT !.rev = NoRevision] ELSE kept[i]]]
=============================================================================
