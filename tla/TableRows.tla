------------------------------ MODULE TableRows ------------------------------
(***************************************************************************)
(* Whole rows of a two-column table (table_rows.py).  A row has the        *)
(* revisions of its mark, whether it repeats as a header, and one          *)
(* paragraph in each cell.  A document is                  *)
(* [paras, inCell, rows, settings]: the paragraphs of the container that is edited, which is the body or a      *)
(* cell, and the rows of the table that follows; settings is how the       *)
(* document is to be edited.                                               *)
(***************************************************************************)
EXTENDS ListNumbering, TLC

Cells == 1..2

AllParagraphs(d) == d.paras \o FlattenSeq([r \in DOMAIN d.rows |-> d.rows[r].cells])
Story(d) == LET ps == AllParagraphs(d) IN [i \in DOMAIN ps |-> Effective(ps[i])]
OfRows(d, R) == {Len(d.paras) + 2 * (r - 1) + c : r \in R \cap DOMAIN d.rows, c \in Cells}
\* Paragraphs and rows that no field holds.
InContext(d, K) == \E all \in {AllParagraphs(d)} : OutsideFields(all, K)
TableInContext(d) == InContext(d, OfRows(d, DOMAIN d.rows))

PendingRows(d) == {r \in DOMAIN d.rows : d.rows[r].marks # <<>>}

CleanRow(row) == ~row.header /\ row.marks = <<>> /\ \A c \in Cells : Plain(row.cells[c])
Texts(row) == [c \in Cells |-> Reading(row.cells[c])]
NoTexts == [c \in Cells |-> <<>>]

IsSeparator(d, r) ==
  /\ CleanRow(d.rows[r]) /\ Texts(d.rows[r]) = NoTexts
  /\ \E labels \in Resolve(Story(d), OfRows(d, {r})) : \A i \in DOMAIN labels : labels[i].list = Unnamed

\* Only a cell with text has a revision of its text.
Tracked(row, texts, kind, id) ==
  [row EXCEPT !.marks = <<Revision(kind, id, Us)>>,
              !.cells = [c \in Cells |-> [@[c] EXCEPT !.children = Written(texts[c], Revision(kind, id + c, Us))]]]

(***************************************************************************)
(* A structural unit: a row mark and every revision in the row.            *)
(***************************************************************************)
IsRowUnit(row) ==
  /\ Len(row.marks) = 1 /\ ~row.header
  /\ \A c \in Cells :
       /\ row.cells[c].marks = <<>>
       /\ \A x \in ToSet(row.cells[c].children) : ~IsMarker(x) /\ x.rev.kind = row.marks[1].kind

RowMembers(row) == ToSet(row.marks) \cup UNION {TextRevisions(row.cells[c]) : c \in Cells}

Keeping(row) == IF row.marks[1].kind = "ins" THEN "accept" ELSE "reject"
Dropping(row) == IF row.marks[1].kind = "ins" THEN "reject" ELSE "accept"

\* The rows after the decisions choice, a function on some of them.
Decided(d, choice) ==
  LET rows == d.rows
      kept == SelectSeq([r \in DOMAIN rows |-> r], LAMBDA r : r \in DOMAIN choice => choice[r] = Keeping(rows[r]))
      freed(row) == [row EXCEPT !.marks = <<>>, !.cells = [c \in Cells |-> Freed(@[c])]]
  IN [d EXCEPT !.rows = [i \in DOMAIN kept |-> IF kept[i] \in DOMAIN choice THEN freed(rows[kept[i]]) ELSE rows[kept[i]]]]

Shown(longer, shorter, R) ==
  EffectsOfRows(Story(longer), Story(shorter), OfRows(longer, R),
                OfRows(longer, {Min(R) - 1, Max(R) + 1}), OfRows(longer, PendingRows(longer)))

\* Where row r stands once the other decisions of the batch are made.
RankAmong(d, r, others) ==
  r - Cardinality({q \in DOMAIN others : q < r /\ others[q] # Keeping(d.rows[q])})

\* The other decided rows of the batch have their outcome in both views.
RowEffects(d, r, others) ==
  Shown(Decided(d, (r :> Keeping(d.rows[r])) @@ others), Decided(d, (r :> Dropping(d.rows[r])) @@ others),
        {RankAmong(d, r, others)})

RowDecisionIsSafe(d, r, choice) ==
  /\ IsRowUnit(d.rows[r])
  /\ Decided(d, choice).rows # <<>>
  /\ TableInContext(Decided(d, choice))
  /\ RowEffects(d, r, [q \in DOMAIN choice \ {r} |-> choice[q]]) # {}

(***************************************************************************)
(* insert_table_row, delete_table_row: a clause and, when asked, an empty  *)
(* separator row next to it.  A draft is a document with the rows that are *)
(* pending in it.                                                          *)
(***************************************************************************)
RowsInserted(d, op, id) ==
  LET clause == Tracked(d.rows[op.template], op.texts, "ins", id)
      separator == [s \in op.separator |-> Tracked(d.rows[s.row], NoTexts, "ins", id + 3)]
      first(s) == IF s.position = "before" THEN <<separator[s], clause>> ELSE <<clause, separator[s]>>
      added == IF op.separator = {} THEN <<clause>> ELSE first(CHOOSE s \in op.separator : TRUE)
      at == IF op.position = "before" THEN op.row - 1 ELSE op.row
  IN IF /\ CleanRow(d.rows[op.row]) /\ CleanRow(d.rows[op.template])
        /\ \A s \in op.separator : IsSeparator(d, s.row)
     THEN {[doc |-> [d EXCEPT !.rows = SubSeq(@, 1, at) \o added \o SubSeq(@, at + 1, Len(@))],
            rows |-> {at + i : i \in DOMAIN added}]}
     ELSE {}

RowsStruck(d, op, id) ==
  LET chosen == {op.row} \cup {s.row : s \in op.separator}
      struck(r) == Tracked(d.rows[r], Texts(d.rows[r]), "del", IF r = op.row THEN id ELSE id + 3)
  IN IF /\ CleanRow(d.rows[op.row]) /\ Texts(d.rows[op.row]) = op.texts
        /\ \A s \in op.separator : s.row \in {op.row - 1, op.row + 1} /\ IsSeparator(d, s.row)
        /\ Cardinality(chosen) < Len(d.rows)
     THEN {[doc |-> [d EXCEPT !.rows = [r \in DOMAIN @ |-> IF r \in chosen THEN struck(r) ELSE @[r]]],
            rows |-> chosen]}
     ELSE {}

DraftEffects(draft) ==
  Shown(Decided(draft.doc, [r \in draft.rows |-> Keeping(draft.doc.rows[r])]),
        Decided(draft.doc, [r \in draft.rows |-> Dropping(draft.doc.rows[r])]), draft.rows)

DraftRows(d, op, id) ==
  {draft \in IF op.kind = "insert_table_row" THEN RowsInserted(d, op, id) ELSE RowsStruck(d, op, id) :
     TableInContext(d) /\ DraftEffects(draft) # {}}
=============================================================================
