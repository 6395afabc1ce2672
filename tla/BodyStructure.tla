---------------------------- MODULE BodyStructure ----------------------------
(***************************************************************************)
(* Structural drafting and decisions (drafting._prepare).  The operations  *)
(* of a batch are resolved on the document that was read, then carried out *)
(* one after the other; a batch is applied whole or not at all.            *)
(***************************************************************************)
EXTENDS TableRows

CONSTANTS
  Documents,                         \* as they were received
  NewTexts,                          \* what the i-th operation of a batch writes
  MaxSaves, MaxPairs, MaxParagraphs, MaxRows, MaxWritten   \* bounds

VARIABLES
  doc,     \* the document
  saves    \* how often it was saved

vars == <<doc, saves>>

Decisions == {"accept", "reject"}

AllRevisions(d) == Revisions(AllParagraphs(d)) \cup UNION {ToSet(d.rows[r].marks) : r \in DOMAIN d.rows}
NewId(d) == Max({0} \cup {r.id : r \in AllRevisions(d)}) + 1

(***************************************************************************)
(* What read_document_revisions offers to decide.                          *)
(***************************************************************************)
Units(d) ==
  LET at(k) == IF d.paras[k].marks = <<>> THEN {} ELSE UnitsAt(d.paras, k)
  IN UNION {IF Cardinality(at(k)) = 1 THEN at(k) ELSE {} : k \in DOMAIN d.paras}

NotNumbered(p) == Facts(p).known /\ Effective(p).list = Unnamed

\* Only on the first mark of a component, and when it is no unit.
Chains(d) ==
  LET first == {k \in DOMAIN d.paras : d.paras[k].marks # <<>> /\ (k > 1 => d.paras[k - 1].marks = <<>>)}
  IN {C \in {Component(d.paras, k) : k \in {j \in first : \A u \in Units(d) : u.mark # j}} :
        IsChain(d.paras, C, d.inCell) /\ \A k \in C : NotNumbered(d.paras[k])}

\* With the marks around it kept, each paragraph that they join is looked at.
TextIsOpen(d, k) ==
  /\ NextToMark(d.paras, k) => PreservesMarks(d.paras, k, d.inCell)
  /\ InContext(d, IF NextToMark(d.paras, k) THEN Component(d.paras, k) ELSE {k})

Target(kind, at, content, r) == [kind |-> kind, at |-> at, content |-> content, rev |-> r]

Targets(d) ==
  LET texts(k) == IF TextIsOpen(d, k) THEN TextRevisions(d.paras[k]) ELSE {} IN
  {Target("paragraph_structure", {u.mark, u.mark + 1}, u.content, NoRevision) : u \in Units(d)}
  \cup {Target("paragraph_chain", C, 0, NoRevision) : C \in Chains(d)}
  \cup UNION {{Target("text", {k}, k, r) : r \in texts(k)} : k \in DOMAIN d.paras}
  \cup {Target("row_structure", {r}, r, NoRevision) : r \in {q \in PendingRows(d) : IsRowUnit(d.rows[q])}}

Members(d, target) ==
  CASE target.kind = "paragraph_structure" -> UnitMembers(d.paras, [mark |-> Min(target.at), content |-> target.content])
    [] target.kind = "paragraph_chain" -> ChainMarks(d.paras, target.at)
    [] target.kind = "text" -> {target.rev}
    [] target.kind = "row_structure" -> RowMembers(d.rows[target.content])

(***************************************************************************)
(* The operations, as the i-th of a batch.                                 *)
(***************************************************************************)
Operations(d, i) ==
  LET clean == {r \in DOMAIN d.rows : CleanRow(d.rows[r])}
      blank == {r \in clean : Texts(d.rows[r]) = NoTexts}
      places == {"before", "after"}
      text == NewTexts[i]
      optional(S) == {{}} \cup {{s} : s \in S}
  IN [kind : {"insert_paragraph"}, para : DOMAIN d.paras, position : places, text : {text}]
     \cup [kind : {"delete_paragraph"}, para : DOMAIN d.paras]
     \cup [kind : {"insert_table_row"}, row : clean, position : places, template : clean \ blank, texts : {<<text, <<>>>>},
           separator : optional([row : blank, position : places])]
     \cup UNION {[kind : {"delete_table_row"}, row : {r}, texts : {Texts(d.rows[r])},
                  separator : optional([row : blank \ {r}])] : r \in clean}
     \cup [kind : {"decide_revision"}, target : Targets(d), decision : Decisions]

DraftsRow(op) == op.kind \in {"insert_table_row", "delete_table_row"}

\* What an operation occupies: whole paragraphs, rows, or one text revision.
Place(in, at, r) == [in |-> in, at |-> at, rev |-> r]

Domains(d, op) ==
  CASE op.kind = "insert_paragraph" -> {Place("paras", op.para, NoRevision)}
    [] op.kind = "delete_paragraph" -> {Place("paras", k, NoRevision) : k \in {op.para, op.para + 1}}
    [] DraftsRow(op) -> {Place("rows", r, NoRevision) : r \in DOMAIN d.rows}
    [] op.kind = "decide_revision" ->
         {Place(IF op.target.kind = "row_structure" THEN "rows" ELSE "paras", k, op.target.rev) : k \in op.target.at}

Overlap(a, b) ==
  a.in = b.in /\ a.at = b.at /\ (a.rev = NoRevision \/ b.rev = NoRevision \/ a.rev = b.rev)

\* Several paragraphs may be inserted at one anchor.
Conflict(d, op, other) ==
  /\ {op.kind, other.kind} # {"insert_paragraph"}
  /\ \E a \in Domains(d, op), b \in Domains(d, other) : Overlap(a, b)

(***************************************************************************)
(* Carrying out.  `para' and `row' say where the paragraphs and rows that  *)
(* were read stand now, `after' where the last one inserted after each.    *)
(***************************************************************************)
\* Mutant: an address is the position in the document that was read.
MutantMoved(place, from, n) == place
Moved(place, from, n) == [k \in DOMAIN place |-> IF place[k] > from THEN place[k] + n ELSE place[k]]

Grown(state, from, paras) ==
  LET n == Len(paras) - Len(state.doc.paras)
  IN [state EXCEPT !.doc.paras = paras, !.para = Moved(@, from, n), !.after = Moved(@, from, n)]

\* Ids are handed out once, whatever becomes of the revisions.
Numbered(state, n) == [state EXCEPT !.next = @ + n]

\* The paragraph that an operation names, apart from a pending mark of one's own.
DraftingContext(d, k) == CanInherit(d.paras[k], "before") /\ InContext(d, {k})

InsertedParagraph(state, op) ==
  LET chained == op.position = "after" /\ op.para \in DOMAIN state.after
      anchor == IF chained THEN state.after[op.para] ELSE state.para[op.para]
      from == IF op.position = "before" THEN anchor - 1 ELSE anchor
      grown(paras) == Grown(state, from, paras)
      noted(s) == IF op.position = "before" THEN s ELSE [s EXCEPT !.after = (op.para :> anchor + 1) @@ @]
  IN IF DraftingContext(state.doc, state.para[op.para])
     THEN {Numbered(noted(grown(paras)), 2) : paras \in InsertParagraph(state.doc.paras, anchor, op.position, op.text, state.next)}
     ELSE {}

UnitEffects(d, unit) ==
  LET kept == IF d.paras[unit.mark].marks[1].kind = "ins" THEN "accept" ELSE "reject"
      dropped == IF kept = "accept" THEN "reject" ELSE "accept"
      view(decision) == Story([d EXCEPT !.paras = UnitOutcome(@, unit, decision)])
  IN EffectsOfParagraph(view(kept), view(dropped), unit.content, DOMAIN d.paras)

\* Whatever is decided, the paragraphs that it leaves.
UnitInContext(d, unit) ==
  \A decision \in Decisions :
    LET paras == UnitOutcome(d.paras, unit, decision)
    IN InContext([d EXCEPT !.paras = paras], unit.mark..(unit.mark + 1 + Len(paras) - Len(d.paras)))

DecidedUnit(state, op) ==
  LET mark == state.para[Min(op.target.at)]
      unit == [mark |-> mark, content |-> mark + op.target.content - Min(op.target.at)]
      paras == state.doc.paras
  IN IF UnitInContext(state.doc, unit) /\ UnitEffects(state.doc, unit) # {}
     THEN {Grown(state, mark + 1, UnitOutcome(paras, unit, op.decision))} ELSE {}

\* What is struck must be such a unit, with its labels known.
StruckParagraph(state, op) ==
  LET k == state.para[op.para]
      decidable(d) == UnitInContext(d, [mark |-> k, content |-> k]) /\ UnitEffects(d, [mark |-> k, content |-> k]) # {}
      struck == {[state.doc EXCEPT !.paras = paras] : paras \in DeleteParagraph(state.doc.paras, k, state.doc.inCell, state.next)}
  IN IF DraftingContext(state.doc, k)
     THEN {Numbered([state EXCEPT !.doc = d], 2) : d \in {result \in struck : decidable(result)}} ELSE {}

DecidedChain(state, op) ==
  LET C == {state.para[k] : k \in op.target.at}
  IN IF InContext(state.doc, C) THEN {Grown(state, Max(C), ChainOutcome(state.doc.paras, C, op.decision))} ELSE {}

DecidedText(state, op) ==
  LET k == state.para[op.target.content]
  IN IF TextIsOpen(state.doc, k)
     THEN {[state EXCEPT !.doc.paras = TextOutcome(@, k, op.target.rev, op.decision)]} ELSE {}

RowChoice(batch) ==
  LET chosen == {op \in ToSet(batch) : op.kind = "decide_revision" /\ op.target.kind = "row_structure"}
  IN [r \in {op.target.content : op \in chosen} |-> (CHOOSE op \in chosen : op.target.content = r).decision]

\* `open' are the rows that the batch has still to decide.
DecidedRow(state, op, choice) ==
  LET source == op.target.content
      r == state.row[source]
      now == [q \in {state.row[p] : p \in state.open} |-> choice[CHOOSE p \in state.open : state.row[p] = q]]
      d == Decided(state.doc, r :> op.decision)
  IN IF RowDecisionIsSafe(state.doc, r, now)
     THEN {[state EXCEPT !.doc = d, !.row = Moved(@, r, Len(d.rows) - Len(state.doc.rows)), !.open = @ \ {source}]}
     ELSE {}

Performed(state, op, choice) ==
  CASE op.kind = "insert_paragraph" -> InsertedParagraph(state, op)
    [] op.kind = "delete_paragraph" -> StruckParagraph(state, op)
    [] DraftsRow(op) -> {Numbered([state EXCEPT !.doc = draft.doc], 6) : draft \in DraftRows(state.doc, op, state.next)}
    [] op.kind = "decide_revision" ->
         CASE op.target.kind = "paragraph_structure" -> DecidedUnit(state, op)
           [] op.target.kind = "paragraph_chain" -> DecidedChain(state, op)
           [] op.target.kind = "text" -> DecidedText(state, op)
           [] op.target.kind = "row_structure" -> DecidedRow(state, op, choice)

Start(d, batch) ==
  [doc |-> d, para |-> [k \in DOMAIN d.paras |-> k], row |-> [r \in DOMAIN d.rows |-> r], after |-> <<>>,
   open |-> DOMAIN RowChoice(batch), next |-> NewId(d)]

(***************************************************************************)
(* The settings: whether Word tracks changes (off, on, or declared twice), *)
(* restricted editing, or settings that are not understood.                *)
(***************************************************************************)
Unprotected(d) == d.settings \notin {"restricted", "unknown"}
EnableTracking(d, batch) ==
  CASE \A op \in ToSet(batch) : op.kind = "decide_revision" -> {d}
    [] OTHER -> IF d.settings = "twice" THEN {} ELSE {[d EXCEPT !.settings = "on"]}

Prepared(d, batch) ==
  LET then(S, op) == UNION {Performed(s, op, RowChoice(batch)) : s \in S}
  IN IF ~Unprotected(d) \/ \E i, j \in DOMAIN batch : i < j /\ Conflict(d, batch[i], batch[j]) THEN {}
     ELSE UNION {EnableTracking(s.doc, batch) : s \in FoldLeft(then, {Start(d, batch)}, batch)}

\* One operation or, as long as no more than MaxPairs saves have gone before, two.
Batches ==
  {<<op>> : op \in Operations(doc, 1)}
  \cup IF saves > MaxPairs THEN {} ELSE Operations(doc, 1) \X Operations(doc, 2)

Init == doc \in Documents /\ saves = 0

\* How much of ours the document holds.
WrittenIn(d) ==
  LET ps == AllParagraphs(d)
      children == FlattenSeq([i \in DOMAIN ps |-> ps[i].children])
  IN Len(SelectSeq(children, LAMBDA c : \E text \in ToSet(NewTexts) : c.what \in ToSet(text)))

Fits(d) ==
  /\ Len(d.paras) <= MaxParagraphs /\ Len(d.rows) <= MaxRows
  /\ WrittenIn(d) <= MaxWritten

Save(batch) ==
  /\ saves < MaxSaves
  /\ \E result \in Prepared(doc, batch) : Fits(result) /\ doc' = result
  /\ saves' = saves + 1

Next == \E batch \in Batches : Save(batch)

Spec == Init /\ [][Next]_vars

(***************************************************************************)
(* How Word reads a file with track changes.  A document is a sequence of  *)
(* characters and paragraph marks, each with the revisions it lies in; a   *)
(* decision removes items or clears them, and a mark carries the format of *)
(* its paragraph.  A row goes with its mark.                               *)
(***************************************************************************)
Item(what, revs, format) == [what |-> what, revs |-> revs \ {NoRevision}, format |-> format]

Items(p) ==
  Append([i \in DOMAIN p.children |-> Item(p.children[i].what, {p.children[i].rev}, <<>>)],
         Item("mark", ToSet(p.marks), <<p.style, p.list>>))

Flat(paras) == FlattenSeq([k \in DOMAIN paras |-> Items(paras[k])])

WordView(d) ==
  [body |-> Flat(d.paras),
   rows |-> [r \in DOMAIN d.rows |-> [revs |-> ToSet(d.rows[r].marks), items |-> Flat(d.rows[r].cells)]]]

WordDecides(view, decided) ==
  LET gone(revs) == \E r \in revs \cap DOMAIN decided : (r.kind = "del") = (decided[r] = "accept")
      left(seq) == SelectSeq(seq, LAMBDA x : ~gone(x.revs))
      clear(seq) == [i \in DOMAIN left(seq) |-> [left(seq)[i] EXCEPT !.revs = @ \ DOMAIN decided]]
      rows == clear(view.rows)
  IN [body |-> clear(view.body), rows |-> [r \in DOMAIN rows |-> [rows[r] EXCEPT !.items = clear(@)]]]

DecidedBy(d, batch) ==
  LET decisions == {op \in ToSet(batch) : op.kind = "decide_revision"}
  IN [r \in UNION {Members(d, op.target) : op \in decisions} |->
        (CHOOSE op \in decisions : r \in Members(d, op.target)).decision]

\* The format of the paragraph that goes is not that of the one that stays.
ReformatsAnchor(d, batch) ==
  \E op \in ToSet(batch) :
    /\ op.kind = "decide_revision" /\ op.target.kind = "paragraph_structure" /\ op.decision = "reject"
    /\ LET k == Min(op.target.at) IN
         /\ op.target.content = k + 1 /\ d.paras[k].marks[1].kind = "ins"
         /\ <<d.paras[k].style, d.paras[k].list>> # <<d.paras[k + 1].style, d.paras[k + 1].list>>

(***************************************************************************)
(* What was asked for: around each paragraph and row that was read, those  *)
(* that were written, in the order of the operations.                      *)
(***************************************************************************)
Whats(items) == [i \in DOMAIN items |-> items[i].what]

AskedParagraphs(d, batch) ==
  LET here(k, position) ==
        SelectSeq(batch, LAMBDA op : op.kind = "insert_paragraph" /\ op.para = k /\ op.position = position)
      written(ops) == FlattenSeq([i \in DOMAIN ops |-> Append(ops[i].text, "mark")])
      struck(k) == \E op \in ToSet(batch) : op.kind = "delete_paragraph" /\ op.para = k
  IN FlattenSeq([k \in DOMAIN d.paras |->
        written(here(k, "before")) \o (IF struck(k) THEN <<>> ELSE Whats(Items(d.paras[k]))) \o written(here(k, "after"))])

AskedRows(d, batch) ==
  LET here(r, position) ==
        SelectSeq(batch, LAMBDA op : op.kind = "insert_table_row" /\ op.row = r /\ op.position = position)
      cells(texts) == Append(texts[1], "mark") \o Append(texts[2], "mark")
      package(op) ==
        LET beside(position) == IF \E s \in op.separator : s.position = position THEN <<cells(NoTexts)>> ELSE <<>>
        IN beside("before") \o <<cells(op.texts)>> \o beside("after")
      written(ops) == FlattenSeq([i \in DOMAIN ops |-> package(ops[i])])
      struck(r) == \E op \in ToSet(batch) : op.kind = "delete_table_row" /\ r \in {op.row} \cup {s.row : s \in op.separator}
  IN FlattenSeq([r \in DOMAIN d.rows |->
        written(here(r, "before")) \o (IF struck(r) THEN <<>> ELSE <<Whats(Flat(d.rows[r].cells))>>) \o written(here(r, "after"))])

IsAsOrdered(d, batch, result) ==
  LET new == AllRevisions(result) \ AllRevisions(d)
      rejected == WordDecides(WordView(result), [r \in new |-> "reject"])
      accepted == WordDecides(WordView(result), [r \in new |-> "accept"])
  IN /\ ReformatsAnchor(d, batch) \/ rejected = WordDecides(WordView(d), DecidedBy(d, batch))
     /\ (\A op \in ToSet(batch) : op.kind # "decide_revision") =>
          /\ Whats(accepted.body) = AskedParagraphs(d, batch)
          /\ [r \in DOMAIN accepted.rows |-> Whats(accepted.rows[r].items)] = AskedRows(d, batch)

(* Each batch does what Word does when it takes the decisions of the batch,  *)
(* and proposes exactly what the operations asked for: with the proposals    *)
(* rejected nothing else has changed, with the proposals accepted the        *)
(* paragraphs and rows stand where they were asked for.                      *)
BatchesAreWords ==
  \A batch \in Batches : \A result \in Prepared(doc, batch) : IsAsOrdered(doc, batch, result)

(* In the body a paragraph of ours is proposed as a whole: its mark is       *)
(* pending for as long as its text is.  No proposal lies in a field, which   *)
(* Word would write over, and where there is one Word tracks what follows.   *)
ProposalsStayWhole ==
  LET ours(revs) == {r \in revs : r.by = Us}
      marks == ours(UNION {ToSet(doc.paras[k].marks) : k \in DOMAIN doc.paras})
      texts == ours(UNION {TextRevisions(doc.paras[k]) : k \in DOMAIN doc.paras})
      all == AllParagraphs(doc)
  IN /\ ~doc.inCell => {r.id + 1 : r \in marks} = {r.id : r \in texts}
     /\ LET held == {k \in DOMAIN all : ours(RevisionsOf(all[k])) # {}} IN held # {} => InContext(doc, held)
     /\ ours(AllRevisions(doc)) # {} => doc.settings = "on"

(* The labels that are shown before a structural decision or a row draft are *)
(* those that Word prints, before and after it, and no other label moves.    *)
NumberingIsWords ==
  /\ \A u \in Units(doc) : \A e \in UnitEffects(doc, u) :
       LET view(decision) == Story([doc EXCEPT !.paras = UnitOutcome(@, u, decision)])
           kept == IF doc.paras[u.mark].marks[1].kind = "ins" THEN "accept" ELSE "reject"
       IN TrueEffects(view(kept), view(CHOOSE x \in Decisions : x # kept), {u.content}, e)
  /\ LET units == {r \in PendingRows(doc) : IsRowUnit(doc.rows[r])} IN
     \A R \in SUBSET units : \A r \in units \ R : \A others \in [R -> Decisions] : \A e \in RowEffects(doc, r, others) :
       LET view(decision) == Decided(doc, (r :> decision) @@ others)
       IN TrueEffects(Story(view(Keeping(doc.rows[r]))), Story(view(Dropping(doc.rows[r]))),
                      OfRows(view(Keeping(doc.rows[r])), {RankAmong(doc, r, others)}), e)
=============================================================================
