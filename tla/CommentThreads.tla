--------------------------- MODULE CommentThreads ---------------------------
(***************************************************************************)
(* _drafting_comments.py: the comments of a contract.  A comment is in     *)
(* four places that only identifiers tie together: its body in             *)
(* comments.xml, its anchors among the text, its thread entry in           *)
(* commentsExtended.xml (found by the identifier of the body's paragraph)  *)
(* and its durable identity in commentsIds.xml and                         *)
(* commentsExtensible.xml.  An operation reads them all, refuses a graph   *)
(* it cannot interpret, and writes the places it touches together.         *)
(***************************************************************************)
EXTENDS SequencesExt

CONSTANTS
  None,            \* no parent, no identifier, not known, not in an insertion
  Authors,         \* the names a session can be configured with
  MaxCommentId,    \* _MAX_ID: the largest identifier of a comment
  MaxSelected,     \* the messages one deletion may name
  ForeignParaIds   \* paragraph identifiers used in other parts of the package

ASSUME CommentAssumption ==
  /\ MaxCommentId \in Nat /\ MaxSelected \in Nat
  /\ ForeignParaIds \subseteq Nat /\ IsFiniteSet(ForeignParaIds)
  /\ None \notin Nat /\ None \notin BOOLEAN /\ None \notin Authors

Without(f, S) == [x \in (DOMAIN f) \ S |-> f[x]]
With(f, x, v) == [y \in (DOMAIN f) \cup {x} |-> IF y = x THEN v ELSE f[y]]

(***************************************************************************)
(* The thread graph.  g.comments: identifier -> body; g.extended:          *)
(* paragraph identifier -> [parent, done]; g.identities: paragraph         *)
(* identifier -> durable identifier; g.extensible: durable identifier ->   *)
(* whether the entry carries a payload of its own; g.parts: which of these *)
(* three the package has.  g.elsewhere: the comments with anchors in a     *)
(* header, footer or note.                                                 *)
(***************************************************************************)
IsTable(f) == f = [x \in DOMAIN f |-> f[x]] /\ DOMAIN f \subseteq Nat /\ IsFiniteSet(DOMAIN f)

IsBody(b) ==
  /\ b = [author |-> b.author, text |-> b.text, para |-> b.para, plain |-> b.plain]
  /\ b.para \in Nat \cup {None}

IsEntry(e) == e = [parent |-> e.parent, done |-> e.done] /\ e.parent \in Nat \cup {None}

IsPackage(g) ==
  /\ g = [parts |-> g.parts, comments |-> g.comments, extended |-> g.extended,
          identities |-> g.identities, extensible |-> g.extensible, elsewhere |-> g.elsewhere]
  /\ IsTable(g.comments) /\ IsTable(g.extended) /\ IsTable(g.identities) /\ IsTable(g.extensible)
  /\ \A c \in DOMAIN g.comments : IsBody(g.comments[c])
  /\ \A p \in DOMAIN g.extended : IsEntry(g.extended[p])
  /\ \A p \in DOMAIN g.identities : g.identities[p] \in Nat

Paras(g) == {g.comments[c].para : c \in DOMAIN g.comments} \ {None}
Owner(g, para) == CHOOSE c \in DOMAIN g.comments : g.comments[c].para = para
Entered(g, c) == g.comments[c].para \in DOMAIN g.extended
Entry(g, c) == g.extended[g.comments[c].para]
IsReply(g, c) == Entered(g, c) /\ Entry(g, c).parent # None
Parent(g, c) == Owner(g, Entry(g, c).parent)

\* As many steps up as there are messages: a root, unless replies run in a circle.
Above(g, c) == IF IsReply(g, c) THEN Parent(g, c) ELSE c
Upward(g, c) == LET up[n \in Nat] == IF n = 0 THEN c ELSE Above(g, up[n - 1]) IN up
Root(g, c) == Upward(g, c)[Cardinality(DOMAIN g.comments)]

\* _thread_metadata raises unless all of this holds.
Readable(g) ==
  /\ \A c, d \in DOMAIN g.comments :
       c # d => g.comments[c].para = None \/ g.comments[c].para # g.comments[d].para
  /\ \A p, q \in DOMAIN g.identities : p # q => g.identities[p] # g.identities[q]
  /\ \A p \in DOMAIN g.extended :
       g.extended[p].parent # None =>
         /\ p \in Paras(g)
         /\ g.extended[p].parent \in (Paras(g) \cap DOMAIN g.extended) \ {p}
  /\ \A c \in DOMAIN g.comments : ~IsReply(g, Root(g, c))

Thread(g, root) == {c \in DOMAIN g.comments : Root(g, c) = root}

\* The root's done flag; unknown when the part exists without an entry for it.
Resolved(g, c) ==
  LET root == Root(g, c)
  IN IF Entered(g, root) THEN Entry(g, root).done ELSE IF "extended" \in g.parts THEN None ELSE FALSE

\* _validate_thread_write_metadata
Writable(g) ==
  /\ \A d \in DOMAIN g.extensible : ~g.extensible[d]
  /\ DOMAIN g.extensible # {} => DOMAIN g.identities # {}

(***************************************************************************)
(* The anchors.  The paragraph is a sequence of pieces in the order of the *)
(* file: a shown character, a deleted one, an anchor of a comment, or the  *)
(* start of a pending insertion.  box is the author of the insertion that  *)
(* holds the piece, None in plain text.                                    *)
(***************************************************************************)
AnchorTags == {"start", "end", "reference"}
Anchor(tag, c, box) == [tag |-> tag, what |-> c, box |-> box]
IsAnchor(a, S) == a.tag \in AnchorTags /\ a.what \in S
AnchorsOf(doc, c) == {i \in DOMAIN doc : IsAnchor(doc[i], {c})}
Tagged(doc, c, tag) == {i \in AnchorsOf(doc, c) : doc[i].tag = tag}
Anchored(doc) == {doc[i].what : i \in {j \in DOMAIN doc : doc[j].tag \in AnchorTags}}

IsSequence(s) == s \in Seq({s[i] : i \in DOMAIN s})
IsPiece(a) == a = [tag |-> a.tag, what |-> a.what, box |-> a.box]
IsDocument(doc) ==
  /\ IsSequence(doc) /\ \A i \in DOMAIN doc : IsPiece(doc[i])
  /\ Anchored(doc) \subseteq Nat

\* The pieces at some of the places.
Only(s, places) == FlattenSeq([i \in DOMAIN s |-> IF i \in places THEN <<s[i]>> ELSE <<>>])

Shown(doc) == Only([i \in DOMAIN doc |-> i], {i \in DOMAIN doc : doc[i].tag = "text"})
Reading(doc) == [k \in DOMAIN Shown(doc) |-> doc[Shown(doc)[k]].what]

\* One reference, and at most one complete range.
Counted(doc, c) ==
  /\ Cardinality(Tagged(doc, c, "reference")) = 1
  /\ Cardinality(Tagged(doc, c, "start")) = Cardinality(Tagged(doc, c, "end"))
  /\ Cardinality(Tagged(doc, c, "start")) <= 1

Ordered(doc, c) ==
  \A s \in Tagged(doc, c, "start"), e \in Tagged(doc, c, "end"), r \in Tagged(doc, c, "reference") :
    s < e /\ e < r

\* In plain text or in a pending insertion of one of the given authors.
Supported(doc, c, authors) == \A i \in AnchorsOf(doc, c) : doc[i].box \in authors \cup {None}

Sound(doc, c, authors) == Counted(doc, c) /\ Ordered(doc, c) /\ Supported(doc, c, authors)

\* How much stands before a marker, all markers left out: the text and the
\* insertions entered so far.
Boundary(doc, i) == Cardinality({j \in 1..i : doc[j].tag \notin AnchorTags})

Quotation(doc, c) ==
  LET range == AnchorsOf(doc, c) \ Tagged(doc, c, "reference")
  IN {<<doc[i].tag, Boundary(doc, i)>> : i \in IF range = {} THEN AnchorsOf(doc, c) ELSE range}

\* An anchored message quotes what the root of its thread quotes.
Quoted(g, doc, c) ==
  AnchorsOf(doc, c) # {} =>
    Counted(doc, c) /\ Ordered(doc, c) /\ Quotation(doc, c) = Quotation(doc, Root(g, c))

(***************************************************************************)
(* Identifiers.                                                            *)
(***************************************************************************)
NewId(g, doc) == Max({0} \cup {c + 1 : c \in DOMAIN g.comments \cup Anchored(doc)})

\* Mutant: only the bodies are asked which paragraph identifiers are taken.
MutantParaPool(g) == Paras(g)
ParaPool(g) == Paras(g) \cup DOMAIN g.extended \cup DOMAIN g.identities \cup ForeignParaIds
DurablePool(g) == {g.identities[p] : p \in DOMAIN g.identities} \cup DOMAIN g.extensible
Unused(S) == Min((1..(Cardinality(S) + 1)) \ S)

\* The root's body and entry get what a thread needs: an identifier of its last
\* paragraph, and an entry under it.
EnsureThreadEntry(g, c) ==
  LET para == IF g.comments[c].para = None THEN Unused(ParaPool(g)) ELSE g.comments[c].para
      new == IF para \in DOMAIN g.extended THEN g.extended[para] ELSE [parent |-> None, done |-> FALSE]
  IN [parts |-> g.parts \cup {"extended"},
      comments |-> With(g.comments, c, [g.comments[c] EXCEPT !.para = para]),
      extended |-> With(g.extended, para, new),
      identities |-> g.identities, extensible |-> g.extensible, elsewhere |-> g.elsewhere]

(***************************************************************************)
(* The operations.  Each is the set of what it can leave, empty when it is *)
(* refused.                                                                *)
(***************************************************************************)
Left(g, doc) == [package |-> g, document |-> doc]
Body(author, text, para) == [author |-> author, text |-> text, para |-> para, plain |-> TRUE]

Occurrences(text, part) ==
  {k \in 1..(Len(text) + 1 - Len(part)) : SubSeq(text, k, k + Len(part) - 1) = part}

\* _quote_plan: the quote lies in runs of one container, nothing but markers
\* between them.
Quotable(doc, lo, hi, author) ==
  /\ \A i \in lo..hi : doc[i].tag \in AnchorTags \/ (doc[i].tag = "text" /\ doc[i].box = doc[lo].box)
  /\ doc[lo].box \in {None, author}

\* The range opens right before the quote and closes right after it.
Marked(doc, lo, hi, c) ==
  LET box == doc[lo].box
  IN FlattenSeq([i \in DOMAIN doc |->
       (IF i = lo THEN <<Anchor("start", c, box)>> ELSE <<>>) \o <<doc[i]>>
         \o (IF i = hi THEN <<Anchor("end", c, box), Anchor("reference", c, box)>> ELSE <<>>)])

AddComment(g, doc, quote, author, text) ==
  LET hits == Occurrences(Reading(doc), quote)
      c == NewId(g, doc)
      spans == {<<Shown(doc)[k], Shown(doc)[k + Len(quote) - 1]>> : k \in hits}
  IN IF Readable(g) /\ Cardinality(hits) = 1 /\ c <= MaxCommentId
     THEN {Left([g EXCEPT !.comments = With(@, c, Body(author, text, None))], Marked(doc, s[1], s[2], c)) :
             s \in {x \in spans : Quotable(doc, x[1], x[2], author)}}
     ELSE {}

UpdateComment(g, doc, c, author, text) ==
  IF Readable(g) /\ g.comments[c].author = author /\ g.comments[c].plain
  THEN {Left([g EXCEPT !.comments = With(@, c, [g.comments[c] EXCEPT !.text = text])], doc)} ELSE {}

\* _reply_anchor_plan: each anchor of the root is followed by one of the reply.
\* Mutant: the reply gets the range of the root, but no reference.
MutantMirrored(doc, root, reply) ==
  FlattenSeq([i \in DOMAIN doc |-> IF IsAnchor(doc[i], {root}) /\ doc[i].tag # "reference"
                                   THEN <<doc[i], [doc[i] EXCEPT !.what = reply]>> ELSE <<doc[i]>>])

Mirrored(doc, root, reply) ==
  FlattenSeq([i \in DOMAIN doc |-> IF IsAnchor(doc[i], {root})
                                   THEN <<doc[i], [doc[i] EXCEPT !.what = reply]>> ELSE <<doc[i]>>])

\* A reply goes to the root of the thread, whichever message it was asked for.
ReplyComment(g, doc, c, author, text) ==
  LET root == Root(g, c)
      base == EnsureThreadEntry(g, root)
      para == Unused(ParaPool(base))
      durable == Unused(DurablePool(base))
      reply == NewId(g, doc)
      known == "identities" \in g.parts
  IN IF /\ Readable(g) /\ Writable(g)
        /\ Resolved(g, root) # TRUE
        /\ reply <= MaxCommentId
        /\ Sound(doc, root, {author}) /\ root \notin g.elsewhere
     THEN {Left([parts |-> base.parts, elsewhere |-> base.elsewhere,
                 comments |-> With(base.comments, reply, Body(author, text, para)),
                 extended |-> With(base.extended, para,
                                   [parent |-> base.comments[root].para, done |-> FALSE]),
                 identities |-> IF known THEN With(g.identities, para, durable) ELSE g.identities,
                 extensible |-> IF known /\ "extensible" \in g.parts
                                THEN With(g.extensible, durable, FALSE) ELSE g.extensible],
                Mirrored(doc, root, reply))}
     ELSE {}

SetResolved(g, doc, c, done) ==
  LET root == Root(g, c)
      base == EnsureThreadEntry(g, root)
      para == base.comments[root].para
  IN IF Readable(g) /\ Writable(g)
     THEN {Left([base EXCEPT !.extended = With(@, para, [@[para] EXCEPT !.done = done])], doc)} ELSE {}

(***************************************************************************)
(* Deletions.                                                              *)
(***************************************************************************)
Unanchored(doc, S) == Only(doc, {i \in DOMAIN doc : ~IsAnchor(doc[i], S)})

\* Mutant: the durable identities of the messages stay behind.
MutantRemoved(g, S) ==
  LET paras == {g.comments[c].para : c \in S}
  IN [g EXCEPT !.comments = Without(@, S), !.extended = Without(@, paras)]

Removed(g, S) ==
  LET paras == {g.comments[c].para : c \in S}
      durables == {g.identities[p] : p \in paras \cap DOMAIN g.identities}
  IN [parts |-> g.parts, elsewhere |-> g.elsewhere,
      comments |-> Without(g.comments, S),
      extended |-> Without(g.extended, paras),
      identities |-> Without(g.identities, paras),
      extensible |-> Without(g.extensible, durables)]

\* delete_comment: only a message outside every thread.
DeleteComment(g, doc, c, author) ==
  IF /\ Readable(g)
     /\ g.comments[c].author = author
     /\ ~IsReply(g, c)
     /\ \A d \in DOMAIN g.comments : IsReply(g, d) => Parent(g, d) # c
     /\ c \notin g.elsewhere
     /\ Counted(doc, c)
  THEN {Left(Removed(g, {c}), Unanchored(doc, {c}))} ELSE {}

\* _delete_selected_messages: a reply may have no anchors, or its root's.
DeleteMessages(g, doc, S, authors) ==
  IF /\ Cardinality(S) <= MaxSelected
     /\ \A c \in S : g.comments[c].author \in authors /\ g.comments[c].plain
     /\ \A d \in (DOMAIN g.comments) \ S : IsReply(g, d) => Parent(g, d) \notin S
     /\ \A c \in S : {c, Root(g, c)} \cap g.elsewhere = {}
     /\ \A c \in S :
          IF IsReply(g, c)
          THEN /\ Sound(doc, Root(g, c), authors)
               /\ AnchorsOf(doc, c) # {} =>
                    Sound(doc, c, authors) /\ Quotation(doc, c) = Quotation(doc, Root(g, c))
          ELSE Sound(doc, c, authors)
     /\ Readable(Removed(g, S))
  THEN {Left(Removed(g, S), Unanchored(doc, S))} ELSE {}

DeleteReply(g, doc, c, author) ==
  IF Readable(g) /\ Writable(g) /\ IsReply(g, c) THEN DeleteMessages(g, doc, {c}, {author}) ELSE {}

\* The caller names every message of the thread, or is refused.
DeleteThread(g, doc, c, author) ==
  IF Readable(g) /\ Writable(g) /\ Root(g, c) = c
  THEN DeleteMessages(g, doc, Thread(g, c), {author}) ELSE {}

(***************************************************************************)
(* outgoing_cleanup.py: a copy for the counterparty without the comments   *)
(* of the chosen threads, whoever wrote them.                              *)
(***************************************************************************)
\* Every anchor and every entry belongs to a comment.
Closed(g, doc) ==
  /\ Anchored(doc) \subseteq DOMAIN g.comments
  /\ DOMAIN g.extended \cup DOMAIN g.identities \subseteq Paras(g)
  /\ DOMAIN g.extensible \subseteq {g.identities[p] : p \in DOMAIN g.identities}

CommentCleanup(g, doc, roots) ==
  LET S == UNION {Thread(g, r) : r \in roots}
  IN IF Readable(g) /\ Writable(g) /\ Closed(g, doc)
     THEN IF S = {} THEN {Left(g, doc)} ELSE DeleteMessages(g, doc, S, Authors) ELSE {}
=============================================================================
