------------------------------ MODULE Comments ------------------------------
(***************************************************************************)
(* A contract whose comments the sessions of several people work on, one   *)
(* operation after the other.  The file starts as Word left it; a refused  *)
(* operation changes nothing and is no step.                               *)
(***************************************************************************)
EXTENDS CommentThreads

CONSTANTS
  Received,        \* the packages, with their paragraph, that Word may hand over
  Texts,           \* the texts of comments
  MaxOperations    \* bound: operations taken

\* What Word hands over is well formed.  Every operation refuses a package that
\* cannot be read.
ASSUME ContractsAssumption ==
  \A r \in Received : IsPackage(r.package) /\ IsDocument(r.document) /\ Readable(r.package)

VARIABLES received, package, document, last, operations

vars == <<received, package, document, last, operations>>

Init ==
  /\ received \in Received
  /\ package = received.package /\ document = received.document
  /\ last = None
  /\ operations = 0

\* The operation asked for is remembered with the author of the session.
Perform(kind, author, c, outcomes) ==
  /\ operations < MaxOperations
  /\ \E left \in outcomes : package' = left.package /\ document' = left.document
  /\ last' = [kind |-> kind, author |-> author, comment |-> c]
  /\ operations' = operations + 1
  /\ UNCHANGED received

Quotes == LET text == Reading(document)
          IN {SubSeq(text, i, j) : i, j \in DOMAIN text} \ {<<>>}

Add(author) ==
  \E quote \in Quotes, text \in Texts :
    Perform("add", author, NewId(package, document), AddComment(package, document, quote, author, text))

Update(author) ==
  \E c \in DOMAIN package.comments, text \in Texts :
    Perform("update", author, c, UpdateComment(package, document, c, author, text))

Reply(author) ==
  \E c \in DOMAIN package.comments, text \in Texts :
    Perform("reply", author, c, ReplyComment(package, document, c, author, text))

Resolve(author) ==
  \E c \in DOMAIN package.comments, done \in BOOLEAN :
    Perform("resolve", author, c, SetResolved(package, document, c, done))

Delete(author) ==
  \E c \in DOMAIN package.comments :
    \/ Perform("delete", author, c, DeleteComment(package, document, c, author))
    \/ Perform("delete", author, c, DeleteReply(package, document, c, author))
    \/ Perform("delete", author, c, DeleteThread(package, document, c, author))

Next == \E author \in Authors : Add(author) \/ Update(author) \/ Reply(author) \/ Resolve(author) \/ Delete(author)

Spec == Init /\ [][Next]_vars

(***************************************************************************)
(* Properties.                                                             *)
(***************************************************************************)
\* The four places keep telling one story: the graph can be read, every reply
\* the tools wrote hangs on a root and quotes what its root quotes, no anchor
\* belongs to a message the tools took away, and no message takes over an anchor
\* that Word left behind (Orphans).  Messages of other programs may quote what
\* they like (Unlike).
Orphans == Anchored(received.document) \ DOMAIN received.package.comments
Unlike == {c \in DOMAIN received.package.comments : ~Quoted(received.package, received.document, c)}

ThreadsStayWhole ==
  LET g == package IN
  /\ Readable(g)
  /\ Anchored(document) \subseteq DOMAIN g.comments \cup Orphans
  /\ DOMAIN g.comments \cap Orphans = {}
  /\ \A c \in DOMAIN g.comments \ Unlike : Quoted(g, document, c)

\* What a reader sees of a message: the text with the anchors of the message, too.
Quote(doc, c) == Only(doc, {i \in DOMAIN doc : doc[i].tag = "text" \/ IsAnchor(doc[i], {c})})

Message(g, doc, c) ==
  [author |-> g.comments[c].author, text |-> g.comments[c].text, root |-> Root(g, c),
   parent |-> IF IsReply(g, c) THEN Parent(g, c) ELSE None, quote |-> Quote(doc, c)]

\* From g and doc to h and out by the operation op, for a message c that stays.
Unchanged(g, doc, h, out, op, c) ==
  Message(h, out, c) = IF op.kind = "update" /\ op.comment = c
                       THEN [Message(g, doc, c) EXCEPT !.text = h.comments[c].text]
                       ELSE Message(g, doc, c)

\* Its thread is resolved as it was, but for the thread the operation is about and
\* for what a part that was not there now leaves open.
StillResolved(g, h, op, c) ==
  \/ Resolved(h, c) = Resolved(g, c)
  \/ op.kind = "resolve" /\ Root(g, op.comment) = Root(g, c)
  \/ /\ Resolved(g, c) = None /\ Resolved(h, c) = FALSE
     /\ op.kind = "reply" /\ Root(g, op.comment) = Root(g, c)
  \/ "extended" \notin g.parts /\ Resolved(h, c) = None

\* From g and doc to h and out no more has changed than op asks for.
Local(g, doc, h, out, op) ==
  /\ Unanchored(out, Anchored(out)) = Unanchored(doc, Anchored(doc))
  /\ \A c \in DOMAIN g.comments \ DOMAIN h.comments : op.kind = "delete" /\ g.comments[c].author = op.author
  /\ \A c \in DOMAIN g.comments \cap DOMAIN h.comments :
       Unchanged(g, doc, h, out, op, c) /\ StillResolved(g, h, op, c)

\* An operation changes the message it names and no other: nobody's words,
\* thread or quotation move, no other thread is resolved or reopened, what
\* disappears was written by the author of the session, the text stays.
OperationsAreLocal == [][Local(package, document, package', document', last')]_vars

\* Nothing a session writes is there for good, in a contract without comments
\* the tools leave to Word (tasks, pictures, anchors in a header, replies that
\* quote what their root does not): whoever wrote
\* a whole thread can delete it, whoever wrote a reply nobody answered can delete
\* that, and a copy for the counterparty can be freed of all comments.
Withdrawable ==
  LET g == package
      answered(c) == \E d \in DOMAIN g.comments : IsReply(g, d) /\ Parent(g, d) = c
      bound == DOMAIN g.extended \subseteq Paras(g) /\ Anchored(document) \subseteq DOMAIN g.comments
      ordinary == /\ Writable(g) /\ g.elsewhere = {}
                  /\ \A c \in DOMAIN g.comments : g.comments[c].plain /\ Quoted(g, document, c)
  IN ordinary =>
       /\ \A c \in DOMAIN g.comments :
            LET mine == {g.comments[c].author} IN
            /\ Root(g, c) = c /\ Cardinality(Thread(g, c)) <= MaxSelected
                 /\ {g.comments[d].author : d \in Thread(g, c)} = mine =>
                 \A author \in mine : DeleteThread(g, document, c, author) # {}
            /\ IsReply(g, c) /\ ~answered(c) => \A author \in mine : DeleteReply(g, document, c, author) # {}
       /\ DOMAIN g.extended \ Paras(g) \subseteq
            DOMAIN received.package.extended \ Paras(received.package)
       /\ bound /\ Cardinality(DOMAIN g.comments) <= MaxSelected =>
                   \E left \in CommentCleanup(g, document, {Root(g, c) : c \in DOMAIN g.comments}) :
                     /\ DOMAIN left.package.comments = {} /\ Anchored(left.document) = {}
                     /\ DOMAIN left.package.extended \cup DOMAIN left.package.identities
                          \cup DOMAIN left.package.extensible = {}
=============================================================================
