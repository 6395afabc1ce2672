----------------------------- MODULE MCComments -----------------------------
EXTENDS Comments

Piece(tag, what, box) == [tag |-> tag, what |-> what, box |-> box]
Said(author, para) == [author |-> author, text |-> "t", para |-> para, plain |-> TRUE]
Known(parent, done) == [parent |-> parent, done |-> done]

\* No comment yet; the second character is pending in their insertion.
Uncommented ==
  [package |-> [parts |-> {}, comments |-> <<>>, extended |-> <<>>, identities |-> <<>>, extensible |-> <<>>,
                elsewhere |-> {}],
   document |-> <<Piece("text", "a", None), Piece("insertion", None, "them"), Piece("text", "b", "them"),
                  Piece("text", "a", None)>>]

\* A classic comment of theirs, an anchor of a comment that has no body, and an
\* entry of commentsExtended.xml that has none.
Untidy ==
  [package |-> [parts |-> {"extended"}, comments |-> 6 :> Said("them", None), extended |-> 1 :> Known(None, TRUE),
                identities |-> <<>>, extensible |-> <<>>, elsewhere |-> {}],
   document |-> <<Piece("start", 6, None), Piece("text", "a", None), Piece("end", 6, None),
                  Piece("reference", 6, None), Piece("struck", "x", None), Piece("text", "b", None),
                  Piece("reference", 7, None)>>]

\* A modern thread: their root, our reply to it, their reply to ours with no
\* anchors.
Modern ==
  [package |-> [parts |-> {"extended", "identities", "extensible"},
                comments |-> 0 :> Said("them", 2) @@ 1 :> Said("us", 3) @@ 2 :> Said("them", 4),
                extended |-> 2 :> Known(None, FALSE) @@ 3 :> Known(2, FALSE) @@ 4 :> Known(3, FALSE),
                identities |-> 2 :> 1 @@ 3 :> 2 @@ 4 :> 3,
                extensible |-> 1 :> FALSE @@ 3 :> FALSE, elsewhere |-> {}],
   document |-> <<Piece("start", 0, None), Piece("start", 1, None), Piece("text", "a", None),
                  Piece("end", 0, None), Piece("end", 1, None), Piece("reference", 0, None),
                  Piece("reference", 1, None), Piece("insertion", None, "us"), Piece("text", "b", "us")>>]

\* A comment of ours with a task attached, and one anchored in a header.
Attached ==
  [package |-> [parts |-> {"extended", "identities", "extensible"},
                comments |-> 0 :> Said("us", 1) @@ 1 :> [Said("us", None) EXCEPT !.plain = FALSE],
                extended |-> 1 :> Known(None, FALSE), identities |-> 1 :> 1, extensible |-> 1 :> TRUE,
                elsewhere |-> {1}],
   document |-> <<Piece("text", "a", None), Piece("reference", 0, None), Piece("text", "b", None),
                  Piece("reference", 1, None)>>]

\* A thread of another program: the reply, of ours, quotes what its root does not.
Foreign ==
  [package |-> [parts |-> {"extended"}, comments |-> 0 :> Said("them", 2) @@ 1 :> Said("us", 3),
                extended |-> 2 :> Known(None, FALSE) @@ 3 :> Known(2, FALSE),
                identities |-> <<>>, extensible |-> <<>>, elsewhere |-> {}],
   document |-> <<Piece("start", 0, None), Piece("text", "a", None), Piece("end", 0, None),
                  Piece("reference", 0, None), Piece("text", "b", None), Piece("reference", 1, None)>>]

MCReceived == {Uncommented, Untidy, Modern, Attached, Foreign}
=============================================================================
