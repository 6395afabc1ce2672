------------------------------- MODULE MCTools -------------------------------
EXTENDS ToolCalls

MCDrafts == {"first", "second"}
MCSays(d) == IF d = "first" THEN {"fee", "term"} ELSE {"fee"}
MCSaid(d) == IF d = "first" THEN {"fee", "law"} ELSE {"fee"}
MCFirst(p) == IF p = "draft" THEN Saved("first") ELSE None
MCListing == <<"draft", "reply">>
MCQuotes == {[wording |-> "law", verbatim |-> TRUE]}
MCAuthor(s) == s
MCBuild(s) == "build"

MCUnprovable(doc, batch) == batch[1].new = None /\ doc.batches # <<>>

MCChanges ==
  {<<[old |-> "fee", new |-> "cap"], [old |-> None, new |-> "law"]>>,
   <<[old |-> "fee", new |-> None], [old |-> "fee", new |-> None]>>,
   <<[old |-> "fee", new |-> None]>>}
=============================================================================
