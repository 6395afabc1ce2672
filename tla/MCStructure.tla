----------------------------- MODULE MCStructure -----------------------------
EXTENDS BodyStructure

MCLists ==
  "n" :> [abstract |-> "a", start |-> 1, restarts |-> FALSE, style |-> "Clause", proved |-> TRUE]
  @@ "m" :> [abstract |-> "a", start |-> 5, restarts |-> TRUE, style |-> "none", proved |-> TRUE]
  @@ "u" :> [abstract |-> "b", start |-> 1, restarts |-> FALSE, style |-> "none", proved |-> FALSE]
MCStyles ==
  "Body" :> [based |-> "none", list |-> "inherit"] @@ "Clause" :> [based |-> "Body", list |-> "n"]

Them(kind, id) == Revision(kind, id, "them")
Para(style, list, text) == [style |-> style, list |-> list, children |-> Written(text, NoRevision), marks |-> <<>>]
Pending(p, mark) == [p EXCEPT !.marks = Append(@, mark)]
In(p, r) == [p EXCEPT !.children = Written(Reading(p), r)]
Row(left, right) == [marks |-> <<>>, header |-> FALSE, cells |-> <<left, right>>]
Body(paras) == [paras |-> paras, inCell |-> FALSE, rows |-> <<>>, settings |-> "off"]

Clause(text) == Para("Clause", "inherit", text)
Plainly(text) == Para("none", "inherit", text)

\* Numbered clauses; one of theirs is inserted after the first.
Clauses ==
  Body(<<Pending(Clause(<<"a">>), Them("ins", 1)), In(Para("Body", "n", <<"b">>), Them("ins", 2)), Clause(<<"c">>),
         Plainly(<<"d">>)>>)

\* A deletion of theirs, a restarted list and a range.
Restarted ==
  Body(<<Pending(In(Clause(<<"a">>), Them("del", 2)), Them("del", 1)), Para("none", "m", <<"b">>),
         [Para("Body", "m", <<"c">>) EXCEPT !.children = <<Child("open", NoRevision)>> \o @ \o <<Child("close", NoRevision)>>],
         In(Plainly(<<"d">>), Them("ins", 3))>>)

\* A cell with a chain of marks, and one text of theirs.
Chained ==
  [Body(<<Pending(Plainly(<<"a">>), Them("ins", 1)), Pending(Para("Body", "inherit", <<"b">>), Them("del", 2)),
          In(Plainly(<<"c">>), Them("ins", 3))>>) EXCEPT !.inCell = TRUE]
Marked ==
  [Body(<<Pending(Pending(Plainly(<<"a">>), Them("ins", 1)), Them("del", 2)), Pending(Para("Body", "inherit", <<"b">>), Them("ins", 3)),
          Para("Body", "0", <<"c">>)>>) EXCEPT !.inCell = TRUE]

Table ==
  [Body(<<Clause(<<"a">>)>>) EXCEPT !.rows =
     <<[Row(Plainly(<<"h">>), Plainly(<<"h">>)) EXCEPT !.header = TRUE],
       Row(Clause(<<"b">>), Plainly(<<"c">>)), Row(Plainly(<<>>), Plainly(<<>>)),
       [Row(In(Clause(<<"d">>), Them("ins", 2)), Plainly(<<>>)) EXCEPT !.marks = <<Them("ins", 1)>>]>>]
Struck ==
  [Body(<<Plainly(<<"a">>)>>) EXCEPT !.rows =
     <<[Row(In(Clause(<<"b">>), Them("del", 2)), In(Plainly(<<"b">>), Them("del", 3))) EXCEPT !.marks = <<Them("del", 1)>>],
       [Row(Plainly(<<>>), Plainly(<<>>)) EXCEPT !.marks = <<Them("ins", 4)>>],
       Row(Para("none", "m", <<"b">>), Plainly(<<"c">>))>>]

\* A field of two paragraphs, with a text of theirs in it and one before it.
From(p) == [p EXCEPT !.children = <<Child("begin", NoRevision)>> \o @]
Upto(p) == [p EXCEPT !.children = @ \o <<Child("end", NoRevision)>>]
Fielded ==
  Body(<<Plainly(<<"a">>), In(Plainly(<<"b">>), Them("ins", 1)), From(In(Plainly(<<"c">>), Them("ins", 2))), Upto(Plainly(<<"d">>))>>)

\* Around a proposed paragraph; with a table after it.
Around ==
  [Body(<<From(Plainly(<<"a">>)), Pending(In(Plainly(<<"b">>), Them("ins", 2)), Them("ins", 1)), Plainly(<<"c">>), Upto(Plainly(<<>>))>>)
     EXCEPT !.rows = <<Row(Plainly(<<"d">>), Plainly(<<>>)), Row(Plainly(<<>>), Plainly(<<>>))>>]

\* Never closed, in one cell of a table, and across its rows.
Unclosed == Body(<<Plainly(<<"a">>), From(Plainly(<<"b">>))>>)
InTable ==
  [Body(<<Plainly(<<"a">>), Plainly(<<"b">>)>>) EXCEPT !.rows =
     <<Row(Upto(From(Plainly(<<"c">>))), Plainly(<<>>)),
       [Row(In(Plainly(<<"d">>), Them("ins", 2)), Plainly(<<>>)) EXCEPT !.marks = <<Them("ins", 1)>>]>>]
Across ==
  [Body(<<Plainly(<<"a">>), Plainly(<<"b">>)>>) EXCEPT !.rows =
     <<Row(From(Plainly(<<"c">>)), Plainly(<<>>)), Row(Plainly(<<"d">>), Plainly(<<>>)), Row(Plainly(<<>>), Upto(Plainly(<<"e">>)))>>]

With(settings) == [Body(<<Pending(In(Plainly(<<"a">>), Them("ins", 2)), Them("ins", 1)), Plainly(<<"b">>)>>) EXCEPT !.settings = settings]

MCDocuments ==
  {Clauses, Restarted, Chained, Marked, Table, Struck, Fielded, Around, Unclosed, InTable, Across}
  \cup {With(settings) : settings \in {"on", "twice", "restricted", "unknown"}}
MCNewTexts == <<<<"x">>, <<"y">>>>
=============================================================================
