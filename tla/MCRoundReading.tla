--------------------------- MODULE MCRoundReading ---------------------------
(* The sessions TLC looks at: quiet ones, in which one call reads many       *)
(* folders and journals nobody changes, and busy ones, in which a few calls  *)
(* share one folder with everyone else.                                     *)
EXTENDS RoundReading, FiniteSetsExt

P(text, rejected) == [text |-> text, rejected |-> rejected]
H(at, label, title) == [at |-> at, label |-> label, title |-> title]
D(paras, sections, units) ==
    [paras |-> paras, sections |-> sections, units |-> units, complete |-> TRUE,
     readable |-> TRUE, extractable |-> TRUE]

MCContent ==
    [ plain   |-> D(<<P("A", "A")>>, <<H(1, "1", "T")>>, <<>>),
      edited  |-> D(<<P("B", "A")>>, <<H(1, "2", "T")>>, <<1>>),
      double  |-> D(<<P("A", "A"), P("A", "A")>>, <<>>, <<>>),
      mixed   |-> D(<<P("B", "A"), P("A", "A")>>, <<H(2, "none", "T")>>, <<1>>),
      locked  |-> D(<<P("A", "unavailable")>>, <<H(1, "1", "none")>>, <<1, 1>>),
      both    |-> [D(<<P("B", "B"), P("A", "B")>>, <<>>, <<2, 2>>) EXCEPT !.complete = FALSE],
      blank   |-> D(<<P(" ", "A"), P("B", " ")>>, <<>>, <<1, 2>>),
      kept    |-> D(<<P("A", "A"), P("B", "B")>>, <<H(1, "1", "T"), H(2, "2", "none")>>, <<>>),
      opaque  |-> [D(<<P("A", "B")>>, <<>>, <<1>>) EXCEPT !.extractable = FALSE],
      broken  |-> [D(<<>>, <<>>, <<>>) EXCEPT !.readable = FALSE] ]

MCLexical == <<>>
MCNames == <<"a", "b", "c">>
Folder(a, b, c) == [a |-> a, b |-> b, c |-> c]

Rec(source, resultSource, output, resultOutput, status, check, strength) ==
    [ tool |-> "apply_edits", source |-> source, resultSource |-> resultSource,
      output |-> output, resultOutput |-> resultOutput,
      status |-> status, check |-> check, strength |-> strength ]
Made(d, e) == Rec(d, d, e, e, "ok", "current", "matching")
MCApplyRecords == {Made("edited", "mixed"), Made("blank", "double")}

Session(kind, order, name, seed, start, records, sizes, many, changes) ==
    [ kind |-> kind, order |-> order, seedName |-> name, seed |-> seed,
      folder |-> start, journal |-> records, sizes |-> sizes,
      calls |-> many, changes |-> changes ]

(* Quiet maps: every graph of at most three derivations over four documents, *)
(* two of them in the folder, and one record with each mixture of facts.     *)
GraphDocs == {"plain", "edited", "mixed", "double"}
Graphs == UNION {kSubset(n, GraphDocs \X GraphDocs) : n \in 0 .. 3}
GraphJournals == {LET s == SetToSeq(g) IN [k \in DOMAIN s |-> Made(s[k][1], s[k][2])]
                    : g \in Graphs}
OneRecord ==
    {<<Rec(s, rs, o, ro, st, ch, str)>> :
       s \in {"plain", "none"}, rs \in {"plain", "mixed", "none"},
       o \in {"edited", "none"}, ro \in {"edited", "double", "none"},
       st \in {"ok", "error", "other"}, ch \in {"current", "legacy", "failed"},
       str \in {"none", "partial", "matching", "differing"}}
QuietMaps ==
    {Session("map", Lexical, "a", <<"plain", 1>>, Folder("plain", "edited", NoFile),
             j, {20}, 1, 0) : j \in GraphJournals} \cup
    {Session("map", Lexical, "a", <<"plain", 1>>, Folder("plain", "mixed", "both"),
             j, {20}, 1, 0) : j \in OneRecord} \cup
    {Session("map", Lexical, "a", <<d, i>>, Folder(d, e, f), <<Made(d, e)>>, {3, 5}, 4, 0) :
       d \in {"kept", "plain"}, i \in {1}, e \in {"kept", "double", "both"},
       f \in {"kept", "edited", "broken"}}

(* Quiet histories: every folder of three of these documents, every seed.    *)
HistoryDocs == {"plain", "edited", "double", "mixed", "locked", "both", "blank",
                "kept", "opaque"}
QuietHistories ==
    UNION {{Session("history", Lexical, "c", p, Folder(a, b, p[1]), <<>>, {3}, 1, 0) :
              a \in HistoryDocs, b \in HistoryDocs}
             : p \in UNION {ParagraphsOf(d) : d \in HistoryDocs}}

Busy ==
    {Session(how[1], how[2], "b", <<"edited", 1>>, Folder("plain", "edited", NoFile),
             <<Made("plain", "edited")>>, {how[3]}, how[4], 2) :
       how \in {<<"map", Lexical, 4, 2>>, <<"history", Lexical, 1, 2>>,
                <<"history", <<"a", "b">>, 1, 2>>}}

MCTasks == QuietMaps \cup QuietHistories \cup Busy
=============================================================================
