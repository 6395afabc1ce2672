---------------------------- MODULE ListNumbering ----------------------------
(***************************************************************************)
(* paragraph_numbering.py and table_row_numbering.py: the labels of the    *)
(* paragraphs a structural change shows, before it and after it.  Only     *)
(* single-level decimal lists are proved; whatever else could move one of  *)
(* the labels is a refusal.  A story is what is known of the lists of all  *)
(* the paragraphs, in order; a label is a list and a value.                *)
(***************************************************************************)
EXTENDS BodyParagraphs

CONSTANTS
  Lists,         \* numbering instances: [abstract, start, restarts, style, proved]
  Styles,        \* paragraph styles: [based, list]
  DefaultStyle,  \* the style of a paragraph that names none
  DefaultList,   \* the list of the document defaults
  Unnamed,       \* no style, no list
  NotListed      \* the list 0: numbering taken away

StyleOf(p) == IF p.style = Unnamed THEN DefaultStyle ELSE p.style

\* A style, the one it is based on, and so on.
Ancestry(style) ==
  LET chain[n \in Nat] ==
        IF n = 0 THEN IF style = Unnamed THEN <<>> ELSE <<style>>
        ELSE LET shorter == chain[n - 1] IN
             IF Len(shorter) < n \/ Last(shorter) \notin DOMAIN Styles THEN shorter
             ELSE IF Styles[Last(shorter)].based = Unnamed THEN shorter
             ELSE Append(shorter, Styles[Last(shorter)].based)
  IN chain[Cardinality(DOMAIN Styles)]

\* The list of the closest style that says anything, or that of the defaults.
StyleFacts ==
  [style \in DOMAIN Styles \cup {Unnamed, DefaultStyle} |->
     LET chain == Ancestry(style)
         known == ToSet(chain) \subseteq DOMAIN Styles
         named == IF known THEN SelectSeq(chain, LAMBDA s : Styles[s].list # Inherit) ELSE <<>>
     IN [chain |-> ToSet(chain), known |-> known, list |-> IF named = <<>> THEN DefaultList ELSE Styles[named[1]].list]]

Facts(p) ==
  IF StyleOf(p) \in DOMAIN StyleFacts THEN StyleFacts[StyleOf(p)]
  ELSE [chain |-> {StyleOf(p)}, known |-> FALSE, list |-> DefaultList]

\* What is known of the list of a paragraph.  A pending mark, or a style that
\* nobody defines, proves nothing; an inherited list belongs to the style that
\* its level names.
EffectiveUnder(facts, p) ==
  LET list == IF p.list = Inherit THEN facts.list ELSE p.list
      linked == IF list \in DOMAIN Lists THEN Lists[list].style ELSE Unnamed
  IN [list |-> IF list = NotListed THEN Unnamed ELSE list,
      resolved |-> p.marks = <<>> /\ facts.known,
      fits |-> linked = Unnamed \/ facts.chain = {} \/ linked \in facts.chain \/ p.list # Inherit]

Effective(p) == EffectiveUnder(Facts(p), p)

ListsAt(story, I) == {story[i].list : i \in I} \ {Unnamed}

Proved(lists) == \A n \in lists : Lists[n].proved

\* The lists that share a definition with those of the paragraphs I.
Related(story, I) ==
  LET abstracts == {Lists[n].abstract : n \in ListsAt(story, I)}
  IN {n \in ListsAt(story, DOMAIN story) : Lists[n].abstract \in abstracts}

RelatedIsProved(story, I) ==
  ListsAt(story, I) # {} => Proved(ListsAt(story, I)) /\ \A i \in DOMAIN story : story[i].resolved

\* Mutant: a list may be returned to.
MutantBlocksAreClear(story, upto, abstract) == TRUE

\* The lists of one definition come in consecutive blocks, each after the first
\* with a restart of its own.
BlocksAreClear(story, upto, abstract) ==
  LET of == SelectSeq(SubSeq(story, 1, upto), LAMBDA e : e.list # Unnamed /\ Lists[e.list].abstract = abstract)
      same(i, j) == of[i].list = of[j].list
  IN /\ \A i, j, k \in DOMAIN of : i < j /\ j < k /\ same(i, k) => same(i, j)
     /\ \A i \in DOMAIN of : i > 1 /\ ~same(i, i - 1) => Lists[of[i].list].restarts

\* The labels of the paragraphs I, or none.
Resolve(story, I) ==
  LET needed == ListsAt(story, I)
      numbered == {i \in I : story[i].list # Unnamed}
      last == Max(numbered)
      value(i) == Lists[story[i].list].start + Cardinality({j \in 1..(i - 1) : story[j].list = story[i].list})
  IN IF /\ \A i \in I : story[i].resolved
        /\ Proved(needed)
        /\ numbered # {} =>
             /\ \A i \in 1..last : story[i].resolved
             /\ \A n \in needed : BlocksAreClear(story, last, Lists[n].abstract)
             /\ \A i \in 1..last : story[i].list \in needed => story[i].fits
     THEN {[i \in I |-> [list |-> story[i].list, value |-> IF i \in numbered THEN value(i) ELSE 0]]}
     ELSE {}

Effects(before, after, gone, shown) ==
  LET rank(i) == i - Cardinality({g \in gone : g < i})
  IN {[before |-> b, after |-> a, shown |-> shown] :
        <<b, a>> \in Resolve(before, shown) \X Resolve(after, {rank(i) : i \in shown \ gone})}

Followers(story, gone, related) ==
  {i \in DOMAIN story : i > Min(gone) /\ story[i].list \in related}

(* One paragraph, whose container is the paragraphs `container' of the story. *)
EffectsOfParagraph(before, after, k, container) ==
  LET near == {k - 1, k + 1} \cap container
      related == Related(before, {k})
  IN IF RelatedIsProved(before, {k}) /\ \A i \in near : before[i].resolved
     THEN Effects(before, after, {k},
                  {k} \cup {i \in near : before[i].list \in related \cup {Unnamed}}
                      \cup Followers(before, {k}, related))
     ELSE {}

(* The paragraphs of whole rows; `near' are those of the rows next to them *)
(* and `pending' those of rows with a pending mark of their own.           *)
CountersAreSettled(story, I, pending) ==
  LET related == Related(story, I)
      numbered == {i \in I : story[i].list \in related}
  IN /\ RelatedIsProved(story, I)
     /\ numbered # {} => \A i \in pending : i <= Max(numbered) => story[i].list \notin related

EffectsOfRows(before, after, gone, near, pending) ==
  LET related == Related(before, gone)
      shown == gone \cup {i \in near : before[i].list \in related \cup {Unnamed}} \cup Followers(before, gone, related)
      rank(i) == i - Cardinality({g \in gone : g < i})
  IN IF /\ gone \cap pending = {}
        /\ RelatedIsProved(before, gone) /\ \A i \in near : before[i].resolved
        /\ CountersAreSettled(before, shown, pending)
        /\ CountersAreSettled(after, {rank(i) : i \in shown \ gone}, {rank(i) : i \in pending})
     THEN Effects(before, after, gone, shown) ELSE {}

(***************************************************************************)
(* How Word numbers: the lists of one definition share a counter; a list   *)
(* that restarts sets it where it is used first.                           *)
(***************************************************************************)
WordValue(story, i) ==
  LET abstract(j) == IF story[j].list = Unnamed THEN Unnamed ELSE Lists[story[j].list].abstract
      uses == SelectSeq([j \in 1..i |-> j], LAMBDA j : abstract(j) = abstract(i))
      first(j) == \A m \in 1..(j - 1) : story[m].list # story[j].list
      starts(j) == j = uses[1] \/ (first(j) /\ Lists[story[j].list].restarts)
  IN FoldLeft(LAMBDA n, j : IF starts(j) THEN Lists[story[j].list].start ELSE n + 1, 0, uses)

WordLabel(story, i) ==
  IF story[i].list = Unnamed THEN [list |-> Unnamed, value |-> 0]
  ELSE [list |-> story[i].list, value |-> WordValue(story, i)]

\* What a change shows is what Word prints, before it and after it, and every
\* label that the change moves is shown.
TrueEffects(before, after, gone, effects) ==
  LET rank(i) == i - Cardinality({g \in gone : g < i})
      shown == effects.shown
  IN /\ \A i \in shown : effects.before[i] = WordLabel(before, i)
     /\ \A i \in shown \ gone : effects.after[rank(i)] = WordLabel(after, rank(i))
     /\ \A i \in DOMAIN before \ (shown \cup gone) :
          before[i].resolved => WordLabel(before, i) = WordLabel(after, rank(i))
=============================================================================
