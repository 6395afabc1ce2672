------------------------- MODULE RoundReadingProofs -------------------------
(***************************************************************************)
(* For every folder, journal, number of files and number of changes: the    *)
(* pages of a session are one result, a cursor dies only of a change to what *)
(* it is about, and a paragraph history is the folder at one moment.        *)
(*                                                                         *)
(* First the data: numbers, finite sets, sequences, the rounds in which a    *)
(* map's documents are found, and that the complete map is a sequence.  Then *)
(* the three invariants, each with the state it needs.                      *)
(***************************************************************************)
EXTENDS RoundReading, FiniteSetTheorems, TLAPS

\* A non-empty set of numbers has a least one.
LEMMA LeastExists ==
  ASSUME NEW S \in SUBSET Nat, S # {}
  PROVE  \E x \in S : \A y \in S : x <= y
  <1> DEFINE R == OpToRel(<, Nat)
  <1>1. \A T : (T \subseteq Nat /\ T # {}) => \E x \in T : \A y \in T : <<y, x>> \notin R
    BY NatLessThanWellFounded, WFMin
  <1>2. PICK x \in S : \A y \in S : <<y, x>> \notin R
    BY <1>1, Zenon
  <1>3. ASSUME NEW y \in S PROVE x <= y
    <2>1. CASE y < x
      <3>1. <<y, x>> \in Nat \X Nat
        OBVIOUS
      <3> QED
        BY <1>2, <2>1, <3>1 DEF OpToRel
    <2> QED
      BY <2>1
  <1> QED
    BY <1>2, <1>3

\* A bounded one has a greatest one.
LEMMA GreatestExists ==
  ASSUME NEW S \in SUBSET Nat, S # {}, NEW b \in Nat, \A x \in S : x <= b
  PROVE  \E x \in S : \A y \in S : y <= x
  <1> DEFINE T == {b - x : x \in S}
  <1>1. T \in SUBSET Nat /\ T # {}
    <2>1. \A x \in S : x \in Nat /\ x <= b /\ b - x \in Nat
      OBVIOUS
    <2> QED
      BY <2>1
  <1>2. PICK z \in T : \A y \in T : z <= y
    BY <1>1, LeastExists
  <1>3. PICK x \in S : z = b - x
    OBVIOUS
  <1>4. ASSUME NEW y \in S PROVE y <= x
    <2>1. b - y \in T
      OBVIOUS
    <2>2. b - x <= b - y
      BY <1>2, <1>3, <2>1
    <2> QED
      BY <2>2
  <1> QED
    BY <1>4

\* Induction over the numbers, for a set of them.
LEMMA NatSet ==
  ASSUME NEW S, 0 \in S, \A n \in Nat : n \in S => n + 1 \in S
  PROVE  Nat \subseteq S
  <1> SUFFICES ASSUME Nat \ S # {} PROVE FALSE
    OBVIOUS
  <1>1. PICK x \in Nat \ S : \A y \in Nat \ S : x <= y
    <2> DEFINE T == Nat \ S
    <2>1. T \in SUBSET Nat /\ T # {}
      OBVIOUS
    <2> HIDE DEF T
    <2>2. \E x \in T : \A y \in T : x <= y
      BY <2>1, LeastExists
    <2> QED
      BY <2>2 DEF T
  <1>2. x # 0 /\ x - 1 \in Nat /\ x - 1 \in S
    <2>1. x \in Nat /\ x # 0
      OBVIOUS
    <2>2. x - 1 \in Nat /\ ~ (x <= x - 1)
      BY <2>1
    <2> QED
      BY <2>1, <2>2, <1>1
  <1>3. (x - 1) + 1 = x
    BY <1>2
  <1> QED
    BY <1>2, <1>3

-----------------------------------------------------------------------------
\* The values of a function on a finite set are finitely many.
LEMMA FiniteImage ==
  ASSUME NEW f, IsFiniteSet(DOMAIN f), f \in [DOMAIN f -> {f[x] : x \in DOMAIN f}]
  PROVE  IsFiniteSet({f[x] : x \in DOMAIN f})
  <1> DEFINE S == DOMAIN f
             T == {f[x] : x \in DOMAIN f}
  <1>1. f \in Surjection(S, T)
    BY DEF Surjection
  <1> QED
    BY <1>1, FS_Surjection

\* The library's facts in the form they are used in here.
LEMMA FiniteUnion ==
  ASSUME NEW S, NEW T, IsFiniteSet(S), IsFiniteSet(T)
  PROVE  IsFiniteSet(S \cup T)
  BY FS_Union

LEMMA FinitePart ==
  ASSUME NEW S, NEW T, IsFiniteSet(S), T \subseteq S
  PROVE  IsFiniteSet(T)
  BY FS_Subset

\* The listing of a finite set is a sequence of its elements.
LEMMA Listing ==
  ASSUME NEW S, IsFiniteSet(S)
  PROVE  SetToSeq(S) \in Seq(S) /\ Len(SetToSeq(S)) = Cardinality(S)
  <1>1. Cardinality(S) \in Nat /\ ExistsBijection(1 .. Cardinality(S), S)
    BY FS_CardinalityType
  <1>2. PICK f \in Bijection(1 .. Cardinality(S), S) : TRUE
    BY <1>1 DEF ExistsBijection
  <1>3. f \in [1 .. Cardinality(S) -> S] /\ IsInjective(f)
    BY <1>2 DEF Bijection, Injection, IsInjective
  <1>4. SetToSeq(S) \in [1 .. Cardinality(S) -> S]
    BY <1>3 DEF SetToSeq
  <1> QED
    BY <1>1, <1>4

-----------------------------------------------------------------------------
(* The rounds of _journal_facts.                                            *)

Approximates(h, m, current, records) ==
    h = [n \in 0 .. m |-> IF n = 0 THEN current ELSE WithNeighbours(records, h[n - 1])]

\* The first m rounds, as a function on 0 .. m, exist, and two such functions
\* agree where both are defined.
LEMMA SomeApproximation ==
  ASSUME NEW current, NEW records, NEW m \in Nat
  PROVE  \E h : Approximates(h, m, current, records)
  <1> DEFINE S == {k \in Nat : \E h : Approximates(h, k, current, records)}
  <1>1. 0 \in S
    <2> DEFINE h == [n \in 0 .. 0 |-> current]
    <2>1. h = [n \in 0 .. 0 |-> IF n = 0 THEN current ELSE WithNeighbours(records, h[n - 1])]
      OBVIOUS
    <2> QED
      BY <2>1 DEF Approximates
  <1>2. ASSUME NEW k \in Nat, k \in S PROVE k + 1 \in S
    <2>1. PICK h : Approximates(h, k, current, records)
      BY <1>2
    <2> DEFINE new == WithNeighbours(records, h[k])
               g == [n \in 0 .. k + 1 |-> IF n = k + 1 THEN new ELSE h[n]]
    <2> HIDE DEF new
    <2>2. h = [n \in 0 .. k |-> IF n = 0 THEN current ELSE WithNeighbours(records, h[n - 1])]
      BY <2>1 DEF Approximates
    <2>3. ASSUME NEW n \in 0 .. k + 1
          PROVE  g[n] = IF n = 0 THEN current ELSE WithNeighbours(records, g[n - 1])
      <3>1. CASE n = k + 1
        <4>1. g[n - 1] = h[k] /\ g[n] = new /\ n # 0
          BY <3>1
        <4> QED
          BY <4>1 DEF new
      <3>2. CASE n # k + 1
        <4>1. n \in 0 .. k /\ g[n] = h[n] /\ (n # 0 => n - 1 \in 0 .. k + 1 /\ n - 1 # k + 1)
          BY <3>2
        <4>2. n # 0 => g[n - 1] = h[n - 1]
          BY <4>1
        <4> QED
          BY <4>1, <4>2, <2>2
      <3> QED
        BY <3>1, <3>2
    <2> HIDE DEF g
    <2>4. DOMAIN g = 0 .. k + 1 /\ g = [n \in 0 .. k + 1 |-> g[n]]
      BY DEF g
    <2>5. Approximates(g, k + 1, current, records)
      BY <2>3, <2>4 DEF Approximates
    <2> QED
      BY <2>5
  <1> HIDE DEF S
  <1>3. Nat \subseteq S
    BY <1>1, <1>2, NatSet
  <1> QED
    BY <1>3 DEF S

LEMMA ApproximationsAgree ==
  ASSUME NEW current, NEW records, NEW m \in Nat, NEW k \in Nat, NEW g, NEW h,
         Approximates(g, m, current, records), Approximates(h, k, current, records)
  PROVE  \A n \in Nat : n <= m /\ n <= k => g[n] = h[n]
  <1> DEFINE S == {n \in Nat : n <= m /\ n <= k => g[n] = h[n]}
  <1>1. /\ g = [n \in 0 .. m |-> IF n = 0 THEN current ELSE WithNeighbours(records, g[n - 1])]
        /\ h = [n \in 0 .. k |-> IF n = 0 THEN current ELSE WithNeighbours(records, h[n - 1])]
    BY DEF Approximates
  <1>2. 0 \in S
    BY <1>1
  <1>3. ASSUME NEW n \in Nat, n \in S PROVE n + 1 \in S
    <2> SUFFICES ASSUME n + 1 <= m, n + 1 <= k PROVE g[n + 1] = h[n + 1]
      OBVIOUS
    <2>1. g[n] = h[n] /\ n + 1 \in 0 .. m /\ n + 1 \in 0 .. k /\ (n + 1) - 1 = n /\ n + 1 # 0
      BY <1>3
    <2>2. g[n + 1] = WithNeighbours(records, g[n]) /\ h[n + 1] = WithNeighbours(records, h[n])
      BY <1>1, <2>1
    <2> QED
      BY <2>1, <2>2
  <1> HIDE DEF S
  <1>4. Nat \subseteq S
    BY <1>2, <1>3, NatSet
  <1> QED
    BY <1>4 DEF S

\* The rounds of _journal_facts exist: round 0 is the folder's documents, and
\* each round adds the neighbours of the one before.
LEMMA RoundsUnfold ==
  ASSUME NEW current, NEW records
  PROVE  /\ Rounds(current, records)[0] = current
         /\ \A n \in Nat : Rounds(current, records)[n + 1] =
                             WithNeighbours(records, Rounds(current, records)[n])
  <1> DEFINE best(n) == CHOOSE h : Approximates(h, n, current, records)
             f == [n \in Nat |-> best(n)[n]]
  <1>1. \A n \in Nat : Approximates(best(n), n, current, records)
    BY SomeApproximation
  <1> HIDE DEF best
  <1>2. ASSUME NEW n \in Nat
        PROVE  f[n] = IF n = 0 THEN current ELSE WithNeighbours(records, f[n - 1])
    <2>1. best(n) = [i \in 0 .. n |-> IF i = 0 THEN current
                                      ELSE WithNeighbours(records, best(n)[i - 1])]
      BY <1>1 DEF Approximates
    <2>2. CASE n = 0
      BY <2>1, <2>2
    <2>3. CASE n # 0
      <3>1. n - 1 \in Nat /\ n - 1 <= n /\ n - 1 <= n - 1
        BY <2>3
      <3>2. best(n)[n - 1] = best(n - 1)[n - 1]
        BY <3>1, <1>1, ApproximationsAgree
      <3>3. best(n)[n] = WithNeighbours(records, best(n)[n - 1])
        BY <2>1, <2>3
      <3> QED
        BY <3>1, <3>2, <3>3, <2>3
    <2> QED
      BY <2>2, <2>3
  <1>3. f = [n \in Nat |-> IF n = 0 THEN current ELSE WithNeighbours(records, f[n - 1])]
    <2> HIDE DEF f
    <2>1. f = [n \in Nat |-> f[n]]
      BY DEF f
    <2> QED
      BY <2>1, <1>2
  <1> HIDE DEF f
  <1> DEFINE R == Rounds(current, records)
  <1>4. R = [n \in Nat |-> IF n = 0 THEN current ELSE WithNeighbours(records, R[n - 1])]
    BY <1>3 DEF Rounds
  <1> HIDE DEF R
  <1>5. R[0] = current
    BY <1>4
  <1>6. ASSUME NEW n \in Nat PROVE R[n + 1] = WithNeighbours(records, R[n])
    <2>1. n + 1 \in Nat /\ n + 1 # 0 /\ (n + 1) - 1 = n
      OBVIOUS
    <2> QED
      BY <1>4, <2>1
  <1> QED
    BY <1>5, <1>6 DEF R

-----------------------------------------------------------------------------
(* Facts about sequences of any elements.                                    *)
IsSequence(s) == s \in Seq({s[i] : i \in DOMAIN s})

LEMMA SequenceFacts ==
  ASSUME NEW s, IsSequence(s)
  PROVE  Len(s) \in Nat /\ DOMAIN s = 1 .. Len(s) /\ (s = <<>> <=> Len(s) = 0)
  BY DEF IsSequence

LEMMA SequenceOfAny ==
  ASSUME NEW S, NEW s \in Seq(S)
  PROVE  IsSequence(s)
  BY DEF IsSequence

LEMMA SequencesJoin ==
  ASSUME NEW s, NEW t, IsSequence(s), IsSequence(t)
  PROVE  IsSequence(s \o t) /\ Len(s \o t) = Len(s) + Len(t)
  <1> DEFINE S == {s[i] : i \in DOMAIN s} \cup {t[i] : i \in DOMAIN t}
  <1>1. s \in Seq(S) /\ t \in Seq(S)
    BY DEF IsSequence
  <1> HIDE DEF S
  <1>2. s \o t \in Seq(S) /\ Len(s \o t) = Len(s) + Len(t)
    BY <1>1
  <1> QED
    BY <1>2, SequenceOfAny

LEMMA LongerJoin ==
  ASSUME NEW s, NEW t, IsSequence(s), IsSequence(t), NEW n \in Nat, Len(s) >= n
  PROVE  IsSequence(s \o t) /\ Len(s \o t) >= n
  <1>1. Len(s) \in Nat /\ Len(t) \in Nat
    BY SequenceFacts
  <1>2. IsSequence(s \o t) /\ Len(s \o t) = Len(s) + Len(t)
    BY SequencesJoin
  <1> QED
    BY <1>1, <1>2

LEMMA TypedSequence ==
  ASSUME NEW type, NEW s, IsSequence(s)
  PROVE  IsSequence(Typed(type, s)) /\ Len(Typed(type, s)) = Len(s)
  <1> DEFINE t == Typed(type, s)
  <1>1. Len(s) \in Nat /\ DOMAIN s = 1 .. Len(s)
    BY DEF IsSequence
  <1>2. t = [i \in 1 .. Len(s) |-> <<type, s[i]>>]
    BY <1>1 DEF Typed
  <1> HIDE DEF t
  <1>3. t \in [1 .. Len(s) -> {t[i] : i \in DOMAIN t}]
    BY <1>2
  <1>4. t \in Seq({t[i] : i \in DOMAIN t}) /\ Len(t) = Len(s)
    BY <1>1, <1>3
  <1> QED
    BY <1>4 DEF IsSequence, t

LEMMA ListingSequence ==
  ASSUME NEW S, IsFiniteSet(S)
  PROVE  IsSequence(SetToSeq(S))
  BY Listing, SequenceOfAny

LEMMA FiniteDomain ==
  ASSUME NEW s, IsSequence(s)
  PROVE  IsFiniteSet(DOMAIN s)
  BY SequenceFacts, FS_Interval

-----------------------------------------------------------------------------
(* Every document a record names, and no round finds others.                 *)
Recorded(records) ==
    {records[k].output : k \in DOMAIN records} \cup {records[k].source : k \in DOMAIN records}

LEMMA RecordedFinite ==
  ASSUME NEW records, IsSequence(records)
  PROVE  IsFiniteSet(Recorded(records))
  <1> DEFINE f == [k \in DOMAIN records |-> records[k].output]
             g == [k \in DOMAIN records |-> records[k].source]
  <1>0. IsFiniteSet(DOMAIN records)
    BY FiniteDomain
  <1>1. DOMAIN f = DOMAIN records /\ f \in [DOMAIN f -> {f[k] : k \in DOMAIN f}]
    OBVIOUS
  <1>2. DOMAIN g = DOMAIN records /\ g \in [DOMAIN g -> {g[k] : k \in DOMAIN g}]
    OBVIOUS
  <1>3. {f[k] : k \in DOMAIN f} = {records[k].output : k \in DOMAIN records}
    OBVIOUS
  <1>4. {g[k] : k \in DOMAIN g} = {records[k].source : k \in DOMAIN records}
    OBVIOUS
  <1> HIDE DEF f, g
  <1>5. IsFiniteSet({f[k] : k \in DOMAIN f}) /\ IsFiniteSet({g[k] : k \in DOMAIN g})
    BY <1>0, <1>1, <1>2, FiniteImage
  <1> QED
    BY <1>3, <1>4, <1>5, FiniteUnion DEF Recorded

LEMMA RoundsWithin ==
  ASSUME NEW current, NEW records, NEW n \in Nat
  PROVE  Rounds(current, records)[n] \subseteq current \cup Recorded(records)
  <1> DEFINE R == Rounds(current, records)
             S == {k \in Nat : R[k] \subseteq current \cup Recorded(records)}
  <1>1. R[0] = current /\ \A k \in Nat : R[k + 1] = WithNeighbours(records, R[k])
    BY RoundsUnfold
  <1> HIDE DEF R
  <1>2. 0 \in S
    BY <1>1
  <1>3. \A d : Neighbours(records, d) \subseteq Recorded(records)
    BY DEF Neighbours, Recorded
  <1>4. ASSUME NEW k \in Nat, k \in S PROVE k + 1 \in S
    BY <1>1, <1>3, <1>4 DEF WithNeighbours
  <1> HIDE DEF S
  <1>5. Nat \subseteq S
    BY <1>2, <1>4, NatSet
  <1> QED
    BY <1>5 DEF S, R

LEMMA IncludedFinite ==
  ASSUME NEW current, IsFiniteSet(current), NEW records, IsSequence(records)
  PROVE  IsFiniteSet(Included(current, records))
  <1>1. Cardinality(Documents) \in Nat
    BY ContentAssumption, FS_CardinalityType
  <1>2. Included(current, records) \subseteq current \cup Recorded(records)
    BY <1>1, RoundsWithin DEF Included
  <1>3. IsFiniteSet(current \cup Recorded(records))
    BY RecordedFinite, FiniteUnion
  <1> QED
    BY <1>2, <1>3, FinitePart

-----------------------------------------------------------------------------
(* The complete map is a sequence.                                          *)

LEMMA PlacesFinite ==
  ASSUME NEW d \in Documents
  PROVE  IsFiniteSet(ParagraphsOf(d)) /\ IsFiniteSet(SectionsOf(d))
  <1>1. IsFiniteSet(DOMAIN Content[d].paras) /\ IsFiniteSet(DOMAIN Content[d].sections)
    <2>1. IsSequence(Content[d].paras) /\ IsSequence(Content[d].sections)
      BY ContentAssumption, SequenceOfAny
    <2> QED
      BY <2>1, FiniteDomain
  <1> DEFINE f == [i \in DOMAIN Content[d].paras |-> <<d, i>>]
             g == [i \in DOMAIN Content[d].sections |-> <<d, i>>]
  <1>2. DOMAIN f = DOMAIN Content[d].paras /\ f \in [DOMAIN f -> {f[k] : k \in DOMAIN f}]
    OBVIOUS
  <1>3. DOMAIN g = DOMAIN Content[d].sections /\ g \in [DOMAIN g -> {g[k] : k \in DOMAIN g}]
    OBVIOUS
  <1>4. {f[k] : k \in DOMAIN f} = ParagraphsOf(d)
    BY DEF ParagraphsOf
  <1>5. {g[k] : k \in DOMAIN g} = SectionsOf(d)
    BY DEF SectionsOf
  <1> HIDE DEF f, g
  <1>6. IsFiniteSet({f[k] : k \in DOMAIN f})
    BY <1>1, <1>2, FiniteImage
  <1>7. IsFiniteSet({g[k] : k \in DOMAIN g})
    BY <1>1, <1>3, FiniteImage
  <1> QED
    BY <1>4, <1>5, <1>6, <1>7

LEMMA AllPlacesFinite ==
  ASSUME NEW D \in SUBSET Documents, IsFiniteSet(D)
  PROVE  /\ IsFiniteSet(UNION {ParagraphsOf(d) : d \in D})
         /\ IsFiniteSet(UNION {SectionsOf(d) : d \in D})
  <1> DEFINE f == [d \in D |-> ParagraphsOf(d)]
             g == [d \in D |-> SectionsOf(d)]
  <1>1. DOMAIN f = D /\ f \in [DOMAIN f -> {f[k] : k \in DOMAIN f}]
    OBVIOUS
  <1>2. DOMAIN g = D /\ g \in [DOMAIN g -> {g[k] : k \in DOMAIN g}]
    OBVIOUS
  <1>3. {f[k] : k \in DOMAIN f} = {ParagraphsOf(d) : d \in D}
    OBVIOUS
  <1>4. {g[k] : k \in DOMAIN g} = {SectionsOf(d) : d \in D}
    OBVIOUS
  <1> HIDE DEF f, g
  <1>5. IsFiniteSet({ParagraphsOf(d) : d \in D})
    <2>1. IsFiniteSet({f[k] : k \in DOMAIN f})
      BY <1>1, FiniteImage
    <2> QED
      BY <2>1, <1>3
  <1>6. IsFiniteSet({SectionsOf(d) : d \in D})
    <2>1. IsFiniteSet({g[k] : k \in DOMAIN g})
      BY <1>2, FiniteImage
    <2> QED
      BY <2>1, <1>4
  <1>7. \A T \in {ParagraphsOf(d) : d \in D} : IsFiniteSet(T)
    BY PlacesFinite
  <1>8. \A T \in {SectionsOf(d) : d \in D} : IsFiniteSet(T)
    BY PlacesFinite
  <1> QED
    BY <1>5, <1>6, <1>7, <1>8, FS_UNION

\* What a map is projected from has finitely many parts.
FiniteEvidence(ev) ==
    /\ IsSequence(ev.files)
    /\ IsFiniteSet(ev.nodes)
    /\ IsFiniteSet(ev.derivations)
    /\ IsFiniteSet(ev.exact)
    /\ IsFiniteSet(ev.section)
    /\ IsFiniteSet(ev.headings)
    /\ IsFiniteSet(ev.conflicts)

LEMMA EvidenceIsFinite ==
  ASSUME NEW kind, NEW files, IsSequence(files),
         \A i \in DOMAIN files : files[i].document \in Documents,
         NEW seed, seed[1] \in Documents, NEW records, IsSequence(records)
  PROVE  FiniteEvidence(MapEvidence(kind, files, seed, records))
  <1> DEFINE current == {files[i].document : i \in DOMAIN files}
             nodes == Included(current, records)
             support == Supporting(nodes, records)
             edge(k) == <<records[k].source, records[k].output>>
             edges == {edge(k) : k \in support}
             derivation(e) == [edge |-> e, records |-> {k \in support : edge(k) = e},
                               profiles |-> {Profile(records[k]) :
                                               k \in {k \in support : edge(k) = e}}]
             paragraphs == UNION {ParagraphsOf(d) : d \in current}
             sections == UNION {SectionsOf(d) : d \in current}
             against == Conflicting(nodes, records)
             conflict(k) == [record |-> k, reason |-> Reason(records[k]),
                             affected |-> Endpoints(records[k]) \cap nodes]
             ev == MapEvidence(kind, files, seed, records)
  <1>1. /\ ev.files = files
        /\ ev.nodes = nodes
        /\ ev.derivations = {derivation(e) : e \in edges}
        /\ ev.exact \subseteq paragraphs
        /\ ev.section = SectionOf(seed)
        /\ ev.headings \subseteq sections
        /\ ev.conflicts = {conflict(k) : k \in against}
    BY DEF MapEvidence
  <1>2. support \subseteq DOMAIN records /\ against \subseteq DOMAIN records
    BY DEF Supporting, Conflicting
  <1>3. ev.section \subseteq SectionsOf(seed[1])
    BY <1>1 DEF SectionOf
  <1>4. current \subseteq Documents
    OBVIOUS
  <1> HIDE DEF ev, derivation, conflict
  <1>5. IsFiniteSet(current)
    <2> DEFINE f == [i \in DOMAIN files |-> files[i].document]
    <2>1. IsFiniteSet(DOMAIN files)
      BY FiniteDomain
    <2>2. DOMAIN f = DOMAIN files /\ f \in [DOMAIN f -> {f[k] : k \in DOMAIN f}]
      OBVIOUS
    <2>3. {f[k] : k \in DOMAIN f} = current
      OBVIOUS
    <2> HIDE DEF f, current
    <2> QED
      BY <2>1, <2>2, <2>3, FiniteImage
  <1> HIDE DEF current
  <1>6. IsFiniteSet(nodes)
    BY <1>5, IncludedFinite
  <1> HIDE DEF nodes
  <1>7. IsFiniteSet(support) /\ IsFiniteSet(against)
    BY <1>2, FiniteDomain, FinitePart
  <1> HIDE DEF support, against
  <1>8. IsFiniteSet(edges)
    <2> DEFINE f == [k \in support |-> edge(k)]
    <2>1. DOMAIN f = support /\ f \in [DOMAIN f -> {f[k] : k \in DOMAIN f}]
      OBVIOUS
    <2>2. {f[k] : k \in DOMAIN f} = edges
      OBVIOUS
    <2> HIDE DEF f, edges
    <2> QED
      BY <1>7, <2>1, <2>2, FiniteImage
  <1> HIDE DEF edges
  <1>9. IsFiniteSet(ev.derivations)
    <2> DEFINE f == [e \in edges |-> derivation(e)]
    <2>1. DOMAIN f = edges /\ f \in [DOMAIN f -> {f[k] : k \in DOMAIN f}]
      OBVIOUS
    <2>2. {f[k] : k \in DOMAIN f} = ev.derivations
      BY <1>1
    <2> HIDE DEF f
    <2> QED
      BY <1>8, <2>1, <2>2, FiniteImage
  <1>10. IsFiniteSet(ev.conflicts)
    <2> DEFINE f == [k \in against |-> conflict(k)]
    <2>1. DOMAIN f = against /\ f \in [DOMAIN f -> {f[k] : k \in DOMAIN f}]
      OBVIOUS
    <2>2. {f[k] : k \in DOMAIN f} = ev.conflicts
      BY <1>1
    <2> HIDE DEF f
    <2> QED
      BY <1>7, <2>1, <2>2, FiniteImage
  <1>11. IsFiniteSet(ev.exact) /\ IsFiniteSet(ev.headings)
    <2>1. IsFiniteSet(paragraphs) /\ IsFiniteSet(sections)
      BY <1>4, <1>5, AllPlacesFinite
    <2> HIDE DEF paragraphs, sections
    <2> QED
      BY <1>1, <2>1, FinitePart
  <1>12. IsFiniteSet(ev.section)
    BY <1>3, PlacesFinite, FinitePart
  <1> QED
    BY <1>1, <1>6, <1>9, <1>10, <1>11, <1>12 DEF FiniteEvidence, ev

LEMMA RelationshipsFinite ==
  ASSUME NEW ev, FiniteEvidence(ev)
  PROVE  IsFiniteSet(Relationships(ev))
  <1> DEFINE recorded(r) == [type |-> "recorded_derivation", from |-> <<r.edge[1], 0>>,
                             to |-> <<r.edge[2], 0>>, basis |-> r.profiles]
             equal(p) == [type |-> "exact_content_equality", from |-> ev.seed, to |-> p,
                          basis |-> {}]
             led(s, t) == [type |-> "navigation_candidate", from |-> s, to |-> t,
                           basis |-> Signals(s, t)]
             A == {recorded(r) : r \in ev.derivations}
             B == {equal(p) : p \in ev.exact}
             C == {led(s, t) : s \in ev.section, t \in ev.headings}
  <1>1. Relationships(ev) = (A \cup B) \cup C
    BY DEF Relationships
  <1> HIDE DEF recorded, equal, led
  <1>2. IsFiniteSet(A)
    <2> DEFINE f == [r \in ev.derivations |-> recorded(r)]
    <2>1. DOMAIN f = ev.derivations /\ f \in [DOMAIN f -> {f[k] : k \in DOMAIN f}]
      OBVIOUS
    <2>2. {f[k] : k \in DOMAIN f} = A
      OBVIOUS
    <2> HIDE DEF f, A
    <2> QED
      BY <2>1, <2>2, FiniteImage DEF FiniteEvidence
  <1>3. IsFiniteSet(B)
    <2> DEFINE f == [r \in ev.exact |-> equal(r)]
    <2>1. DOMAIN f = ev.exact /\ f \in [DOMAIN f -> {f[k] : k \in DOMAIN f}]
      OBVIOUS
    <2>2. {f[k] : k \in DOMAIN f} = B
      OBVIOUS
    <2> HIDE DEF f, B
    <2> QED
      BY <2>1, <2>2, FiniteImage DEF FiniteEvidence
  <1>4. IsFiniteSet(C)
    <2> DEFINE f == [x \in ev.section \X ev.headings |-> led(x[1], x[2])]
    <2>1. DOMAIN f = ev.section \X ev.headings /\ f \in [DOMAIN f -> {f[k] : k \in DOMAIN f}]
      OBVIOUS
    <2>2. IsFiniteSet(ev.section \X ev.headings)
      BY FS_Product DEF FiniteEvidence
    <2>3. {f[k] : k \in DOMAIN f} = C
      <3>1. ASSUME NEW x \in ev.section \X ev.headings PROVE f[x] \in C
        OBVIOUS
      <3>2. ASSUME NEW s \in ev.section, NEW t \in ev.headings
            PROVE  led(s, t) \in {f[k] : k \in DOMAIN f}
        <4>1. <<s, t>> \in DOMAIN f /\ f[<<s, t>>] = led(s, t)
          OBVIOUS
        <4> HIDE DEF f
        <4> QED
          BY <4>1
      <3> HIDE DEF f
      <3> QED
        BY <3>1, <3>2, <2>1
    <2> HIDE DEF f, C
    <2> QED
      BY <2>1, <2>2, <2>3, FiniteImage
  <1> HIDE DEF A, B, C
  <1> QED
    BY <1>1, <1>2, <1>3, <1>4, FiniteUnion

\* The complete map is a sequence, with an item for each file at least.
LEMMA MapIsASequence ==
  ASSUME NEW ev, FiniteEvidence(ev)
  PROVE  IsSequence(MapItems(ev)) /\ Len(MapItems(ev)) >= Len(ev.files)
  <1> DEFINE cycles == CycleMembers(ev.nodes, {r.edge : r \in ev.derivations})
             N == {Node(ev, cycles, d) : d \in ev.nodes}
             Q == {Resolution(ev, d) : d \in ev.nodes}
             a == Typed("document_node", SetToSeq(N))
             b == Typed("document_observation", ev.files)
             c == Typed("paragraph_node", SetToSeq(ev.exact \cup {ev.seed}))
             d == Typed("section_node", SetToSeq(ev.headings \cup ev.section))
             e == Typed("relationship", SetToSeq(Relationships(ev)))
             f == Typed("resolution", SetToSeq(Q))
             g == Typed("conflict", SetToSeq(ev.conflicts))
  <1>1. MapItems(ev) = a \o b \o c \o d \o e \o f \o g
    BY DEF MapItems
  <1> HIDE DEF cycles
  <1>2. IsFiniteSet(N)
    <2> DEFINE h == [x \in ev.nodes |-> Node(ev, cycles, x)]
    <2>1. DOMAIN h = ev.nodes /\ h \in [DOMAIN h -> {h[k] : k \in DOMAIN h}]
      OBVIOUS
    <2>2. {h[k] : k \in DOMAIN h} = N
      OBVIOUS
    <2> HIDE DEF h, N
    <2> QED
      BY <2>1, <2>2, FiniteImage DEF FiniteEvidence
  <1>3. IsFiniteSet(Q)
    <2> DEFINE h == [x \in ev.nodes |-> Resolution(ev, x)]
    <2>1. DOMAIN h = ev.nodes /\ h \in [DOMAIN h -> {h[k] : k \in DOMAIN h}]
      OBVIOUS
    <2>2. {h[k] : k \in DOMAIN h} = Q
      OBVIOUS
    <2> HIDE DEF h, Q
    <2> QED
      BY <2>1, <2>2, FiniteImage DEF FiniteEvidence
  <1> HIDE DEF N, Q
  <1>4. IsFiniteSet(ev.exact \cup {ev.seed}) /\ IsFiniteSet(ev.headings \cup ev.section)
    BY FS_Singleton, FiniteUnion DEF FiniteEvidence
  <1>5. IsFiniteSet(Relationships(ev)) /\ IsFiniteSet(ev.conflicts)
    BY RelationshipsFinite DEF FiniteEvidence
  <1>6. IsSequence(b) /\ Len(b) = Len(ev.files)
    BY TypedSequence DEF FiniteEvidence
  <1>7. /\ IsSequence(a) /\ IsSequence(c) /\ IsSequence(d)
        /\ IsSequence(e) /\ IsSequence(f) /\ IsSequence(g)
    BY <1>2, <1>3, <1>4, <1>5, ListingSequence, TypedSequence
  <1> HIDE DEF a, b, c, d, e, f, g
  <1> DEFINE n == Len(ev.files)
  <1>8. n \in Nat
    BY <1>6, SequenceFacts
  <1> HIDE DEF n
  <1>9. IsSequence(a \o b) /\ Len(a \o b) >= n
    <2>1. Len(a) \in Nat /\ Len(a \o b) = Len(a) + n /\ IsSequence(a \o b)
      BY <1>6, <1>7, SequencesJoin, SequenceFacts DEF n
    <2> QED
      BY <1>8, <2>1
  <1>10. IsSequence(a \o b \o c) /\ Len(a \o b \o c) >= n
    BY <1>7, <1>8, <1>9, LongerJoin
  <1>11. IsSequence(a \o b \o c \o d) /\ Len(a \o b \o c \o d) >= n
    BY <1>7, <1>8, <1>10, LongerJoin
  <1>12. IsSequence(a \o b \o c \o d \o e) /\ Len(a \o b \o c \o d \o e) >= n
    BY <1>7, <1>8, <1>11, LongerJoin
  <1>13. IsSequence(a \o b \o c \o d \o e \o f) /\ Len(a \o b \o c \o d \o e \o f) >= n
    BY <1>7, <1>8, <1>12, LongerJoin
  <1>14. /\ IsSequence(a \o b \o c \o d \o e \o f \o g)
         /\ Len(a \o b \o c \o d \o e \o f \o g) >= n
    BY <1>7, <1>8, <1>13, LongerJoin
  <1> QED
    BY <1>1, <1>14 DEF n

-----------------------------------------------------------------------------
(* The pages of a session are one result.                                   *)

(* What a call has read.                                                     *)
ReadOk ==
    /\ folder \in [NameSet -> Documents \cup {NoFile}]
    /\ IsSequence(journal)
    /\ IsSequence(captured)
    /\ \A i \in DOMAIN captured : captured[i].document \in Documents
    /\ DOMAIN found \subseteq NameSet
    /\ pc \in {"idle", "enumerate"} => captured = <<>>
    /\ pc \in {"open", "read"} =>
         /\ Unread(captured) # {}
         /\ \A n \in DOMAIN found : \E i \in DOMAIN Order : Order[i] = n
    /\ pc \in {"recheck", "restat", "answer", "publish"} => captured # <<>>

(* A call bears no cursor or the session's last one, which continues the     *)
(* result the first page was cut from.                                       *)
CursorOk ==
    /\ pc \in {"enumerate", "open", "read", "recheck", "restat", "answer"} =>
         request.cursor \in {NoCursor, cursor} /\ request.size \in Nat \ {0}
    /\ IsSequence(first)
    /\ cursor # NoCursor =>
         /\ cursor.offset \in Nat \ {0}
         /\ cursor.offset < Len(first)
         /\ cursor.binding.items = first
         /\ pages # {}

PageOk(page, items) ==
    /\ page.offset \in Nat
    /\ Len(page.items) \in Nat \ {0}
    /\ page.items # <<>>
    /\ page.offset + Len(page.items) <= Len(items)
    /\ page.items = SubSeq(items, page.offset + 1, page.offset + Len(page.items))

Extent(page) == page.offset + 1 .. page.offset + Len(page.items)

Covered(P) == UNION {Extent(page) : page \in P}

PagesOk ==
    /\ \A page \in pages : PageOk(page, first)
    /\ pages # {} =>
         Covered(pages) =
           1 .. (IF cursor = NoCursor THEN Len(first) ELSE cursor.offset)

PInv ==
    /\ task \in Tasks
    /\ ReadOk
    /\ CursorOk
    /\ PagesOk

LEMMA InitPInv == Init => PInv
  <1> SUFFICES ASSUME Init PROVE PInv
    OBVIOUS
  <1>1. task \in Tasks /\ folder = task.folder /\ journal = task.journal
    BY DEF Init
  <1>2. folder \in [NameSet -> Documents \cup {NoFile}]
    BY <1>1, TasksAssumption
  <1>3. IsSequence(journal)
    BY <1>1, TasksAssumption, SequenceOfAny
  <1>4. IsSequence(<<>>)
    BY DEF IsSequence
  <1>5. ReadOk
    BY <1>2, <1>3, <1>4 DEF ReadOk, Init
  <1>6. CursorOk /\ PagesOk
    BY <1>4 DEF Init, CursorOk, PagesOk
  <1> QED
    BY <1>1, <1>5, <1>6 DEF PInv

\* The file read next is one of the candidates.
LEMMA NextIsCandidate ==
  ASSUME PInv, pc \in {"open", "read"}
  PROVE  NextName \in Unread(captured) /\ NextName \in NameSet
  <1> DEFINE U == Unread(captured)
             S == {Place(n) : n \in U}
  <1>1. U # {} /\ U \subseteq DOMAIN found /\ DOMAIN found \subseteq NameSet
    BY DEF PInv, ReadOk, Unread
  <1>2. DOMAIN Order \subseteq Nat
    <2>1. Names \in Seq(NameSet) /\ (task.order = Lexical \/ task.order \in Seq(NameSet))
      BY TasksAssumption DEF PInv
    <2>2. Order \in Seq(NameSet)
      BY <2>1 DEF Order
    <2> QED
      BY <2>2
  <1>3. \A n \in U : Place(n) \in Nat
    BY <1>1, <1>2 DEF PInv, ReadOk, Place
  <1>4. S \in SUBSET Nat /\ S # {}
    BY <1>1, <1>3
  <1>5. \E x \in S : \A y \in S : x <= y
    <2> HIDE DEF S
    <2> QED
      BY <1>4, LeastExists
  <1>6. \E n \in U : \A m \in U : Place(n) <= Place(m)
    BY <1>5
  <1> HIDE DEF U
  <1>7. (CHOOSE n \in U : \A m \in U : Place(n) <= Place(m)) \in U
    BY <1>6
  <1> QED
    BY <1>1, <1>7 DEF NextName, U

\* A step that ends the call without another page.
LEMMA CallOverPInv ==
  ASSUME PInv, CallOver, session' = session, journal' = journal \/
         \E r : journal' = Append(journal, r)
  PROVE  PInv'
  <1>1. IsSequence(journal')
    <2>1. CASE journal' = journal
      BY <2>1 DEF PInv, ReadOk
    <2>2. ASSUME NEW r, journal' = Append(journal, r) PROVE IsSequence(journal')
      <3> DEFINE S == {journal[i] : i \in DOMAIN journal} \cup {r}
      <3>1. journal \in Seq(S) /\ r \in S
        BY DEF PInv, ReadOk, IsSequence
      <3>2. journal' \in Seq(S)
        BY <2>2, <3>1
      <3> QED
        BY <3>2, SequenceOfAny
    <2> QED
      BY <2>1, <2>2
  <1>2. IsSequence(<<>>)
    BY DEF IsSequence
  <1>3. ReadOk'
    BY <1>1, <1>2 DEF PInv, ReadOk, CallOver, folderVars
  <1>4. CursorOk' /\ PagesOk'
    BY DEF PInv, CursorOk, PagesOk, CallOver, session
  <1> QED
    BY <1>3, <1>4 DEF PInv, CallOver

LEMMA CallPInv ==
  ASSUME PInv, NEW size \in task.sizes, NEW from \in {NoCursor, cursor}, Call(size, from)
  PROVE  PInv'
  <1>1. size \in Nat \ {0}
    BY TasksAssumption DEF PInv
  <1>2. ReadOk'
    BY DEF PInv, ReadOk, Call, reading, folderVars, Unread
  <1>3. CursorOk' /\ PagesOk'
    BY <1>1 DEF PInv, CursorOk, PagesOk, Call, session
  <1> QED
    BY <1>2, <1>3 DEF PInv, Call

LEMMA EnumeratePInv ==
  ASSUME PInv, Enumerate
  PROVE  PInv'
  <1>1. CASE CallOver
    BY <1>1, CallOverPInv DEF Enumerate, Refuse
  <1>2. CASE ~CallOver
    <2>1. /\ pc = "enumerate"
          /\ ~OrderRefused(Listed(folder))
          /\ task.seedName \in Listed(folder)
          /\ DOMAIN found' = Listed(folder)
          /\ pc' = "open"
          /\ UNCHANGED <<task, folderVars, journal, request, captured, session>>
      BY <1>2 DEF Enumerate, Refuse
    <2>2. Listed(folder) \subseteq NameSet
      BY DEF Listed
    <2>3. \A n \in Listed(folder) : \E i \in DOMAIN Order : Order[i] = n
      <3>1. CASE task.order = Lexical
        BY <3>1, <2>2 DEF Order, NameSet
      <3>2. CASE task.order # Lexical
        BY <3>2, <2>1 DEF OrderRefused, Order
      <3> QED
        BY <3>1, <3>2
    <2>4. Order' = Order
      BY <2>1 DEF Order
    <2>5. captured = <<>>
      BY <2>1 DEF PInv, ReadOk
    <2>6. Unread(captured)' # {}
      BY <2>1, <2>5 DEF Unread
    <2>7. ReadOk'
      BY <2>1, <2>2, <2>3, <2>4, <2>6 DEF PInv, ReadOk, folderVars
    <2>8. CursorOk' /\ PagesOk'
      BY <2>1 DEF PInv, CursorOk, PagesOk, session
    <2> QED
      BY <2>1, <2>7, <2>8 DEF PInv
  <1> QED
    BY <1>1, <1>2

LEMMA OpenPInv ==
  ASSUME PInv, Open
  PROVE  PInv'
  <1>1. CASE CallOver
    BY <1>1, CallOverPInv DEF Open, Refuse
  <1>2. CASE ~CallOver
    <2>1. /\ pc = "open"
          /\ pc' = "read"
          /\ UNCHANGED <<task, folderVars, journal, request, found, captured, session>>
      BY <1>2 DEF Open, Refuse
    <2>2. Order' = Order /\ Unread(captured)' = Unread(captured)
      BY <2>1 DEF Order, Unread
    <2>3. ReadOk'
      BY <2>1, <2>2 DEF PInv, ReadOk, folderVars
    <2>4. CursorOk' /\ PagesOk'
      BY <2>1 DEF PInv, CursorOk, PagesOk, session
    <2> QED
      BY <2>1, <2>3, <2>4 DEF PInv
  <1> QED
    BY <1>1, <1>2

LEMMA ReadPInv ==
  ASSUME PInv, Read
  PROVE  PInv'
  <1>1. CASE CallOver
    BY <1>1, CallOverPInv DEF Read, Refuse
  <1>2. CASE ~CallOver
    <2> DEFINE name == NextName
               new == [name |-> name, document |-> folder[name], stamp |-> opened]
    <2>1. /\ pc = "read"
          /\ folder[name] # NoFile
          /\ captured' = Append(captured, new)
          /\ pc' = IF Unread(captured') = {} THEN "recheck" ELSE "open"
          /\ UNCHANGED <<task, folderVars, journal, request, found, session>>
      BY <1>2 DEF Read, Refuse
    <2>2. name \in NameSet
      BY <2>1, NextIsCandidate
    <2> HIDE DEF name
    <2>3. new.document \in Documents
      BY <2>1, <2>2 DEF PInv, ReadOk
    <2> HIDE DEF new
    <2> DEFINE S == {captured[i] : i \in DOMAIN captured} \cup {new}
    <2>4. captured \in Seq(S) /\ new \in S
      BY DEF PInv, ReadOk, IsSequence
    <2> HIDE DEF S
    <2>5. /\ captured' \in Seq(S)
          /\ Len(captured') = Len(captured) + 1
          /\ DOMAIN captured' = 1 .. Len(captured) + 1
          /\ DOMAIN captured = 1 .. Len(captured)
          /\ Len(captured) \in Nat
          /\ \A i \in DOMAIN captured : captured'[i] = captured[i]
          /\ captured'[Len(captured) + 1] = new
      BY <2>1, <2>4
    <2>6. IsSequence(captured')
      BY <2>5, SequenceOfAny
    <2>7. \A i \in DOMAIN captured' : captured'[i].document \in Documents
      <3> SUFFICES ASSUME NEW i \in DOMAIN captured' PROVE captured'[i].document \in Documents
        OBVIOUS
      <3>1. CASE i = Len(captured) + 1
        BY <3>1, <2>3, <2>5
      <3>2. CASE i \in DOMAIN captured
        BY <3>2, <2>5 DEF PInv, ReadOk
      <3> QED
        BY <3>1, <3>2, <2>5
    <2>8. captured' # <<>>
      BY <2>5, <2>6, SequenceFacts
    <2>9. Order' = Order /\ Unread(captured)' = Unread(captured')
      BY <2>1 DEF Order, Unread
    <2>10. ReadOk'
      BY <2>1, <2>6, <2>7, <2>8, <2>9 DEF PInv, ReadOk, folderVars
    <2>11. CursorOk' /\ PagesOk'
      BY <2>1 DEF PInv, CursorOk, PagesOk, session
    <2> QED
      BY <2>1, <2>10, <2>11 DEF PInv
  <1> QED
    BY <1>1, <1>2

LEMMA CheckPInv ==
  ASSUME PInv, Recheck \/ Restat
  PROVE  PInv'
  <1>1. CASE CallOver
    BY <1>1, CallOverPInv DEF Recheck, Restat, Refuse
  <1>2. CASE ~CallOver
    <2>1. /\ pc \in {"recheck", "restat"}
          /\ pc' \in {"restat", "answer"}
          /\ UNCHANGED <<task, folderVars, journal, request, found, captured, session>>
      BY <1>2 DEF Recheck, Restat, Refuse, reading
    <2>2. ReadOk'
      BY <2>1 DEF PInv, ReadOk, folderVars
    <2>3. CursorOk' /\ PagesOk'
      BY <2>1 DEF PInv, CursorOk, PagesOk, session
    <2> QED
      BY <2>1, <2>2, <2>3 DEF PInv
  <1> QED
    BY <1>1, <1>2

LEMMA OthersPInv ==
  ASSUME PInv, Others
  PROVE  PInv'
  <1>1. ASSUME NEW n \in NameSet, NEW d \in Documents \cup {NoFile}, NEW inode, Change(n, d, inode)
        PROVE  PInv'
    <2>1. /\ folder' = [folder EXCEPT ![n] = d]
          /\ UNCHANGED <<task, journal, pc, request, found, captured, session>>
      BY <1>1 DEF Change, reading
    <2>2. folder' \in [NameSet -> Documents \cup {NoFile}]
      BY <2>1 DEF PInv, ReadOk
    <2>3. Order' = Order /\ Unread(captured)' = Unread(captured)
      BY <2>1 DEF Order, Unread
    <2>4. ReadOk'
      BY <2>1, <2>2, <2>3 DEF PInv, ReadOk
    <2>5. CursorOk' /\ PagesOk'
      BY <2>1 DEF PInv, CursorOk, PagesOk, session
    <2> QED
      BY <2>1, <2>4, <2>5 DEF PInv
  <1>2. ASSUME NEW r, RecordApply(r)
        PROVE  PInv'
    <2>1. /\ journal' = Append(journal, r)
          /\ UNCHANGED <<task, folderVars, pc, request, found, captured, session>>
      BY <1>2 DEF RecordApply, reading
    <2> DEFINE S == {journal[i] : i \in DOMAIN journal} \cup {r}
    <2>2. journal \in Seq(S) /\ r \in S
      BY DEF PInv, ReadOk, IsSequence
    <2>3. IsSequence(journal')
      <3>1. journal' \in Seq(S)
        BY <2>1, <2>2
      <3> QED
        BY <3>1, SequenceOfAny
    <2>4. Order' = Order /\ Unread(captured)' = Unread(captured)
      BY <2>1 DEF Order, Unread
    <2>5. ReadOk'
      BY <2>1, <2>3, <2>4 DEF PInv, ReadOk, folderVars
    <2>6. CursorOk' /\ PagesOk'
      BY <2>1 DEF PInv, CursorOk, PagesOk, session
    <2> QED
      BY <2>1, <2>5, <2>6 DEF PInv
  <1>3. NewDocuments \subseteq Documents
    BY TasksAssumption
  <1> QED
    BY <1>1, <1>2, <1>3 DEF Others, SaveInPlace, Replace, TakeAway

\* Another page adds its extent.
LEMMA CoveredWith ==
  ASSUME NEW P, NEW page
  PROVE  Covered(P \cup {page}) = Covered(P) \cup Extent(page) /\ Covered({page}) = Extent(page)
  BY DEF Covered

\* _page takes a piece of the history that starts at the offset.
LEMMA HistoryPageIsNext ==
  ASSUME NEW items, NEW offset \in Nat, NEW size \in Nat \ {0},
         Len(items) \in Nat, offset < Len(items)
  PROVE  \E e \in offset + 1 .. Len(items) :
           HistoryPage(items, offset, size) = SubSeq(items, offset + 1, e)
  <1> DEFINE used(k) == Sum([i \in 1 .. k |-> Weight(items[offset + i])])
             fits == {k \in 1 .. size : /\ offset + k <= Len(items)
                                        /\ (k = 1 \/ used(k) <= PageWeight)}
             most == CHOOSE k \in fits : \A j \in fits : j <= k
  <1>1. HistoryPage(items, offset, size) = SubSeq(items, offset + 1, offset + most)
    BY DEF HistoryPage
  <1> HIDE DEF used
  <1>2. fits \in SUBSET Nat /\ 1 \in fits /\ \A k \in fits : k <= size
    OBVIOUS
  <1>3. \A k \in fits : k \in Nat /\ 1 <= k /\ offset + k <= Len(items)
    OBVIOUS
  <1> HIDE DEF fits
  <1>4. \E k \in fits : \A j \in fits : j <= k
    BY <1>2, GreatestExists
  <1>5. most \in fits
    BY <1>4
  <1> HIDE DEF most
  <1>6. offset + most \in offset + 1 .. Len(items)
    BY <1>3, <1>5
  <1> QED
    BY <1>1, <1>6

LEMMA PageIsNext ==
  ASSUME NEW items, Offset \in Nat, request.size \in Nat \ {0},
         Len(items) \in Nat, Offset < Len(items)
  PROVE  \E e \in Offset + 1 .. Len(items) : Page(items) = SubSeq(items, Offset + 1, e)
  <1>1. CASE IsMap
    <2> DEFINE e == IF Offset + request.size < Len(items) THEN Offset + request.size
                    ELSE Len(items)
    <2>1. Page(items) = SubSeq(items, Offset + 1, e)
      BY <1>1 DEF Page
    <2>2. e \in Offset + 1 .. Len(items)
      OBVIOUS
    <2> QED
      BY <2>1, <2>2
  <1>2. CASE ~IsMap
    <2> DEFINE size == request.size
               from == Offset
    <2>1. Page(items) = HistoryPage(items, from, size)
      BY <1>2 DEF Page
    <2>2. from \in Nat /\ size \in Nat \ {0} /\ Len(items) \in Nat /\ from < Len(items)
      OBVIOUS
    <2> HIDE DEF size, from
    <2>3. \E e \in from + 1 .. Len(items) :
            HistoryPage(items, from, size) = SubSeq(items, from + 1, e)
      BY <2>2, HistoryPageIsNext
    <2> QED
      BY <2>1, <2>3 DEF from
  <1> QED
    BY <1>1, <1>2

\* The complete result of either tool has at least one item.
LEMMA CompleteIsASequence ==
  ASSUME PInv, pc = "answer"
  PROVE  IsSequence(Complete) /\ Len(Complete) \in Nat \ {0}
  <1>1. IsSequence(captured) /\ Len(captured) \in Nat \ {0} /\ DOMAIN captured = 1 .. Len(captured)
    BY SequenceFacts DEF PInv, ReadOk
  <1> DEFINE S == [name : {captured[i].name : i \in DOMAIN captured}, document : Documents]
  <1>2. Files \in Seq(S) /\ Len(Files) = Len(captured) /\ DOMAIN Files = DOMAIN captured
    BY <1>1 DEF Files, PInv, ReadOk
  <1>3. IsSequence(Files) /\ \A i \in DOMAIN Files : Files[i].document \in Documents
    <2>1. \A x \in S : x.document \in Documents
      OBVIOUS
    <2> HIDE DEF S
    <2>2. \A i \in DOMAIN Files : Files[i] \in S
      BY <1>2
    <2> QED
      BY <1>2, <2>1, <2>2, SequenceOfAny
  <1> HIDE DEF S
  <1>4. CASE IsMap
    <2>1. task.seed[1] \in Documents
      BY TasksAssumption DEF PInv
    <2>2. FiniteEvidence(Evidence)
      BY <1>3, <2>1, EvidenceIsFinite DEF Evidence, PInv, ReadOk
    <2>3. Evidence.files = Files
      BY DEF Evidence, MapEvidence
    <2>4. IsSequence(MapItems(Evidence)) /\ Len(MapItems(Evidence)) >= Len(Files)
      BY <2>2, <2>3, MapIsASequence
    <2>5. Len(MapItems(Evidence)) \in Nat
      BY <2>4, SequenceFacts
    <2> QED
      BY <1>1, <1>2, <1>4, <2>4, <2>5 DEF Complete
  <1>5. CASE ~IsMap
    <2> DEFINE items == HistoryItems(Files, task.seed)
               trace == Trace(Files, task.seed)
    <2>1. items = [k \in 1 .. Len(Files) |-> Observation(Files, trace, k)]
      BY DEF HistoryItems
    <2> HIDE DEF items, trace
    <2>2. items \in [1 .. Len(Files) -> {items[i] : i \in DOMAIN items}] /\ Len(Files) \in Nat
      BY <1>1, <1>2, <2>1
    <2>3. items \in Seq({items[i] : i \in DOMAIN items}) /\ Len(items) = Len(Files)
      BY <2>2
    <2> QED
      BY <1>1, <1>2, <1>5, <2>3 DEF Complete, items, IsSequence
  <1> QED
    BY <1>4, <1>5

\* A cursor that is accepted continues the result the first page was cut from.
LEMMA AcceptedCursor ==
  ASSUME PInv, pc = "answer", NEW items, Fault(items) = "none", Len(items) \in Nat \ {0}
  PROVE  /\ Offset \in Nat
         /\ Offset < Len(items)
         /\ Offset # 0 => cursor # NoCursor /\ Offset = cursor.offset /\ items = first
  <1>1. CASE request.cursor = NoCursor
    BY <1>1 DEF Offset, NoCursor
  <1>2. CASE request.cursor # NoCursor
    <2>1. request.cursor = cursor /\ cursor # NoCursor
      BY <1>2 DEF PInv, CursorOk
    <2>2. cursor.binding = Binding(items)
      BY <1>2, <2>1 DEF Fault, MapFault, HistoryFault, Mismatch
    <2>3. cursor.binding.items = items
      BY <2>2 DEF Binding, HistoryBinding
    <2> QED
      BY <2>1, <2>3 DEF PInv, CursorOk, Offset
  <1> QED
    BY <1>1, <1>2

LEMMA AnswerPInv ==
  ASSUME PInv, Answer
  PROVE  PInv'
  <1>1. CASE CallOver
    <2>1. session' = session \/ ~(session' = session)
      OBVIOUS
    <2>2. session' = session
      BY <1>1 DEF Answer, CallOver
    <2> QED
      BY <1>1, <2>2, CallOverPInv DEF Answer
  <1>2. CASE ~CallOver
    <2> DEFINE items == Complete
               page == Page(items)
               next == Offset + Len(page)
               new == [offset |-> Offset, items |-> page]
               then == [offset |-> next, binding |-> Binding(items)]
    <2>1. /\ pc = "answer"
          /\ Fault(items) = "none"
          /\ cursor' = IF next < Len(items) THEN then ELSE NoCursor
          /\ first' = IF Offset = 0 THEN items ELSE first
          /\ pages' = (IF Offset = 0 THEN {} ELSE pages) \cup {new}
          /\ pc' = "publish"
          /\ UNCHANGED <<task, folderVars, journal, reading>>
      BY <1>2 DEF Answer
    <2>2. then.offset = next /\ then.binding.items = items
      BY DEF Binding, HistoryBinding
    <2>3. new.offset = Offset /\ new.items = page
      OBVIOUS
    <2>4. IsSequence(items) /\ Len(items) \in Nat \ {0}
      BY <2>1, CompleteIsASequence
    <2> HIDE DEF items
    <2>5. /\ Offset \in Nat
          /\ Offset < Len(items)
          /\ Offset # 0 => cursor # NoCursor /\ Offset = cursor.offset /\ items = first
      BY <2>1, <2>4, AcceptedCursor
    <2>6. request.size \in Nat \ {0}
      BY <2>1 DEF PInv, CursorOk
    <2>7. PICK e \in Offset + 1 .. Len(items) : page = SubSeq(items, Offset + 1, e)
      BY <2>4, <2>5, <2>6, PageIsNext
    <2> HIDE DEF page
    <2>8. Len(page) = e - Offset /\ page # <<>>
      <3>1. items \in Seq({items[i] : i \in DOMAIN items})
        BY <2>4 DEF IsSequence
      <3>2. Len(page) = e - Offset
        BY <2>4, <2>5, <2>7, <3>1
      <3>3. Len(<<>>) = 0 /\ e - Offset # 0
        BY <2>4, <2>5
      <3> QED
        BY <3>2, <3>3
    <2>9. next = e /\ e \in Nat \ {0} /\ e <= Len(items) /\ Len(page) \in Nat \ {0}
      BY <2>4, <2>5, <2>7, <2>8
    <2> HIDE DEF then, new, next
    <2>10. first' = items
      BY <2>1, <2>5
    <2>11. ReadOk'
      BY <2>1 DEF PInv, ReadOk, reading, folderVars
    <2>12. CursorOk'
      <3>1. cursor' # NoCursor => cursor' = then /\ next < Len(items)
        BY <2>1
      <3> QED
        BY <2>1, <2>2, <2>4, <2>9, <2>10, <3>1 DEF CursorOk
    <2>13. PageOk(new, items)
      BY <2>3, <2>5, <2>7, <2>8, <2>9 DEF PageOk
    <2>14. Extent(new) = Offset + 1 .. e
      BY <2>3, <2>5, <2>8, <2>9 DEF Extent
    <2>15. \A p \in pages' : PageOk(p, items)
      BY <2>1, <2>5, <2>13 DEF PInv, PagesOk
    <2>16. Covered(pages') = 1 .. e
      <3>1. CASE Offset = 0
        <4>1. pages' = {new} /\ Extent(new) = 1 .. e
          BY <2>1, <2>14, <3>1
        <4> QED
          BY <4>1, CoveredWith
      <3>2. CASE Offset # 0
        <4>1. Covered(pages) = 1 .. Offset
          BY <2>5, <3>2 DEF PInv, PagesOk, CursorOk
        <4>2. Covered(pages') = Covered(pages) \cup Extent(new)
          <5>1. pages' = pages \cup {new}
            BY <2>1, <3>2
          <5> QED
            BY <5>1, CoveredWith
        <4>3. (1 .. Offset) \cup (Offset + 1 .. e) = 1 .. e
          BY <2>5, <2>7, <2>4
        <4> QED
          BY <2>14, <4>1, <4>2, <4>3
      <3> QED
        BY <3>1, <3>2
    <2>17. (IF cursor' = NoCursor THEN Len(items) ELSE cursor'.offset) = e
      <3>1. CASE e < Len(items)
        <4>1. cursor' = then
          BY <2>1, <2>9, <3>1
        <4>2. then # NoCursor
          BY <2>2, <2>9 DEF NoCursor
        <4> QED
          BY <2>2, <2>9, <4>1, <4>2
      <3>2. CASE ~(e < Len(items))
        <4>1. cursor' = NoCursor
          BY <2>1, <2>9, <3>2
        <4>2. Len(items) = e
          BY <2>4, <2>9, <3>2
        <4> QED
          BY <4>1, <4>2
      <3> QED
        BY <3>1, <3>2
    <2>18. PagesOk'
      <3>1. \A p \in pages' : PageOk(p, first')
        BY <2>10, <2>15
      <3>2. Covered(pages') =
              1 .. (IF cursor' = NoCursor THEN Len(first') ELSE cursor'.offset)
        BY <2>10, <2>16, <2>17
      <3> QED
        BY <3>1, <3>2 DEF PagesOk, PageOk
    <2> QED
      BY <2>1, <2>11, <2>12, <2>18 DEF PInv
  <1> QED
    BY <1>1, <1>2

LEMMA NextPInv ==
  ASSUME PInv, [Next]_vars
  PROVE  PInv'
  <1>1. CASE JournalRefused
    BY <1>1, CallOverPInv DEF JournalRefused, Refuse
  <1>2. CASE Publish
    BY <1>2, CallOverPInv DEF Publish
  <1>4. ASSUME NEW code, RefuseInputs(code) PROVE PInv'
    <2>1. Unread(captured)' = Unread(captured) /\ Order' = Order
      BY <1>4 DEF RefuseInputs, reading, Unread, Order
    <2> QED
      BY <1>4, <2>1 DEF RefuseInputs, reading, session, folderVars, PInv, ReadOk, CursorOk,
                        PagesOk
  <1>3. CASE UNCHANGED vars
    <2>1. Unread(captured)' = Unread(captured) /\ Order' = Order
      BY <1>3 DEF vars, Unread, Order
    <2> QED
      BY <1>3, <2>1 DEF vars, PInv, ReadOk, CursorOk, PagesOk
  <1> QED
    BY <1>1, <1>2, <1>3, <1>4, CallPInv, EnumeratePInv, OpenPInv, ReadPInv, CheckPInv, AnswerPInv,
       OthersPInv
    DEF Next, Agent

\* Whatever happens to the folder and the journal between the calls, the pages
\* that build_round_map and _build_paragraph_history return along a session's
\* cursors are consecutive parts of the one result of the first call, and the
\* last one ends it.
THEOREM PagesFollowOneResult == Spec => []PagesAreOneResult
  <1>1. Init => PInv
    BY InitPInv
  <1>2. PInv /\ [Next]_vars => PInv'
    BY NextPInv
  <1>3. PInv => PagesAreOneResult
    BY DEF PInv, PagesOk, PageOk, Extent, Covered, PagesAreOneResult
  <1> QED
    BY <1>1, <1>2, <1>3, PTL DEF Spec

-----------------------------------------------------------------------------
(* Records about unrelated documents change no map.                         *)

\* A record that passes every test of _classify_apply_record derives.
LEMMA ValidDerives ==
  ASSUME NEW r, ApplyRecord(r), Valid(r)
  PROVE  Derives(r) /\ r.source \in Endpoints(r) /\ r.output \in Endpoints(r)
  <1> DEFINE failed == {i \in 1 .. 9 : ~Tests(r)[i][1]}
  <1>1. r.tool = "apply_edits" /\ Reason(r) = "none"
    BY DEF Valid, Excluded
  <1>2. failed = {}
    <2> SUFFICES ASSUME failed # {} PROVE FALSE
      OBVIOUS
    <2>1. failed \in SUBSET Nat /\ failed \subseteq 1 .. 9
      OBVIOUS
    <2>2. Reason(r) = Tests(r)[Min(failed)][2]
      BY DEF Reason
    <2> HIDE DEF failed
    <2>3. Min(failed) \in 1 .. 9
      <3>1. \E x \in failed : \A y \in failed : x <= y
        BY <2>1, LeastExists
      <3> QED
        BY <2>1, <3>1 DEF Min
    <2>4. \A i \in 1 .. 9 : Tests(r)[i][2] # "none"
      BY DEF Tests
    <2> QED
      BY <1>1, <2>2, <2>3, <2>4
  <1>3. \A i \in 1 .. 9 : Tests(r)[i][1]
    BY <1>2
  <1>4. r.status = "ok"
    <2>1. Tests(r)[1][1]
      BY <1>3
    <2> QED
      BY <2>1 DEF Tests
  <1>5. r.source # None
    <2>1. Tests(r)[2][1]
      BY <1>3
    <2> QED
      BY <2>1 DEF Tests
  <1>6. r.output # None
    <2>1. Tests(r)[3][1]
      BY <1>3
    <2> QED
      BY <2>1 DEF Tests
  <1>7. r.output = r.resultOutput
    <2>1. Tests(r)[4][1]
      BY <1>3
    <2> QED
      BY <2>1 DEF Tests
  <1>8. r.check # "failed"
    <2>1. Tests(r)[5][1]
      BY <1>3
    <2> QED
      BY <2>1 DEF Tests
  <1>9. (r.check = "legacy") <=> (r.resultSource = None)
    <2>1. Tests(r)[6][1]
      BY <1>3
    <2> QED
      BY <2>1 DEF Tests
  <1>10. r.check = "legacy" \/ r.resultSource = r.source
    <2>1. Tests(r)[7][1]
      BY <1>3
    <2> QED
      BY <2>1 DEF Tests
  <1>11. r.strength = "none" \/ (r.check = "current" /\ r.strength # "partial")
    <2>1. Tests(r)[8][1]
      BY <1>3
    <2> QED
      BY <2>1 DEF Tests
  <1>12. r.strength # "differing"
    <2>1. Tests(r)[9][1]
      BY <1>3
    <2> QED
      BY <2>1 DEF Tests
  <1>13. Derives(r)
    BY <1>1, <1>4, <1>5, <1>6, <1>7, <1>8, <1>9, <1>10, <1>11, <1>12
    DEF Derives, ApplyRecord
  <1> QED
    BY <1>5, <1>6, <1>13 DEF Endpoints

\* Connected holds its start and is closed under the derivations of the
\* journal, in both directions.
LEMMA ConnectedIsClosed ==
  ASSUME NEW current, NEW records, \A k \in DOMAIN records : ApplyRecord(records[k])
  PROVE  /\ current \subseteq Connected(current, records)
         /\ \A d \in Connected(current, records) :
              Neighbours(records, d) \subseteq Connected(current, records)
  <1> DEFINE E == Edges(records) \cup {<<e[2], e[1]>> : e \in Edges(records)}
             C == Connected(current, records)
  <1>1. C = Reachable(E, current)
    BY DEF Connected
  <1> HIDE DEF C
  <1>2. current \subseteq C
    <2> HIDE DEF E
    <2> QED
      BY <1>1 DEF Reachable
  <1>3. \A e \in E : e[1] \in C => e[2] \in C
    <2> HIDE DEF E
    <2> QED
      BY <1>1 DEF Reachable
  <1>4. ASSUME NEW d \in C, NEW k \in DOMAIN records, Valid(records[k])
        PROVE  /\ records[k].source = d => records[k].output \in C
               /\ records[k].output = d => records[k].source \in C
    <2> DEFINE s == records[k].source
               o == records[k].output
    <2>1. <<s, o>> \in Edges(records)
      BY <1>4, ValidDerives DEF Edges
    <2> HIDE DEF s, o
    <2>2. <<s, o>> \in E /\ <<o, s>> \in E
      BY <2>1
    <2> HIDE DEF E
    <2>3. (s \in C => o \in C) /\ (o \in C => s \in C)
      BY <1>3, <2>2
    <2> QED
      BY <2>3 DEF s, o
  <1>5. \A d \in C : Neighbours(records, d) \subseteq C
    BY <1>4 DEF Neighbours
  <1> QED
    BY <1>2, <1>5 DEF C

\* The journal has grown by records that touch nothing connected to the folder.
Unrelated(current, before, after) ==
    /\ IsSequence(before)
    /\ IsSequence(after)
    /\ \A k \in DOMAIN after : ApplyRecord(after[k])
    /\ Len(before) <= Len(after)
    /\ \A k \in 1 .. Len(before) : before[k] = after[k]
    /\ \A k \in Len(before) + 1 .. Len(after) :
         after[k].tool = "apply_edits" =>
           Endpoints(after[k]) \cap Connected(current, after) = {}

\* A record of the longer journal that touches what is connected is an old one.
LEMMA TouchingRecords ==
  ASSUME NEW current, NEW before, NEW after, Unrelated(current, before, after)
  PROVE  /\ DOMAIN before \subseteq DOMAIN after
         /\ \A k \in DOMAIN before : before[k] = after[k]
         /\ \A k \in DOMAIN after :
              /\ after[k].tool = "apply_edits"
              /\ Endpoints(after[k]) \cap Connected(current, after) # {}
              => k \in DOMAIN before
  <1>1. /\ DOMAIN before = 1 .. Len(before) /\ Len(before) \in Nat
        /\ DOMAIN after = 1 .. Len(after) /\ Len(after) \in Nat
    BY SequenceFacts DEF Unrelated
  <1> QED
    BY <1>1 DEF Unrelated

LEMMA SameNeighbours ==
  ASSUME NEW current, NEW before, NEW after, Unrelated(current, before, after),
         NEW d \in Connected(current, after)
  PROVE  Neighbours(before, d) = Neighbours(after, d)
  <1>1. ASSUME NEW k \in DOMAIN after, Valid(after[k]),
               after[k].source = d \/ after[k].output = d
        PROVE  k \in DOMAIN before
    <2>1. after[k].tool = "apply_edits"
      BY <1>1 DEF Valid, Excluded
    <2>2. d \in Endpoints(after[k])
      BY <1>1, ValidDerives DEF Unrelated
    <2> QED
      BY <2>1, <2>2, TouchingRecords
  <1>2. DOMAIN before \subseteq DOMAIN after /\ \A k \in DOMAIN before : before[k] = after[k]
    BY TouchingRecords
  <1>3. {k \in DOMAIN before : Valid(before[k]) /\ before[k].source = d} =
        {k \in DOMAIN after : Valid(after[k]) /\ after[k].source = d}
    BY <1>1, <1>2
  <1>4. {k \in DOMAIN before : Valid(before[k]) /\ before[k].output = d} =
        {k \in DOMAIN after : Valid(after[k]) /\ after[k].output = d}
    BY <1>1, <1>2
  <1>5. \A x : x \in Neighbours(before, d) <=> x \in Neighbours(after, d)
    BY <1>2, <1>3, <1>4 DEF Neighbours
  <1> QED
    BY <1>5

LEMMA SameRounds ==
  ASSUME NEW current, NEW before, NEW after, Unrelated(current, before, after), NEW n \in Nat
  PROVE  /\ Rounds(current, before)[n] = Rounds(current, after)[n]
         /\ Rounds(current, after)[n] \subseteq Connected(current, after)
  <1> DEFINE B == Rounds(current, before)
             A == Rounds(current, after)
             C == Connected(current, after)
             S == {k \in Nat : B[k] = A[k] /\ A[k] \subseteq C}
  <1>1. /\ B[0] = current /\ A[0] = current
        /\ \A k \in Nat : /\ B[k + 1] = WithNeighbours(before, B[k])
                          /\ A[k + 1] = WithNeighbours(after, A[k])
    BY RoundsUnfold
  <1>2. current \subseteq C /\ \A d \in C : Neighbours(after, d) \subseteq C
    BY ConnectedIsClosed DEF Unrelated
  <1>3. \A d \in C : Neighbours(before, d) = Neighbours(after, d)
    BY SameNeighbours
  <1> HIDE DEF A, B, C
  <1>4. 0 \in S
    BY <1>1, <1>2
  <1>5. ASSUME NEW k \in Nat, k \in S PROVE k + 1 \in S
    <2>1. B[k] = A[k] /\ A[k] \subseteq C
      BY <1>5
    <2>2. {Neighbours(before, d) : d \in A[k]} = {Neighbours(after, d) : d \in A[k]}
      BY <1>3, <2>1
    <2>3. B[k + 1] = A[k + 1]
      BY <1>1, <2>1, <2>2 DEF WithNeighbours
    <2>4. A[k + 1] \subseteq C
      BY <1>1, <1>2, <2>1 DEF WithNeighbours
    <2> QED
      BY <2>3, <2>4
  <1> HIDE DEF S
  <1>6. Nat \subseteq S
    BY <1>4, <1>5, NatSet
  <1> QED
    BY <1>6 DEF S, A, B, C

\* Such records change nothing of what a map says.
LEMMA SameEvidence ==
  ASSUME NEW kind, NEW files, NEW seed, NEW before, NEW after,
         Unrelated({files[i].document : i \in DOMAIN files}, before, after)
  PROVE  MapEvidence(kind, files, seed, before) = MapEvidence(kind, files, seed, after)
  <1> DEFINE current == {files[i].document : i \in DOMAIN files}
             nodes == Included(current, after)
  <1>1. DOMAIN before \subseteq DOMAIN after /\ \A k \in DOMAIN before : before[k] = after[k]
    BY TouchingRecords
  <1>2. Included(current, before) = nodes /\ nodes \subseteq Connected(current, after)
    <2>1. Cardinality(Documents) \in Nat
      BY ContentAssumption, FS_CardinalityType
    <2> HIDE DEF current
    <2> QED
      BY <2>1, SameRounds DEF Included, current
  <1>3. ASSUME NEW k \in DOMAIN after, ~Excluded(after[k]), Endpoints(after[k]) \cap nodes # {}
        PROVE  k \in DOMAIN before
    BY <1>2, <1>3, TouchingRecords DEF Excluded
  <1>4. Supporting(nodes, before) = Supporting(nodes, after)
    <2>1. ASSUME NEW k \in DOMAIN after, Valid(after[k]),
                 {after[k].source, after[k].output} \cap nodes # {}
          PROVE  k \in DOMAIN before
      <3>1. Endpoints(after[k]) \cap nodes # {}
        BY <2>1, ValidDerives DEF Unrelated
      <3> QED
        BY <2>1, <3>1, <1>3 DEF Valid
    <2> HIDE DEF nodes
    <2> QED
      BY <1>1, <2>1 DEF Supporting
  <1>5. Conflicting(nodes, before) = Conflicting(nodes, after)
    <2>1. ASSUME NEW k \in DOMAIN after, Conflict(after[k]), Endpoints(after[k]) \cap nodes # {}
          PROVE  k \in DOMAIN before
      BY <2>1, <1>3 DEF Conflict
    <2> HIDE DEF nodes
    <2> QED
      BY <1>1, <2>1 DEF Conflicting
  <1> DEFINE support == Supporting(nodes, after)
             against == Conflicting(nodes, after)
  <1>6. support \subseteq DOMAIN before /\ against \subseteq DOMAIN before
    BY <1>4, <1>5 DEF Supporting, Conflicting
  <1>7. \A k \in support : before[k] = after[k]
    BY <1>1, <1>6
  <1>8. \A k \in against : before[k] = after[k]
    BY <1>1, <1>6
  <1> HIDE DEF nodes, support, against
  <1> DEFINE edge(j, k) == <<j[k].source, j[k].output>>
             edges(j) == {edge(j, k) : k \in support}
             along(j, e) == {k \in support : edge(j, k) = e}
             derivation(j, e) == [edge |-> e, records |-> along(j, e),
                                  profiles |-> {Profile(j[k]) : k \in along(j, e)}]
             derivations(j) == {derivation(j, e) : e \in edges(j)}
             conflict(j, k) == [record |-> k, reason |-> Reason(j[k]),
                                affected |-> Endpoints(j[k]) \cap nodes]
             conflicts(j) == {conflict(j, k) : k \in against}
             ev(j) == MapEvidence(kind, files, seed, j)
             section == SectionOf(seed)
             headings == UNION {SectionsOf(d) : d \in current}
             rest(ds, cs) ==
               [ kind |-> kind, files |-> files, seed |-> seed, nodes |-> nodes,
                 derivations |-> ds,
                 exact |-> {p \in UNION {ParagraphsOf(d) : d \in current} :
                              Text(p) = Text(seed)} \ {seed},
                 section |-> section,
                 headings |-> {t \in headings \ section :
                                 \E s \in section : Signals(s, t) # {}},
                 conflicts |-> cs ]
  <1>9. ev(before) = rest(derivations(before), conflicts(before))
    BY <1>2, <1>4, <1>5 DEF MapEvidence, nodes, support, against
  <1>10. ev(after) = rest(derivations(after), conflicts(after))
    BY DEF MapEvidence, nodes, support, against
  <1> HIDE DEF ev, rest
  <1>11. derivations(before) = derivations(after)
    <2>1. \A k \in support : edge(before, k) = edge(after, k)
      BY <1>7
    <2>2. \A k \in support : Profile(before[k]) = Profile(after[k])
      BY <1>7
    <2> HIDE DEF edge
    <2>3. edges(before) = edges(after)
      BY <2>1
    <2>4. ASSUME NEW e PROVE along(before, e) = along(after, e) /\ along(after, e) \subseteq support
      BY <2>1
    <2> HIDE DEF edges, along
    <2>5. ASSUME NEW e PROVE derivation(before, e) = derivation(after, e)
      <3>1. along(before, e) = along(after, e) /\ along(after, e) \subseteq support
        BY <2>4
      <3>2. {Profile(before[k]) : k \in along(after, e)} = {Profile(after[k]) : k \in along(after, e)}
        BY <2>2, <3>1
      <3> QED
        BY <3>1, <3>2
    <2> HIDE DEF derivation
    <2> QED
      BY <2>3, <2>5
  <1>12. conflicts(before) = conflicts(after)
    <2>1. \A k \in against : conflict(before, k) = conflict(after, k)
      BY <1>8
    <2> HIDE DEF conflict
    <2> QED
      BY <2>1
  <1> HIDE DEF derivations, conflicts
  <1> QED
    BY <1>9, <1>10, <1>11, <1>12 DEF ev

-----------------------------------------------------------------------------
(* A cursor dies only of a change to what it is about.                      *)

(* What a cursor is bound to, of the files and the journal its page was      *)
(* computed from.                                                            *)
EvidenceOf(files, records) == MapEvidence(task.order, Seen(files), task.seed, records)
ResultOf(files, records) ==
    IF IsMap THEN MapItems(EvidenceOf(files, records))
    ELSE HistoryItems(Seen(files), task.seed)
BindingOf(files, records) ==
    IF IsMap THEN [files |-> Seen(files), records |-> RelevantRecords(EvidenceOf(files, records)),
                   items |-> ResultOf(files, records)]
    ELSE [files |-> files, records |-> {}, items |-> ResultOf(files, records)]

LEMMA BindingIsOf == Binding(Complete) = BindingOf(captured, journal)
  <1>1. Files = Seen(captured)
    BY DEF Files, Seen
  <1> QED
    BY <1>1 DEF Binding, HistoryBinding, BindingOf, Complete, ResultOf, Evidence, EvidenceOf

(* The journal only grows, and a cursor is bound to the files and the        *)
(* journal of the last page.                                                 *)
BInv ==
    /\ \A k \in DOMAIN journal : ApplyRecord(journal[k])
    /\ IsSequence(shown.journal)
    /\ Len(shown.journal) <= Len(journal)
    /\ \A k \in 1 .. Len(shown.journal) : shown.journal[k] = journal[k]
    /\ cursor # NoCursor => cursor.binding = BindingOf(shown.files, shown.journal)
    /\ pc = "publish" => answer.status = "ok"
    /\ UnrelatedChangesTolerated

LEMMA InitBInv == Init => BInv
  <1> SUFFICES ASSUME Init PROVE BInv
    OBVIOUS
  <1>1. task \in Tasks /\ journal = task.journal /\ journal \in Seq(ToSet(journal))
    BY TasksAssumption DEF Init
  <1>2. \A k \in DOMAIN journal : ApplyRecord(journal[k])
    BY <1>1, TasksAssumption DEF ToSet
  <1>3. shown.journal = <<>> /\ Len(journal) \in Nat
    BY <1>1 DEF Init, Nothing
  <1>4. IsSequence(shown.journal) /\ Len(shown.journal) = 0
    BY <1>3 DEF IsSequence
  <1>5. answer.code = "none"
    BY DEF Init, Refusal
  <1>6. UnrelatedChangesTolerated
    BY <1>5 DEF UnrelatedChangesTolerated, Refusal
  <1> QED
    BY <1>2, <1>3, <1>4, <1>6 DEF BInv, Init

\* What a step that does not compute leaves of it.
LEMMA KeptBInv ==
  ASSUME PInv, BInv, UNCHANGED <<task, cursor, shown>>,
         \/ journal' = journal
         \/ \E r : journal' = Append(journal, r) /\ ApplyRecord(r),
         pc' = "publish" => answer'.status = "ok",
         \/ answer' = answer /\ basis' = basis /\ (pc' = pc \/ answer.status = "ok")
         \/ pc' # "idle"
         \/ answer' # Refusal("cursor_mismatch")
  PROVE  BInv'
  <1>1. IsSequence(journal) /\ Len(journal) \in Nat /\ DOMAIN journal = 1 .. Len(journal)
    BY SequenceFacts DEF PInv, ReadOk
  <1>2. /\ \A k \in DOMAIN journal' : ApplyRecord(journal'[k])
        /\ Len(journal') \in Nat
        /\ Len(journal) <= Len(journal')
        /\ \A k \in 1 .. Len(journal) : journal[k] = journal'[k]
    <2>1. CASE journal' = journal
      BY <2>1, <1>1 DEF BInv
    <2>2. ASSUME NEW r, journal' = Append(journal, r), ApplyRecord(r)
          PROVE  /\ \A k \in DOMAIN journal' : ApplyRecord(journal'[k])
                 /\ Len(journal') \in Nat
                 /\ Len(journal) <= Len(journal')
                 /\ \A k \in 1 .. Len(journal) : journal[k] = journal'[k]
      <3> DEFINE S == {journal[i] : i \in DOMAIN journal} \cup {r}
      <3>1. journal \in Seq(S) /\ r \in S
        BY <1>1 DEF IsSequence
      <3> HIDE DEF S
      <3>2. /\ DOMAIN journal' = 1 .. Len(journal) + 1
            /\ Len(journal') = Len(journal) + 1
            /\ \A k \in 1 .. Len(journal) : journal'[k] = journal[k]
            /\ journal'[Len(journal) + 1] = r
        <4> DEFINE longer == Append(journal, r)
        <4>1. /\ Len(longer) = Len(journal) + 1
              /\ DOMAIN longer = 1 .. Len(journal) + 1
              /\ \A k \in 1 .. Len(journal) : longer[k] = journal[k]
              /\ longer[Len(journal) + 1] = r
          BY <3>1
        <4> HIDE DEF longer
        <4> QED
          BY <2>2, <4>1 DEF longer
      <3>3. \A k \in DOMAIN journal' : k = Len(journal) + 1 \/ k \in DOMAIN journal
        BY <1>1, <3>2
      <3>4. \A k \in DOMAIN journal' : ApplyRecord(journal'[k])
        BY <1>1, <2>2, <3>2, <3>3 DEF BInv
      <3> QED
        BY <1>1, <3>2, <3>4
    <2> QED
      BY <2>1, <2>2
  <1>3. Len(shown.journal) \in Nat
    BY SequenceFacts DEF BInv
  <1>4. /\ Len(shown.journal) <= Len(journal')
        /\ \A k \in 1 .. Len(shown.journal) : shown.journal[k] = journal'[k]
    BY <1>1, <1>2, <1>3 DEF BInv
  <1>5. UnrelatedChangesTolerated'
    <2>1. CASE answer' = answer /\ basis' = basis /\ pc' = pc
      BY <2>1 DEF BInv, UnrelatedChangesTolerated, IsMap
    <2>2. CASE answer' = answer /\ answer.status = "ok"
      BY <2>2 DEF UnrelatedChangesTolerated, Refusal
    <2>3. CASE pc' # "idle" \/ answer' # Refusal("cursor_mismatch")
      BY <2>3 DEF UnrelatedChangesTolerated, Refusal
    <2> QED
      BY <2>1, <2>2, <2>3
  <1>6. BindingOf(shown.files, shown.journal)' = BindingOf(shown.files, shown.journal)
    BY DEF BindingOf, ResultOf, EvidenceOf, IsMap
  <1> QED
    BY <1>2, <1>4, <1>5, <1>6 DEF BInv

\* A sequence of steps fails with one of the faults of its steps.
LEMMA FirstFaultIsOne ==
  ASSUME NEW faults, NEW n \in Nat, DOMAIN faults = 1 .. n
  PROVE  FirstFault(faults) = "none" \/ \E i \in DOMAIN faults : FirstFault(faults) = faults[i]
  <1> DEFINE at == {i \in DOMAIN faults : faults[i] # "none"}
             least == CHOOSE i \in at : \A j \in at : i <= j
  <1>1. CASE at = {}
    BY <1>1 DEF FirstFault
  <1>2. CASE at # {}
    <2>1. at \in SUBSET Nat
      OBVIOUS
    <2>2. at \subseteq DOMAIN faults /\ FirstFault(faults) = faults[least]
      BY <1>2 DEF FirstFault
    <2> HIDE DEF at
    <2>3. least \in at
      BY <1>2, <2>1, LeastExists
    <2> QED
      BY <2>2, <2>3
  <1> QED
    BY <1>1, <1>2

\* Only a cursor that does not match is refused as one.
LEMMA MismatchRefused ==
  ASSUME PInv, pc = "answer", Fault(Complete) = "cursor_mismatch"
  PROVE  Mismatch(Complete)
  <1>1. CASE IsMap
    BY <1>1 DEF Fault, MapFault
  <1>2. CASE ~IsMap
    <2> DEFINE n == Len(captured)
               parses == [k \in DOMAIN Files |->
                            IF ~Content[Files[k].document].readable THEN "invalid_docx"
                            ELSE IF Indexed(Files, k) > MaxParagraphs
                            THEN "resource_limit_exceeded" ELSE "none"]
               made == [k \in DOMAIN Complete |->
                          IF ~OneReasonEach(Complete[k]) THEN "output_contract_error"
                          ELSE IF Complete[k].selected # {} /\
                                  ~Content[Complete[k].document].extractable
                          THEN "file_unextractable"
                          ELSE IF SelectedUnits(Complete, k) > MaxUnits \/
                                  Weight(Complete[k]) > ObservationWeight
                          THEN "resource_limit_exceeded" ELSE "none"]
    <2>1. n \in Nat /\ DOMAIN parses = 1 .. n
      BY SequenceFacts DEF PInv, ReadOk, Files
    <2>2. Len(Complete) \in Nat /\ DOMAIN made = 1 .. Len(Complete)
      BY CompleteIsASequence, SequenceFacts
    <2>3. /\ ParseFault(Files) = FirstFault(parses)
          /\ MaterializeFault(Complete) = FirstFault(made)
      BY DEF ParseFault, MaterializeFault
    <2>4. /\ \A i \in DOMAIN parses : parses[i] # "cursor_mismatch"
          /\ \A i \in DOMAIN made : made[i] # "cursor_mismatch"
      OBVIOUS
    <2> HIDE DEF n, parses, made
    <2>5. ParseFault(Files) # "cursor_mismatch" /\ MaterializeFault(Complete) # "cursor_mismatch"
      BY <2>1, <2>2, <2>3, <2>4, FirstFaultIsOne
    <2> QED
      BY <1>2, <2>5 DEF Fault, HistoryFault
  <1> QED
    BY <1>1, <1>2

\* A cursor is refused only after a change it is about.
LEMMA RefusedCursor ==
  ASSUME PInv, BInv, pc = "answer", Fault(Complete) = "cursor_mismatch"
  PROVE  \/ IsMap /\ Seen(captured) # Seen(shown.files)
         \/ ~IsMap /\ captured # shown.files
         \/ /\ IsMap
            /\ \E k \in Len(shown.journal) + 1 .. Len(journal) :
                 LET r == journal[k]
                     current == {captured[i].document : i \in DOMAIN captured}
                 IN  /\ r.tool = "apply_edits"
                     /\ Endpoints(r) \cap Connected(current, journal) # {}
  <1>1. cursor # NoCursor /\ cursor.binding # Binding(Complete)
    BY MismatchRefused DEF Mismatch, PInv, CursorOk
  <1>2. BindingOf(shown.files, shown.journal) # BindingOf(captured, journal)
    BY <1>1, BindingIsOf DEF BInv
  <1>3. CASE ~IsMap
    <2>1. captured # shown.files
      <3> SUFFICES ASSUME captured = shown.files PROVE FALSE
        OBVIOUS
      <3> QED
        BY <1>2, <1>3 DEF BindingOf, ResultOf
    <2> QED
      BY <1>3, <2>1
  <1>4. CASE IsMap
    <2> DEFINE current == {captured[i].document : i \in DOMAIN captured}
    <2> SUFFICES ASSUME Seen(captured) = Seen(shown.files),
                        \A k \in Len(shown.journal) + 1 .. Len(journal) :
                          journal[k].tool = "apply_edits" =>
                            Endpoints(journal[k]) \cap Connected(current, journal) = {}
                 PROVE  FALSE
      BY <1>4
    <2>1. current = {Seen(captured)[i].document : i \in DOMAIN Seen(captured)}
      BY DEF Seen
    <2>2. Unrelated(current, shown.journal, journal)
      BY DEF Unrelated, BInv, PInv, ReadOk
    <2> HIDE DEF current
    <2>3. EvidenceOf(shown.files, shown.journal) = EvidenceOf(captured, journal)
      BY <2>1, <2>2, SameEvidence DEF EvidenceOf
    <2> QED
      BY <1>2, <1>4, <2>3 DEF BindingOf, ResultOf
  <1> QED
    BY <1>3, <1>4

LEMMA AnswerBInv ==
  ASSUME PInv, BInv, Answer
  PROVE  BInv'
  <1>1. /\ pc = "answer"
        /\ basis' = [files |-> captured, journal |-> journal]
        /\ journal' = journal
        /\ task' = task
    BY DEF Answer, CallOver
  <1>2. CASE CallOver
    <2>1. /\ answer' = Refusal(Fault(Complete))
          /\ pc' = "idle"
          /\ UNCHANGED <<cursor, shown>>
      BY <1>2 DEF Answer, CallOver, session
    <2>2. CASE Fault(Complete) # "cursor_mismatch"
      <3>1. answer' # Refusal("cursor_mismatch")
        BY <2>1, <2>2 DEF Refusal
      <3> QED
        BY <1>1, <2>1, <3>1, KeptBInv
    <2>3. CASE Fault(Complete) = "cursor_mismatch"
      <3>1. UnrelatedChangesTolerated'
        BY <1>1, <2>1, <2>3, RefusedCursor DEF UnrelatedChangesTolerated, IsMap
      <3>2. BindingOf(shown.files, shown.journal)' = BindingOf(shown.files, shown.journal)
        BY <1>1, <2>1 DEF BindingOf, ResultOf, EvidenceOf, IsMap
      <3> QED
        BY <1>1, <2>1, <3>1, <3>2 DEF BInv
    <2> QED
      BY <2>2, <2>3
  <1>3. CASE ~CallOver
    <2> DEFINE items == Complete
    <2>1. /\ answer'.status = "ok"
          /\ cursor' # NoCursor => cursor'.binding = Binding(items)
          /\ shown' = basis'
          /\ pc' = "publish"
      BY <1>3 DEF Answer, Result
    <2>2. shown'.files = captured /\ shown'.journal = journal
      BY <1>1, <2>1
    <2>3. cursor' # NoCursor => cursor'.binding = BindingOf(captured, journal)
      BY <2>1, BindingIsOf
    <2>4. BindingOf(shown.files, shown.journal)' = BindingOf(captured, journal)
      BY <1>1, <2>2 DEF BindingOf, ResultOf, EvidenceOf, IsMap
    <2>5. IsSequence(journal) /\ Len(journal) \in Nat
      BY SequenceFacts DEF PInv, ReadOk
    <2>6. UnrelatedChangesTolerated'
      BY <2>1 DEF UnrelatedChangesTolerated
    <2> QED
      BY <1>1, <2>1, <2>2, <2>3, <2>4, <2>5, <2>6 DEF BInv
  <1> QED
    BY <1>2, <1>3

LEMMA RefuseBInv ==
  ASSUME PInv, BInv, NEW code, Refuse(code), code # "cursor_mismatch"
  PROVE  BInv'
  <1>1. answer' # Refusal("cursor_mismatch")
    BY DEF Refuse, Refusal
  <1> QED
    BY <1>1, KeptBInv DEF Refuse, CallOver, session

LEMMA NextBInv ==
  ASSUME PInv, BInv, [Next]_vars
  PROVE  BInv'
  <1>1. ASSUME NEW size, NEW from, Call(size, from)
        PROVE  BInv'
    BY <1>1, KeptBInv DEF Call, session
  <1>10. ASSUME NEW code \in InputFaults, RefuseInputs(code)
         PROVE  BInv'
    <2>1. answer' # Refusal("cursor_mismatch")
      BY <1>10 DEF RefuseInputs, Refusal, InputFaults
    <2> QED
      BY <1>10, <2>1, KeptBInv DEF RefuseInputs, session
  <1>2. CASE Enumerate
    <2>1. CASE \E code : code # "cursor_mismatch" /\ Refuse(code)
      BY <2>1, RefuseBInv
    <2>2. CASE ~\E code : code # "cursor_mismatch" /\ Refuse(code)
      BY <1>2, <2>2, KeptBInv DEF Enumerate, session
    <2> QED
      BY <2>1, <2>2
  <1>3. CASE Open
    <2>1. CASE \E code : code # "cursor_mismatch" /\ Refuse(code)
      BY <2>1, RefuseBInv
    <2>2. CASE ~\E code : code # "cursor_mismatch" /\ Refuse(code)
      BY <1>3, <2>2, KeptBInv DEF Open, session
    <2> QED
      BY <2>1, <2>2
  <1>4. CASE Read
    <2>1. CASE \E code : code # "cursor_mismatch" /\ Refuse(code)
      BY <2>1, RefuseBInv
    <2>2. CASE ~\E code : code # "cursor_mismatch" /\ Refuse(code)
      BY <1>4, <2>2, KeptBInv DEF Read, session
    <2> QED
      BY <2>1, <2>2
  <1>5. CASE Recheck \/ Restat
    <2>1. CASE \E code : code # "cursor_mismatch" /\ Refuse(code)
      BY <2>1, RefuseBInv
    <2>2. CASE ~\E code : code # "cursor_mismatch" /\ Refuse(code)
      BY <1>5, <2>2, KeptBInv DEF Recheck, Restat, session
    <2> QED
      BY <2>1, <2>2
  <1>6. CASE JournalRefused
    BY <1>6, RefuseBInv DEF JournalRefused
  <1>7. CASE Publish
    <2>1. /\ pc = "publish" /\ pc' = "idle"
          /\ UNCHANGED <<task, answer, basis, cursor, shown>>
          /\ journal' = Append(journal, Record) \/ journal' = journal
      BY <1>7 DEF Publish, CallOver, session
    <2>2. ApplyRecord(Record)
      BY DEF Record, HistoryRecord, ApplyRecord
    <2>3. answer.status = "ok"
      BY <2>1 DEF BInv
    <2> QED
      BY <2>1, <2>2, <2>3, KeptBInv
  <1>8. CASE Others
    <2>1. ASSUME NEW n, NEW d, NEW inode, Change(n, d, inode)
          PROVE  BInv'
      BY <2>1, KeptBInv DEF Change, session, BInv
    <2>2. ASSUME NEW r \in ApplyRecords, RecordApply(r)
          PROVE  BInv'
      <3>1. ApplyRecord(r)
        BY TasksAssumption DEF PInv
      <3> QED
        BY <2>2, <3>1, KeptBInv DEF RecordApply, session, BInv
    <2> QED
      BY <1>8, <2>1, <2>2 DEF Others, SaveInPlace, Replace, TakeAway
  <1>9. CASE UNCHANGED vars
    BY <1>9, KeptBInv DEF vars, BInv
  <1> QED
    BY <1>1, <1>2, <1>3, <1>4, <1>5, <1>6, <1>7, <1>8, <1>9, <1>10, AnswerBInv
    DEF Next, Agent

\* _cursor_binding takes its digests of what the result says and of nothing
\* else: no record of another tool or about unrelated documents, however many
\* are written, ends a session.
THEOREM CursorsOutliveTheUnrelated == Spec => []UnrelatedChangesTolerated
  <1>1. Init => PInv /\ BInv
    BY InitPInv, InitBInv
  <1>2. PInv /\ BInv /\ [Next]_vars => (PInv /\ BInv)'
    BY NextPInv, NextBInv
  <1>3. BInv => UnrelatedChangesTolerated
    BY DEF BInv
  <1> QED
    BY <1>1, <1>2, <1>3, PTL DEF Spec

-----------------------------------------------------------------------------
(* A history is the folder at one moment.                                   *)

Stamp == [inode : Nat, version : Nat]

(* The versions of the files only grow, and none is newer than the clock.    *)
FolderOk ==
    /\ clock \in Nat
    /\ DOMAIN folder = NameSet
    /\ stamp \in [NameSet -> Stamp]
    /\ \A n \in NameSet : stamp[n].version <= clock

(* A file that still has the version it was read with holds what was read.   *)
CaptureOk ==
    /\ captured \in Seq({captured[i] : i \in DOMAIN captured})
    /\ \A i \in DOMAIN captured : \A n \in NameSet :
         captured[i].name = n =>
            /\ captured[i].stamp \in Stamp
            /\ captured[i].stamp.version <= moment.stamp[n].version
            /\ captured[i].stamp.version = moment.stamp[n].version =>
                 moment.folder[n] = captured[i].document
            /\ moment.stamp[n].version <= stamp[n].version
            /\ moment.stamp[n].version \in Nat
            /\ stamp[n].version = captured[i].stamp.version =>
                 folder[n] = captured[i].document

(* The files looked at again were still the files read at the last read.     *)
CheckedOk ==
    /\ checked \in Nat
    /\ pc \in {"idle", "enumerate", "open", "read", "recheck"} => checked = 0
    /\ \A i \in DOMAIN captured : \A n \in NameSet :
         i <= checked /\ captured[i].name = n => moment.folder[n] = captured[i].document
    /\ ~IsMap /\ pc = "answer" => checked = Len(captured)

RInv ==
    /\ task \in Tasks
    /\ FolderOk
    /\ CaptureOk
    /\ CheckedOk
    /\ HistoryIsOneMoment

USE DEF IsMap

-----------------------------------------------------------------------------
LEMMA InitRInv == Init => RInv
  <1> SUFFICES ASSUME Init PROVE RInv
    OBVIOUS
  <1>1. task.folder \in [NameSet -> Documents \cup {NoFile}]
    BY TasksAssumption DEF Init
  <1>2. FolderOk
    BY <1>1 DEF Init, FolderOk, Stamp, NoStamp
  <1>3. CaptureOk
    BY DEF Init, CaptureOk
  <1>4. CheckedOk /\ HistoryIsOneMoment
    BY DEF Init, CheckedOk, HistoryIsOneMoment
  <1> QED
    BY <1>2, <1>3, <1>4 DEF RInv, Init

(* A step that ends the call forgets what the call read.                     *)
LEMMA CallOverRInv ==
  ASSUME RInv, CallOver
  PROVE  RInv'
  <1>1. FolderOk'
    BY DEF RInv, CallOver, FolderOk, folderVars
  <1>2. CaptureOk'
    BY DEF CallOver, CaptureOk
  <1>3. CheckedOk' /\ HistoryIsOneMoment'
    BY DEF CallOver, CheckedOk, HistoryIsOneMoment
  <1> QED
    BY <1>1, <1>2, <1>3 DEF RInv, CallOver

(* A step that leaves folder and capture alone.                              *)
LEMMA SameReading ==
  ASSUME RInv, UNCHANGED <<task, folderVars, clock, captured, moment, checked>>,
         pc' \in {"idle", "enumerate", "open", "read", "recheck", "restat", "answer"},
         pc \in {"idle", "enumerate", "open", "read", "recheck"},
         pc' = "answer" => IsMap
  PROVE  RInv'
  <1>1. FolderOk'
    BY DEF RInv, FolderOk, folderVars
  <1>2. CaptureOk'
    BY DEF RInv, CaptureOk, folderVars
  <1>3. CheckedOk' /\ HistoryIsOneMoment'
    BY DEF RInv, CheckedOk, HistoryIsOneMoment
  <1> QED
    BY <1>1, <1>2, <1>3 DEF RInv

LEMMA ReadRInv ==
  ASSUME RInv, Read
  PROVE  RInv'
  <1>1. CASE Refuse("workspace_changed")
    BY <1>1, CallOverRInv DEF Refuse
  <1>2. CASE ~Refuse("workspace_changed")
    <2> DEFINE name == NextName
               new == [name |-> name, document |-> folder[name], stamp |-> opened]
               S == {captured[i] : i \in DOMAIN captured}
    <2>1. /\ pc = "read"
          /\ stamp[name] = opened
          /\ captured' = Append(captured, new)
          /\ moment' = [folder |-> folder, stamp |-> stamp]
          /\ pc' \in {"recheck", "open"}
          /\ checked' = checked
          /\ UNCHANGED <<task, folderVars, clock>>
      BY <1>2 DEF Read
    <2> HIDE DEF name
    <2>2. captured \in Seq(S) /\ captured \in Seq(S \cup {new}) /\ new \in S \cup {new}
      BY DEF RInv, CaptureOk
    <2>3. /\ Len(captured') = Len(captured) + 1
          /\ DOMAIN captured' = 1 .. Len(captured) + 1
          /\ DOMAIN captured = 1 .. Len(captured)
          /\ Len(captured) \in Nat
          /\ \A i \in DOMAIN captured : captured'[i] = captured[i]
          /\ captured'[Len(captured) + 1] = new
      BY <2>1, <2>2
    <2>4. FolderOk'
      BY <2>1 DEF RInv, FolderOk, folderVars
    <2>5. CaptureOk'
      <3>1. captured' \in Seq({captured'[i] : i \in DOMAIN captured'})
        BY <2>1, <2>2, <2>3
      <3>2. ASSUME NEW i \in DOMAIN captured', NEW n \in NameSet, captured'[i].name = n
            PROVE  /\ captured'[i].stamp \in Stamp
                   /\ captured'[i].stamp.version <= stamp[n].version
                   /\ captured'[i].stamp.version = stamp[n].version =>
                        folder[n] = captured'[i].document
        <4>0. stamp[n] \in Stamp /\ stamp[n].version \in Nat
          BY DEF RInv, FolderOk, Stamp
        <4>1. CASE i = Len(captured) + 1
          BY <4>0, <4>1, <3>2, <2>1, <2>3 DEF Stamp
        <4>2. CASE i \in DOMAIN captured
          <5>1. captured[i].name = n /\ captured'[i] = captured[i]
            BY <4>2, <3>2, <2>3
          <5>2. /\ captured[i].stamp \in Stamp
                /\ captured[i].stamp.version <= moment.stamp[n].version
                /\ moment.stamp[n].version <= stamp[n].version
                /\ moment.stamp[n].version \in Nat
                /\ stamp[n].version = captured[i].stamp.version =>
                     folder[n] = captured[i].document
            BY <4>2, <5>1 DEF RInv, CaptureOk
          <5>3. captured[i].stamp.version \in Nat
            BY <5>2 DEF Stamp
          <5>4. captured[i].stamp.version <= stamp[n].version
            BY <4>0, <5>2, <5>3
          <5> QED
            BY <5>1, <5>2, <5>4
        <4> QED
          BY <4>1, <4>2, <3>2, <2>3
      <3>3. \A n \in NameSet : stamp[n].version \in Nat
        BY DEF RInv, FolderOk, Stamp
      <3> QED
        BY <3>1, <3>2, <3>3, <2>1 DEF CaptureOk, folderVars
    <2>6. CheckedOk' /\ HistoryIsOneMoment'
      BY <2>1, <2>3 DEF RInv, CheckedOk, HistoryIsOneMoment
    <2> QED
      BY <2>1, <2>4, <2>5, <2>6 DEF RInv
  <1> QED
    BY <1>1, <1>2

LEMMA RestatRInv ==
  ASSUME RInv, Restat
  PROVE  RInv'
  <1>1. CASE Refuse("workspace_changed")
    BY <1>1, CallOverRInv DEF Refuse
  <1>2. CASE ~Refuse("workspace_changed")
    <2> DEFINE file == captured[checked + 1]
    <2>1. /\ pc = "restat"
          /\ ~RestatFails(file)
          /\ checked' = checked + 1
          /\ pc' = IF checked + 1 = Len(captured) THEN "answer" ELSE "restat"
          /\ UNCHANGED <<task, folderVars, clock, captured, moment>>
      BY <1>2 DEF Restat
    <2>2. FolderOk' /\ CaptureOk'
      BY <2>1 DEF RInv, FolderOk, CaptureOk, folderVars
    <2>3. ASSUME NEW i \in DOMAIN captured, NEW n \in NameSet,
                 i <= checked + 1, captured[i].name = n
          PROVE  moment.folder[n] = captured[i].document
      <3>1. CASE i <= checked
        BY <3>1, <2>3 DEF RInv, CheckedOk
      <3>2. CASE i = checked + 1
        <4>1. stamp[n] = captured[i].stamp
          BY <3>2, <2>1, <2>3 DEF RestatFails
        <4>2. moment.stamp[n].version = captured[i].stamp.version
          BY <4>1, <2>3 DEF RInv, CaptureOk, Stamp
        <4> QED
          BY <4>2, <2>3 DEF RInv, CaptureOk
      <3>3. i \in Nat /\ checked \in Nat
        BY DEF RInv, CheckedOk, CaptureOk
      <3> QED
        BY <3>1, <3>2, <3>3, <2>3
    <2>4. CheckedOk' /\ HistoryIsOneMoment'
      BY <2>1, <2>3 DEF RInv, CheckedOk, HistoryIsOneMoment
    <2> QED
      BY <2>1, <2>2, <2>4 DEF RInv
  <1> QED
    BY <1>1, <1>2

LEMMA AnswerRInv ==
  ASSUME RInv, Answer
  PROVE  RInv'
  <1>1. CASE CallOver
    BY <1>1, CallOverRInv
  <1>2. CASE ~CallOver
    <2>1. /\ pc = "answer"
          /\ pc' = "publish"
          /\ basis' = [files |-> captured, journal |-> journal]
          /\ UNCHANGED <<task, folderVars, clock, captured, moment, checked>>
      BY <1>2 DEF Answer, reading
    <2>2. FolderOk' /\ CaptureOk'
      BY <2>1 DEF RInv, FolderOk, CaptureOk, folderVars
    <2>3. CheckedOk'
      BY <2>1 DEF RInv, CheckedOk
    <2>4. HistoryIsOneMoment'
      <3> SUFFICES ASSUME ~IsMap, NEW i \in DOMAIN captured, NEW n \in NameSet,
                          captured[i].name = n
                   PROVE  moment.folder[n] = captured[i].document
        BY <2>1 DEF HistoryIsOneMoment
      <3>1. i <= checked
        BY <2>1 DEF RInv, CheckedOk, CaptureOk
      <3> QED
        BY <3>1 DEF RInv, CheckedOk
    <2> QED
      BY <2>1, <2>2, <2>3, <2>4 DEF RInv
  <1> QED
    BY <1>1, <1>2

(* A change in the folder gives its file a version no file had before.       *)
LEMMA ChangeRInv ==
  ASSUME RInv, NEW m \in NameSet, NEW d, NEW inode \in Nat, Change(m, d, inode)
  PROVE  RInv'
  <1>1. /\ clock' = clock + 1
        /\ folder' = [folder EXCEPT ![m] = d]
        /\ stamp' = [stamp EXCEPT ![m] = [inode |-> inode, version |-> clock + 1]]
        /\ UNCHANGED <<task, captured, moment, checked, pc, basis>>
    BY DEF Change, reading
  <1>2. /\ clock \in Nat
        /\ DOMAIN folder = NameSet
        /\ stamp \in [NameSet -> Stamp]
        /\ \A n \in NameSet : stamp[n].version <= clock /\ stamp[n].version \in Nat
    BY DEF RInv, FolderOk, Stamp
  <1>3. FolderOk'
    <2>1. stamp' \in [NameSet -> Stamp] /\ DOMAIN folder' = NameSet
      BY <1>1, <1>2 DEF Stamp
    <2>2. \A n \in NameSet : stamp'[n].version <= clock'
      BY <1>1, <1>2
    <2> QED
      BY <2>1, <2>2, <1>1, <1>2 DEF FolderOk
  <1>4. CaptureOk'
    <2>1. captured' \in Seq({captured'[i] : i \in DOMAIN captured'})
      BY <1>1 DEF RInv, CaptureOk
    <2>2. ASSUME NEW i \in DOMAIN captured, NEW n \in NameSet, captured[i].name = n
          PROVE  /\ moment.stamp[n].version <= stamp'[n].version
                 /\ stamp'[n].version = captured[i].stamp.version =>
                      folder'[n] = captured[i].document
      <3>0. /\ captured[i].stamp.version \in Nat
            /\ captured[i].stamp.version <= moment.stamp[n].version
            /\ moment.stamp[n].version <= stamp[n].version
            /\ moment.stamp[n].version \in Nat
            /\ stamp[n].version = captured[i].stamp.version =>
                 folder[n] = captured[i].document
        BY <2>2 DEF RInv, CaptureOk, Stamp
      <3>1. CASE n = m
        BY <3>0, <3>1, <1>1, <1>2
      <3>2. CASE n # m
        BY <3>0, <3>2, <1>1, <1>2
      <3> QED
        BY <3>1, <3>2
    <2> QED
      BY <2>1, <2>2, <1>1 DEF RInv, CaptureOk
  <1>5. CheckedOk' /\ HistoryIsOneMoment'
    BY <1>1 DEF RInv, CheckedOk, HistoryIsOneMoment
  <1> QED
    BY <1>1, <1>3, <1>4, <1>5 DEF RInv

LEMMA NextRInv ==
  ASSUME RInv, [Next]_vars
  PROVE  RInv'
  <1>0. clock \in Nat /\ \A n \in NameSet : stamp[n].inode \in Nat
    BY DEF RInv, FolderOk, Stamp
  <1>1. ASSUME NEW size \in task.sizes, NEW from \in {NoCursor, cursor}, Call(size, from)
        PROVE  RInv'
    BY <1>1, SameReading DEF Call, reading
  <1>9. ASSUME NEW code, RefuseInputs(code) PROVE RInv'
    BY <1>9, SameReading DEF RefuseInputs, reading
  <1>2. CASE Enumerate
    <2>1. CASE CallOver
      BY <2>1, CallOverRInv
    <2>2. CASE ~CallOver
      BY <1>2, <2>2, SameReading DEF Enumerate, Refuse
    <2> QED
      BY <2>1, <2>2
  <1>3. CASE Open
    <2>1. CASE CallOver
      BY <2>1, CallOverRInv
    <2>2. CASE ~CallOver
      BY <1>3, <2>2, SameReading DEF Open, Refuse
    <2> QED
      BY <2>1, <2>2
  <1>4. CASE Recheck
    <2>1. CASE CallOver
      BY <2>1, CallOverRInv
    <2>2. CASE ~CallOver
      BY <1>4, <2>2, SameReading DEF Recheck, Refuse, reading
    <2> QED
      BY <2>1, <2>2
  <1>5. CASE JournalRefused \/ Publish
    BY <1>5, CallOverRInv DEF JournalRefused, Publish, Refuse
  <1>6. ASSUME NEW n \in NameSet, NEW d,
               SaveInPlace(n, d) \/ Replace(n, d) \/ TakeAway(n)
        PROVE  RInv'
    BY <1>0, <1>6, ChangeRInv DEF SaveInPlace, Replace, TakeAway
  <1>7. ASSUME NEW r \in ApplyRecords, RecordApply(r)
        PROVE  RInv'
    <2>1. /\ clock' = clock + 1
          /\ UNCHANGED <<task, folderVars, captured, moment, checked, pc, basis>>
      BY <1>7 DEF RecordApply, reading
    <2>2. FolderOk'
      BY <1>0, <2>1 DEF RInv, FolderOk, folderVars, Stamp
    <2>3. CaptureOk' /\ CheckedOk' /\ HistoryIsOneMoment'
      BY <2>1 DEF RInv, CaptureOk, CheckedOk, HistoryIsOneMoment, folderVars
    <2> QED
      BY <2>1, <2>2, <2>3 DEF RInv
  <1>8. CASE UNCHANGED vars
    BY <1>8 DEF vars, RInv, FolderOk, CaptureOk, CheckedOk, HistoryIsOneMoment
  <1> QED
    BY <1>1, <1>2, <1>3, <1>4, <1>5, <1>6, <1>7, <1>8, <1>9, ReadRInv, RestatRInv, AnswerRInv
    DEF Next, Agent, Others

(* Every history that is answered is the folder at one moment: the second    *)
(* look _capture_workspace of _history_io.py takes at each file it read      *)
(* proves that the file was there, unchanged, when the last one was read.    *)
THEOREM HistoriesAreOneMoment == Spec => []HistoryIsOneMoment
  <1>1. Init => RInv
    BY InitRInv
  <1>2. RInv /\ [Next]_vars => RInv'
    BY NextRInv
  <1>3. RInv => HistoryIsOneMoment
    BY DEF RInv
  <1> QED
    BY <1>1, <1>2, <1>3, PTL DEF Spec
-----------------------------------------------------------------------------
(* The trace, step by step.                                                 *)

SeedStep(seed) ==
    [document |-> seed[1], selected |-> {seed}, candidates |-> {},
     state |-> "seed", reason |-> "seed", navigation |-> {}]

Below(files, seed, k, higher) == TraceStep(files[Len(files) - k].document, seed, higher)

TracedTo(h, m, files, seed) ==
    h = [k \in 0 .. m |-> IF k = 0 THEN SeedStep(seed) ELSE Below(files, seed, k, h[k - 1])]

LEMMA SomeTrace ==
  ASSUME NEW files, NEW seed, NEW m \in Nat
  PROVE  \E h : TracedTo(h, m, files, seed)
  <1> DEFINE S == {k \in Nat : \E h : TracedTo(h, k, files, seed)}
  <1>1. 0 \in S
    <2> DEFINE h == [k \in 0 .. 0 |-> SeedStep(seed)]
    <2>1. h = [k \in 0 .. 0 |-> IF k = 0 THEN SeedStep(seed) ELSE Below(files, seed, k, h[k - 1])]
      OBVIOUS
    <2> QED
      BY <2>1 DEF TracedTo
  <1>2. ASSUME NEW k \in Nat, k \in S PROVE k + 1 \in S
    <2>1. PICK h : TracedTo(h, k, files, seed)
      BY <1>2
    <2> DEFINE new == Below(files, seed, k + 1, h[k])
               g == [n \in 0 .. k + 1 |-> IF n = k + 1 THEN new ELSE h[n]]
    <2> HIDE DEF new
    <2>2. h = [n \in 0 .. k |-> IF n = 0 THEN SeedStep(seed) ELSE Below(files, seed, n, h[n - 1])]
      BY <2>1 DEF TracedTo
    <2>3. ASSUME NEW n \in 0 .. k + 1
          PROVE  g[n] = IF n = 0 THEN SeedStep(seed) ELSE Below(files, seed, n, g[n - 1])
      <3>1. CASE n = k + 1
        <4>1. g[n - 1] = h[k] /\ g[n] = new /\ n # 0
          BY <3>1
        <4> QED
          BY <3>1, <4>1 DEF new
      <3>2. CASE n # k + 1
        <4>1. n \in 0 .. k /\ g[n] = h[n] /\ (n # 0 => n - 1 \in 0 .. k + 1 /\ n - 1 # k + 1)
          BY <3>2
        <4>2. n # 0 => g[n - 1] = h[n - 1]
          BY <4>1
        <4> QED
          BY <4>1, <4>2, <2>2
      <3> QED
        BY <3>1, <3>2
    <2> HIDE DEF g
    <2>4. DOMAIN g = 0 .. k + 1 /\ g = [n \in 0 .. k + 1 |-> g[n]]
      BY DEF g
    <2>5. TracedTo(g, k + 1, files, seed)
      BY <2>3, <2>4 DEF TracedTo
    <2> QED
      BY <2>5
  <1> HIDE DEF S
  <1>3. Nat \subseteq S
    BY <1>1, <1>2, NatSet
  <1> QED
    BY <1>3 DEF S

LEMMA TracesAgree ==
  ASSUME NEW files, NEW seed, NEW m \in Nat, NEW k \in Nat, NEW g, NEW h,
         TracedTo(g, m, files, seed), TracedTo(h, k, files, seed)
  PROVE  \A n \in Nat : n <= m /\ n <= k => g[n] = h[n]
  <1> DEFINE S == {n \in Nat : n <= m /\ n <= k => g[n] = h[n]}
  <1>1. /\ g = [n \in 0 .. m |-> IF n = 0 THEN SeedStep(seed) ELSE Below(files, seed, n, g[n - 1])]
        /\ h = [n \in 0 .. k |-> IF n = 0 THEN SeedStep(seed) ELSE Below(files, seed, n, h[n - 1])]
    BY DEF TracedTo
  <1>2. 0 \in S
    BY <1>1
  <1>3. ASSUME NEW n \in Nat, n \in S PROVE n + 1 \in S
    <2> SUFFICES ASSUME n + 1 <= m, n + 1 <= k PROVE g[n + 1] = h[n + 1]
      OBVIOUS
    <2>1. g[n] = h[n] /\ n + 1 \in 0 .. m /\ n + 1 \in 0 .. k /\ (n + 1) - 1 = n /\ n + 1 # 0
      BY <1>3
    <2>2. /\ g[n + 1] = Below(files, seed, n + 1, g[n])
          /\ h[n + 1] = Below(files, seed, n + 1, h[n])
      BY <1>1, <2>1
    <2> QED
      BY <2>1, <2>2
  <1> HIDE DEF S
  <1>4. Nat \subseteq S
    BY <1>2, <1>3, NatSet
  <1> QED
    BY <1>4 DEF S

\* A trace begins with the seed and goes down one document at a time.
LEMMA TraceUnfolds ==
  ASSUME NEW files, NEW seed, Len(files) \in Nat \ {0}
  PROVE  /\ DOMAIN Trace(files, seed) = 1 .. Len(files)
         /\ Trace(files, seed)[1] = SeedStep(seed)
         /\ \A k \in 1 .. Len(files) - 1 :
              Trace(files, seed)[k + 1] = Below(files, seed, k, Trace(files, seed)[k])
  <1> DEFINE best(k) == CHOOSE h : TracedTo(h, k, files, seed)
             f == [k \in Nat |-> best(k)[k]]
  <1>1. \A k \in Nat : TracedTo(best(k), k, files, seed)
    BY SomeTrace
  <1> HIDE DEF best
  <1>2. ASSUME NEW k \in Nat
        PROVE  f[k] = IF k = 0 THEN SeedStep(seed) ELSE Below(files, seed, k, f[k - 1])
    <2>1. best(k) = [i \in 0 .. k |-> IF i = 0 THEN SeedStep(seed)
                                      ELSE Below(files, seed, i, best(k)[i - 1])]
      BY <1>1 DEF TracedTo
    <2>2. CASE k = 0
      BY <2>1, <2>2
    <2>3. CASE k # 0
      <3>1. k - 1 \in Nat /\ k - 1 <= k /\ k - 1 <= k - 1
        BY <2>3
      <3>2. best(k)[k - 1] = best(k - 1)[k - 1]
        BY <3>1, <1>1, TracesAgree
      <3>3. best(k)[k] = Below(files, seed, k, best(k)[k - 1])
        BY <2>1, <2>3
      <3> QED
        BY <3>1, <3>2, <3>3, <2>3
    <2> QED
      BY <2>2, <2>3
  <1>3. f = [k \in Nat |-> IF k = 0 THEN SeedStep(seed) ELSE Below(files, seed, k, f[k - 1])]
    <2> HIDE DEF f
    <2>1. f = [k \in Nat |-> f[k]]
      BY DEF f
    <2> QED
      BY <2>1, <1>2
  <1> HIDE DEF f
  <1> DEFINE at == CHOOSE at : at = [k \in Nat |->
                      IF k = 0 THEN SeedStep(seed) ELSE Below(files, seed, k, at[k - 1])]
  <1>4. at = [k \in Nat |-> IF k = 0 THEN SeedStep(seed) ELSE Below(files, seed, k, at[k - 1])]
    BY <1>3
  <1>5. Trace(files, seed) = [k \in 1 .. Len(files) |-> at[k - 1]]
    BY DEF Trace, SeedStep, Below
  <1> HIDE DEF at
  <1>6. at[0] = SeedStep(seed)
    BY <1>4
  <1>7. ASSUME NEW k \in 1 .. Len(files) - 1
        PROVE  at[k] = Below(files, seed, k, at[k - 1])
    BY <1>4
  <1>8. DOMAIN Trace(files, seed) = 1 .. Len(files)
    BY <1>5
  <1>9. Trace(files, seed)[1] = SeedStep(seed)
    BY <1>5, <1>6
  <1>10. ASSUME NEW k \in 1 .. Len(files) - 1
         PROVE  Trace(files, seed)[k + 1] = Below(files, seed, k, Trace(files, seed)[k])
    <2>1. k + 1 \in 1 .. Len(files) /\ k \in 1 .. Len(files) /\ (k + 1) - 1 = k
      OBVIOUS
    <2>2. Trace(files, seed)[k + 1] = at[k] /\ Trace(files, seed)[k] = at[k - 1]
      BY <1>5, <2>1
    <2> QED
      BY <1>7, <2>2
  <1> QED
    BY <1>8, <1>9, <1>10

(* What holds of every step of a trace: it selects one paragraph or none,    *)
(* and gives a reason that its state may have.                               *)
InDocuments(p) == p[1] \in Documents /\ p[2] \in DOMAIN Content[p[1]].paras

StepOk(step) ==
    /\ step.state \in {"seed", "exact_unique", "ambiguous", "unresolved"}
    /\ step.reason \in ReasonsOf(step.state)
    /\ \/ step.selected = {} /\ step.state \in {"ambiguous", "unresolved"}
       \/ /\ step.state \in {"seed", "exact_unique"}
          /\ \E p : step.selected = {p} /\ InDocuments(p)

\* ... and of the step below a step.
FollowsStep(higher, step) ==
    /\ StepOk(step)
    /\ step.state # "seed"
    /\ IF higher.selected = {}
       THEN step.state = "unresolved" /\ step.reason \in Blocked
       ELSE step.reason \notin Blocked

LEMMA ReasonsOfStates ==
  /\ ReasonsOf("seed") = {"seed"}
  /\ ReasonsOf("exact_unique") = {"exact_current_unique", "rejected_projection_unique"}
  /\ ReasonsOf("ambiguous") = {"multiple_exact_candidates"}
  /\ ReasonsOf("unresolved") =
       {"rejected_projection_unavailable", "navigation_only", "no_match_in_declared_scope",
        "blocked_by_higher_ambiguity", "blocked_by_higher_unresolved"}
  BY DEF ReasonsOf, Blocked

LEMMA OneCandidate ==
  ASSUME NEW d \in Documents, NEW p, Candidates(d, p) # {},
         ~(Cardinality(Candidates(d, p)) >= 2)
  PROVE  \E q : Candidates(d, p) = {q} /\ InDocuments(q)
  <1> DEFINE C == Candidates(d, p)
  <1>1. C \subseteq ParagraphsOf(d)
    BY DEF Candidates, ByCurrent, ByRejected
  <1>2. IsFiniteSet(C)
    BY <1>1, PlacesFinite, FinitePart
  <1>3. PICK q \in C : TRUE
    OBVIOUS
  <1> HIDE DEF C
  <1>4. C = {q}
    <2> SUFFICES ASSUME NEW r \in C, r # q PROVE FALSE
      BY <1>3
    <2>1. {q, r} \subseteq C /\ IsFiniteSet({q, r})
      BY <1>2, <1>3, FinitePart
    <2>2. Cardinality({q, r}) <= Cardinality(C) /\ Cardinality(C) \in Nat
      BY <1>2, <2>1, FS_Subset, FS_CardinalityType
    <2>3. Cardinality({q, r}) = 2
      <3>1. IsFiniteSet({r}) /\ Cardinality({r}) = 1 /\ q \notin {r}
        BY FS_Singleton
      <3>2. Cardinality({r} \cup {q}) = 2
        BY <3>1, FS_AddElement
      <3>3. {r} \cup {q} = {q, r}
        OBVIOUS
      <3> QED
        BY <3>2, <3>3
    <2> QED
      BY <2>2, <2>3 DEF C
  <1>5. InDocuments(q)
    BY <1>1, <1>3 DEF ParagraphsOf, InDocuments
  <1> QED
    BY <1>4, <1>5 DEF C

LEMMA TraceStepFollows ==
  ASSUME NEW d \in Documents, NEW seed, NEW higher, StepOk(higher)
  PROVE  FollowsStep(higher, TraceStep(d, seed, higher))
  <1> DEFINE navigation == Navigation(d, seed)
             step(matches, chosen, state, reason) ==
               [document |-> d, selected |-> chosen, candidates |-> matches,
                state |-> state, reason |-> reason, navigation |-> navigation]
             p == CHOOSE q \in higher.selected : TRUE
             matches == Candidates(d, p)
             this == TraceStep(d, seed, higher)
  <1> HIDE DEF navigation
  <1>1. CASE higher.selected = {}
    <2>1. this = step({}, {}, "unresolved", IF higher.state = "ambiguous"
                                            THEN "blocked_by_higher_ambiguity"
                                            ELSE "blocked_by_higher_unresolved")
      BY <1>1 DEF TraceStep, navigation
    <2>2. this.state = "unresolved" /\ this.selected = {} /\ this.reason \in Blocked
      BY <2>1 DEF Blocked
    <2> HIDE DEF this
    <2>3. this.reason \in ReasonsOf("unresolved")
      BY <2>2, ReasonsOfStates DEF Blocked
    <2>4. FollowsStep(higher, this)
      BY <1>1, <2>2, <2>3 DEF FollowsStep, StepOk
    <2> QED
      BY <2>4 DEF this
  <1>2. CASE higher.selected # {}
    <2>1. this = IF Cardinality(matches) >= 2
                 THEN step(matches, {}, "ambiguous", "multiple_exact_candidates")
                 ELSE IF Rejected(p) = Unavailable
                 THEN step(matches, {}, "unresolved", "rejected_projection_unavailable")
                 ELSE IF matches # {}
                 THEN step(matches, matches, "exact_unique",
                           IF ByCurrent(d, p) # {} THEN "exact_current_unique"
                           ELSE "rejected_projection_unique")
                 ELSE step({}, {}, "unresolved",
                           IF navigation # {} THEN "navigation_only"
                           ELSE "no_match_in_declared_scope")
      BY <1>2 DEF TraceStep, navigation
    <2>2. \/ /\ this.state = "ambiguous" /\ this.selected = {}
             /\ this.reason = "multiple_exact_candidates"
          \/ /\ this.state = "unresolved" /\ this.selected = {}
             /\ this.reason \in {"rejected_projection_unavailable", "navigation_only",
                                 "no_match_in_declared_scope"}
          \/ /\ this.state = "exact_unique" /\ this.selected = matches
             /\ matches # {} /\ ~(Cardinality(matches) >= 2)
             /\ this.reason \in {"exact_current_unique", "rejected_projection_unique"}
      <3> HIDE DEF p, matches, this
      <3>1. CASE Cardinality(matches) >= 2
        BY <2>1, <3>1
      <3>2. CASE ~(Cardinality(matches) >= 2) /\ Rejected(p) = Unavailable
        BY <2>1, <3>2
      <3>3. CASE ~(Cardinality(matches) >= 2) /\ Rejected(p) # Unavailable /\ matches # {}
        BY <2>1, <3>3
      <3>4. CASE ~(Cardinality(matches) >= 2) /\ Rejected(p) # Unavailable /\ matches = {}
        BY <2>1, <3>4
      <3> QED
        BY <3>1, <3>2, <3>3, <3>4
    <2>3. matches # {} /\ ~(Cardinality(matches) >= 2) =>
            \E q : matches = {q} /\ InDocuments(q)
      <3> HIDE DEF p
      <3> QED
        BY OneCandidate
    <2> HIDE DEF this, matches
    <2>4. this.reason \in ReasonsOf(this.state) /\ this.reason \notin Blocked
      BY <2>2, ReasonsOfStates DEF Blocked
    <2>5. StepOk(this) /\ this.state # "seed"
      BY <2>2, <2>3, <2>4 DEF StepOk
    <2>6. FollowsStep(higher, this)
      BY <1>2, <2>4, <2>5 DEF FollowsStep
    <2> QED
      BY <2>6 DEF this
  <1> QED
    BY <1>1, <1>2

\* Every trace is made of such steps.
TraceOk(trace, n) ==
    /\ trace[1].state = "seed"
    /\ \A k \in 1 .. n : StepOk(trace[k])
    /\ \A k \in 1 .. n - 1 : FollowsStep(trace[k], trace[k + 1])

LEMMA TracesAreOk ==
  ASSUME NEW files, NEW seed, Len(files) \in Nat \ {0}, InDocuments(seed),
         \A i \in 1 .. Len(files) : files[i].document \in Documents
  PROVE  TraceOk(Trace(files, seed), Len(files))
  <1> DEFINE n == Len(files)
             trace == Trace(files, seed)
             S == {k \in Nat : k + 1 <= n => StepOk(trace[k + 1])}
  <1>1. /\ trace[1] = SeedStep(seed)
        /\ \A k \in 1 .. n - 1 : trace[k + 1] = Below(files, seed, k, trace[k])
    BY TraceUnfolds
  <1> HIDE DEF trace
  <1>2. StepOk(SeedStep(seed)) /\ SeedStep(seed).state = "seed"
    BY ReasonsOfStates DEF StepOk, SeedStep
  <1>3. ASSUME NEW k \in 1 .. n - 1, StepOk(trace[k])
        PROVE  FollowsStep(trace[k], trace[k + 1])
    <2>1. n - k \in 1 .. Len(files)
      OBVIOUS
    <2>2. files[n - k].document \in Documents
      BY <2>1
    <2>3. trace[k + 1] = TraceStep(files[n - k].document, seed, trace[k])
      BY <1>1 DEF Below
    <2> QED
      BY <1>3, <2>2, <2>3, TraceStepFollows
  <1>4. 0 \in S
    BY <1>1, <1>2
  <1>5. ASSUME NEW k \in Nat, k \in S PROVE k + 1 \in S
    <2> SUFFICES ASSUME (k + 1) + 1 <= n PROVE StepOk(trace[(k + 1) + 1])
      OBVIOUS
    <2>1. k + 1 \in 1 .. n - 1 /\ StepOk(trace[k + 1])
      BY <1>5
    <2> QED
      BY <1>3, <2>1 DEF FollowsStep
  <1> HIDE DEF S
  <1>6. Nat \subseteq S
    BY <1>4, <1>5, NatSet
  <1>7. ASSUME NEW k \in 1 .. n PROVE StepOk(trace[k])
    <2>1. k - 1 \in S /\ (k - 1) + 1 = k /\ k <= n
      BY <1>6
    <2> QED
      BY <2>1 DEF S
  <1>8. \A k \in 1 .. n - 1 : FollowsStep(trace[k], trace[k + 1])
    <2>1. \A k \in 1 .. n - 1 : k \in 1 .. n
      OBVIOUS
    <2> QED
      BY <1>3, <1>7, <2>1
  <1> QED
    BY <1>1, <1>2, <1>7, <1>8 DEF TraceOk, trace

\* Going down, the steps that select a paragraph come first.
LEMMA SelectedFirst ==
  ASSUME NEW trace, NEW n \in Nat \ {0}, TraceOk(trace, n)
  PROVE  \E m \in 1 .. n : \A k \in 1 .. n : trace[k].selected # {} <=> k <= m
  <1> DEFINE S == {k \in 1 .. n : trace[k].selected # {}}
  <1>1. 1 \in S
    <2>1. StepOk(trace[1]) /\ trace[1].state = "seed"
      BY DEF TraceOk
    <2> QED
      BY <2>1 DEF StepOk
  <1>2. ASSUME NEW k \in 1 .. n - 1, k + 1 \in S PROVE k \in S
    <2>1. FollowsStep(trace[k], trace[k + 1]) /\ StepOk(trace[k + 1])
      BY DEF TraceOk
    <2>2. trace[k + 1].selected # {}
      BY <1>2
    <2>3. trace[k].selected # {}
      BY <2>1, <2>2 DEF FollowsStep, StepOk
    <2> QED
      BY <2>3
  <1>3. S \in SUBSET Nat /\ S # {} /\ \A x \in S : x <= n
    BY <1>1
  <1>4. S \subseteq 1 .. n /\ \A k \in 1 .. n : k \in S <=> trace[k].selected # {}
    OBVIOUS
  <1> HIDE DEF S
  <1>5. PICK m \in S : \A y \in S : y <= m
    BY <1>3, GreatestExists
  <1>6. ASSUME NEW k \in 1 .. n, k <= m, k \notin S PROVE FALSE
    <2> DEFINE T == {j \in 1 .. n : j <= m /\ j \notin S}
    <2>1. T \in SUBSET Nat /\ T # {} /\ \A x \in T : x <= n
      BY <1>6
    <2>2. \A x \in T : x \in 1 .. n /\ x <= m /\ x \notin S
      OBVIOUS
    <2>3. \A x \in 1 .. n : x <= m /\ x \notin S => x \in T
      OBVIOUS
    <2> HIDE DEF T
    <2>4. PICK g \in T : \A y \in T : y <= g
      BY <2>1, GreatestExists
    <2>5. m \in 1 .. n /\ g \in 1 .. n /\ g <= m /\ g # m
      BY <1>4, <1>5, <2>2
    <2>6. g + 1 \in 1 .. n /\ g \in 1 .. n - 1 /\ g + 1 <= m
      BY <2>5
    <2>7. g + 1 \in S
      BY <2>3, <2>4, <2>6
    <2> QED
      BY <1>2, <2>2, <2>6, <2>7
  <1>7. \A k \in 1 .. n : k \in S <=> k <= m
    BY <1>5, <1>6
  <1> QED
    BY <1>4, <1>5, <1>7

\* What the items of a history repeat of its trace.
ItemsOk(items, trace, n) ==
    /\ DOMAIN items = 1 .. n
    /\ \A k \in 1 .. n :
         /\ items[k].step = trace[k]
         /\ items[k].selected = {} <=> trace[k].selected = {}
         /\ ~ /\ \E s \in items[k].selected : s.rejected = Unavailable
              /\ \E s \in items[k].selected : s.rejected = s.text

GoodCounts(c, n) ==
    /\ c.selected >= 1
    /\ c.selected + c.blocked = n - (IF c.selected < n THEN 1 ELSE 0)
    /\ c.resolutions["exact_unique"] = c.selected - 1
    /\ c.selected + c.resolutions["ambiguous"] + c.resolutions["unresolved"] = n
    /\ c.resolutions["ambiguous"] <= 1
    /\ c.unchanged + c.unavailable <= c.selected

LEMMA CountsAreGood ==
  ASSUME NEW items, NEW trace, NEW n \in Nat \ {0}, ItemsOk(items, trace, n),
         TraceOk(trace, n), NEW offset, NEW page
  PROVE  GoodCounts(Coverage(items, offset, page), n)
  <1> DEFINE c == Coverage(items, offset, page)
             Chosen == {k \in 1 .. n : items[k].selected # {}}
             Stopped == {k \in 1 .. n : items[k].step.reason \in Blocked}
             At(state) == {k \in 1 .. n : items[k].step.state = state}
             Lost == {k \in 1 .. n : \E s \in items[k].selected : s.rejected = Unavailable}
             Same == {k \in 1 .. n : \E s \in items[k].selected : s.rejected = s.text}
  <1>1. /\ c.selected = Cardinality(Chosen)
        /\ c.blocked = Cardinality(Stopped)
        /\ c.resolutions["exact_unique"] = Cardinality(At("exact_unique"))
        /\ c.resolutions["ambiguous"] = Cardinality(At("ambiguous"))
        /\ c.resolutions["unresolved"] = Cardinality(At("unresolved"))
        /\ c.unavailable = Cardinality(Lost)
        /\ c.unchanged = Cardinality(Same)
    BY DEF Coverage, ItemsOk
  <1>2. PICK m \in 1 .. n : \A k \in 1 .. n : trace[k].selected # {} <=> k <= m
    BY SelectedFirst
  <1> HIDE DEF c
  <1>3. ASSUME NEW k \in 1 .. n
        PROVE  /\ items[k].step = trace[k]
               /\ items[k].selected # {} <=> k <= m
               /\ k = 1 => trace[k].state = "seed" /\ trace[k].reason \notin Blocked
               /\ k # 1 /\ k <= m =>
                    trace[k].state = "exact_unique" /\ trace[k].reason \notin Blocked
               /\ k = m + 1 =>
                    trace[k].state \in {"ambiguous", "unresolved"} /\ trace[k].reason \notin Blocked
               /\ k > m + 1 => trace[k].state = "unresolved" /\ trace[k].reason \in Blocked
    <2>1. StepOk(trace[k]) /\ items[k].step = trace[k]
          /\ (items[k].selected # {} <=> trace[k].selected # {})
      BY DEF TraceOk, ItemsOk
    <2>2. trace[k].selected # {} <=> k <= m
      BY <1>2
    <2>3. trace[k].selected # {} => trace[k].reason \notin Blocked
      BY <2>1, ReasonsOfStates DEF StepOk, Blocked
    <2>4. k = 1 => trace[k].state = "seed" /\ trace[k].selected # {}
      BY <2>1 DEF TraceOk, StepOk
    <2>5. ASSUME k # 1
          PROVE  /\ trace[k].state # "seed"
                 /\ k <= m + 1 => trace[k].reason \notin Blocked
                 /\ k > m + 1 => trace[k].state = "unresolved" /\ trace[k].reason \in Blocked
      <3>1. k - 1 \in 1 .. n - 1 /\ (k - 1) + 1 = k /\ k - 1 \in 1 .. n
        BY <2>5
      <3>2. FollowsStep(trace[k - 1], trace[(k - 1) + 1])
        BY <3>1 DEF TraceOk
      <3>3. trace[k - 1].selected # {} <=> k - 1 <= m
        BY <1>2, <3>1
      <3> QED
        BY <3>1, <3>2, <3>3 DEF FollowsStep
    <2>6. k > m + 1 => k # 1
      OBVIOUS
    <2>7. k = m + 1 => trace[k].state \in {"ambiguous", "unresolved"}
      BY <2>1, <2>2 DEF StepOk
    <2>8. k # 1 /\ k <= m => trace[k].state = "exact_unique"
      BY <2>1, <2>2, <2>5 DEF StepOk
    <2>9. k = m + 1 => k # 1
      OBVIOUS
    <2> QED
      BY <2>1, <2>2, <2>3, <2>4, <2>5, <2>6, <2>7, <2>8, <2>9
  <1>4. Chosen = 1 .. m
    BY <1>3
  <1>5. Stopped = m + 2 .. n
    BY <1>3
  <1>6. At("exact_unique") = 2 .. m
    BY <1>3
  <1>7. \/ At("ambiguous") = {} /\ At("unresolved") = m + 1 .. n
        \/ /\ m + 1 <= n /\ At("ambiguous") = {m + 1}
           /\ At("unresolved") = m + 2 .. n
    <2>1. CASE m + 1 <= n /\ trace[m + 1].state = "ambiguous"
      <3>1. At("ambiguous") = {m + 1}
        BY <1>3, <2>1
      <3>2. At("unresolved") = m + 2 .. n
        BY <1>3, <2>1
      <3> QED
        BY <2>1, <3>1, <3>2
    <2>2. CASE ~(m + 1 <= n /\ trace[m + 1].state = "ambiguous")
      <3>1. At("ambiguous") = {}
        BY <1>3, <2>2
      <3>2. At("unresolved") = m + 1 .. n
        BY <1>3, <2>2
      <3> QED
        BY <3>1, <3>2
    <2> QED
      BY <2>1, <2>2
  <1>8. Lost \subseteq Chosen /\ Same \subseteq Chosen /\ Lost \cap Same = {}
    BY DEF ItemsOk
  <1> HIDE DEF Chosen, Stopped, At, Lost, Same
  <1>9. /\ Cardinality(1 .. m) = m
        /\ Cardinality(m + 2 .. n) = IF m < n THEN n - m - 1 ELSE 0
        /\ Cardinality(2 .. m) = m - 1
        /\ Cardinality(m + 1 .. n) = n - m
        /\ IsFiniteSet(1 .. m)
    <2>1. Cardinality(1 .. m) = m /\ IsFiniteSet(1 .. m)
      BY FS_Interval
    <2>2. Cardinality(m + 2 .. n) = IF m + 2 > n THEN 0 ELSE n - (m + 2) + 1
      BY FS_Interval
    <2>3. Cardinality(2 .. m) = IF 2 > m THEN 0 ELSE m - 2 + 1
      BY FS_Interval
    <2>4. Cardinality(m + 1 .. n) = IF m + 1 > n THEN 0 ELSE n - (m + 1) + 1
      BY FS_Interval
    <2> QED
      BY <2>1, <2>2, <2>3, <2>4
  <1>10. Cardinality({m + 1}) = 1 /\ Cardinality({}) = 0
    BY FS_Singleton, FS_EmptySet
  <1>11. Cardinality(Same) + Cardinality(Lost) <= Cardinality(Chosen)
    <2>1. IsFiniteSet(Chosen)
      BY <1>4, <1>9
    <2>2. IsFiniteSet(Same) /\ IsFiniteSet(Lost)
      BY <1>8, <2>1, FinitePart
    <2>3. Cardinality(Lost \cup Same) = Cardinality(Lost) + Cardinality(Same) - Cardinality(Lost \cap Same)
      BY <2>2, FS_Union
    <2>4. Cardinality(Lost \cap Same) = 0
      BY <1>8, <1>10
    <2>5. Cardinality(Lost \cup Same) <= Cardinality(Chosen)
      <3>1. Lost \cup Same \in SUBSET Chosen
        BY <1>8
      <3> QED
        BY <2>1, <3>1, FS_Subset
    <2>6. Cardinality(Lost) \in Nat /\ Cardinality(Same) \in Nat
      BY <2>2, FS_CardinalityType
    <2> QED
      BY <2>3, <2>4, <2>5, <2>6
  <1>12. /\ c.selected = m
         /\ c.blocked = IF m < n THEN n - m - 1 ELSE 0
         /\ c.resolutions["exact_unique"] = m - 1
         /\ \/ c.resolutions["ambiguous"] = 0 /\ c.resolutions["unresolved"] = n - m
            \/ /\ c.resolutions["ambiguous"] = 1
               /\ c.resolutions["unresolved"] = n - m - 1
         /\ c.unchanged + c.unavailable <= c.selected
    <2>1. c.selected = m /\ c.resolutions["exact_unique"] = m - 1
      BY <1>1, <1>4, <1>6, <1>9
    <2>2. c.blocked = IF m < n THEN n - m - 1 ELSE 0
      BY <1>1, <1>5, <1>9
    <2>3. \/ c.resolutions["ambiguous"] = 0 /\ c.resolutions["unresolved"] = n - m
          \/ /\ c.resolutions["ambiguous"] = 1
             /\ c.resolutions["unresolved"] = n - m - 1
      <3>1. CASE At("ambiguous") = {} /\ At("unresolved") = m + 1 .. n
        BY <1>1, <1>9, <1>10, <3>1
      <3>2. CASE m + 1 <= n /\ At("ambiguous") = {m + 1} /\ At("unresolved") = m + 2 .. n
        <4>1. Cardinality(m + 2 .. n) = n - m - 1
          BY <1>9, <3>2
        <4> QED
          BY <1>1, <1>10, <3>2, <4>1
      <3> QED
        BY <1>7, <3>1, <3>2
    <2> QED
      BY <1>1, <1>11, <2>1, <2>2, <2>3
  <1>13. GoodCounts(c, n)
    BY <1>12 DEF GoodCounts
  <1> QED
    BY <1>13 DEF c

-----------------------------------------------------------------------------
(* The items of a history.                                                  *)

LEMMA HistoryItemsAre ==
  ASSUME NEW files, NEW seed, Len(files) \in Nat \ {0}, InDocuments(seed),
         \A i \in 1 .. Len(files) : files[i].document \in Documents
  PROVE  /\ IsSequence(HistoryItems(files, seed))
         /\ Len(HistoryItems(files, seed)) = Len(files)
         /\ ItemsOk(HistoryItems(files, seed), Trace(files, seed), Len(files))
  <1> DEFINE n == Len(files)
             trace == Trace(files, seed)
             items == HistoryItems(files, seed)
  <1>1. TraceOk(trace, n)
    BY TracesAreOk
  <1>2. items = [k \in 1 .. n |-> Observation(files, trace, k)]
    BY DEF HistoryItems
  <1> HIDE DEF items, trace
  <1>3. /\ items \in [1 .. n -> {items[i] : i \in DOMAIN items}]
        /\ DOMAIN items = 1 .. n
    BY <1>2
  <1>4. items \in Seq({items[i] : i \in DOMAIN items}) /\ Len(items) = n
    BY <1>3
  <1>5. ASSUME NEW k \in 1 .. n
        PROVE  /\ items[k].step = trace[k]
               /\ items[k].selected = {} <=> trace[k].selected = {}
               /\ ~ /\ \E s \in items[k].selected : s.rejected = Unavailable
                    /\ \E s \in items[k].selected : s.rejected = s.text
    <2>1. PICK support : items[k].selected =
                           {SelectedParagraph(p, support) : p \in trace[k].selected}
      BY <1>2 DEF Observation
    <2>2. items[k].step = trace[k]
      BY <1>2 DEF Observation
    <2>3. StepOk(trace[k])
      BY <1>1 DEF TraceOk
    <2>4. ASSUME NEW s \in items[k].selected, NEW t \in items[k].selected,
                 s.rejected = Unavailable, t.rejected = t.text
          PROVE  FALSE
      <3>1. PICK p : trace[k].selected = {p} /\ InDocuments(p)
        BY <2>1, <2>3, <2>4 DEF StepOk
      <3>2. s = SelectedParagraph(p, support) /\ t = SelectedParagraph(p, support)
        BY <2>1, <3>1
      <3>3. s.text = Text(p) /\ t.text = Text(p) /\ s.rejected = t.rejected
        BY <3>2 DEF SelectedParagraph
      <3>4. Text(p) # Unavailable
        BY <3>1, HistoryAssumption DEF InDocuments, Text
      <3> QED
        BY <2>4, <3>3, <3>4
    <2> QED
      BY <2>1, <2>2, <2>4
  <1> QED
    BY <1>3, <1>4, <1>5 DEF ItemsOk, IsSequence, items, trace

LEMMA HistoryItemFields ==
  ASSUME NEW files, NEW seed, Len(files) \in Nat \ {0}, NEW k \in 1 .. Len(files)
  PROVE  /\ HistoryItems(files, seed)[k].position = Len(files) - k
         /\ HistoryItems(files, seed)[k].role = IF k = 1 THEN "seed" ELSE "trace_step"
         /\ HistoryItems(files, seed)[k].name = files[Len(files) + 1 - k].name
         /\ HistoryItems(files, seed)[k].document = files[Len(files) + 1 - k].document
  BY DEF HistoryItems, Observation

\* A candidate has one reason: what reads like the selected paragraph now does
\* not also read like a different text it had before.
LEMMA CandidatesHaveOneReason ==
  ASSUME NEW files, NEW seed, Len(files) \in Nat \ {0}, InDocuments(seed),
         \A i \in 1 .. Len(files) : files[i].document \in Documents,
         NEW k \in 1 .. Len(files)
  PROVE  OneReasonEach(HistoryItems(files, seed)[k])
  <1> DEFINE n == Len(files)
             trace == Trace(files, seed)
             d == files[n + 1 - k].document
             support == HistoryItems(files, seed)[k].support
  <1>1. support = IF k = 1 THEN {} ELSE Support(d, trace[k - 1])
    BY DEF HistoryItems, Observation
  <1> HIDE DEF support
  <1>2. ASSUME NEW r \in support, NEW s \in support, r.lower = s.lower
        PROVE  r = s
    <2>1. k # 1 /\ k - 1 \in 1 .. n
      BY <1>1, <1>2
    <2>2. StepOk(trace[k - 1])
      BY <2>1, TracesAreOk DEF TraceOk
    <2>3. support = Support(d, trace[k - 1])
      BY <1>1, <2>1
    <2> HIDE DEF d, trace
    <2>4. PICK p : trace[k - 1].selected = {p}
      BY <1>2, <2>2, <2>3 DEF StepOk, Support
    <2>5. support = CurrentRelationships(d, p) \cup RejectedRelationships(d, p)
      BY <2>3, <2>4 DEF Support
    <2>6. ASSUME NEW x \in support
          PROVE  \/ /\ x = Relationship("exact_content_equality", x.lower, p)
                    /\ Text(x.lower) = Text(p)
                 \/ /\ x = Relationship("rejected_projection_equality", x.lower, p)
                    /\ Text(x.lower) = Rejected(p) /\ Rejected(p) # Text(p)
      <3>1. CASE x \in CurrentRelationships(d, p)
        <4>1. PICK q \in ByCurrent(d, p) : x = Relationship("exact_content_equality", q, p)
          BY <3>1 DEF CurrentRelationships
        <4>2. x.lower = q
          BY <4>1 DEF Relationship
        <4> QED
          BY <4>1, <4>2 DEF ByCurrent
      <3>2. CASE x \in RejectedRelationships(d, p)
        <4>1. PICK q \in ByRejected(d, p) :
                x = Relationship("rejected_projection_equality", q, p)
          BY <3>2 DEF RejectedRelationships
        <4>2. x.lower = q
          BY <4>1 DEF Relationship
        <4> QED
          BY <4>1, <4>2 DEF ByRejected, RejectedEligible
      <3> QED
        BY <2>5, <3>1, <3>2
    <2> QED
      BY <1>2, <2>6
  <1> QED
    BY <1>2 DEF OneReasonEach, support

\* The piece of a sequence from the one after o up to e.
LEMMA PieceOf ==
  ASSUME NEW items, IsSequence(items), NEW o \in Nat, NEW e \in o + 1 .. Len(items)
  PROVE  /\ Len(SubSeq(items, o + 1, e)) = e - o
         /\ e - o \in Nat \ {0}
         /\ \A i \in 1 .. e - o : SubSeq(items, o + 1, e)[i] = items[o + i]
  <1>1. items \in Seq({items[i] : i \in DOMAIN items}) /\ Len(items) \in Nat
    BY SequenceFacts DEF IsSequence
  <1> QED
    BY <1>1

(* The answer of a history that found no fault.                              *)
HistoryAnswer(a, items, o) ==
    \E e \in o + 1 .. Len(items) :
       /\ a.items = SubSeq(items, o + 1, e)
       /\ a.coverage = Coverage(items, o, SubSeq(items, o + 1, e))
       /\ a.more <=> e < Len(items)
       /\ a.coverage.truncated <=> a.more

LEMMA CoverageFields ==
  ASSUME NEW items, NEW o, NEW page
  PROVE  /\ Coverage(items, o, page).documents = Len(items)
         /\ Coverage(items, o, page).returned = Len(page)
         /\ Coverage(items, o, page).offset = o
  BY DEF Coverage

\* _validate_result accepts every page there is.
LEMMA ResultsAreConsistent ==
  ASSUME NEW files, NEW seed, Len(files) \in Nat \ {0}, InDocuments(seed),
         \A i \in 1 .. Len(files) : files[i].document \in Documents,
         NEW o \in Nat, NEW a, HistoryAnswer(a, HistoryItems(files, seed), o)
  PROVE  ResultIsConsistent(HistoryItems(files, seed), a)
  <1> DEFINE items == HistoryItems(files, seed)
             n == Len(files)
  <1>1. IsSequence(items) /\ Len(items) = n /\ DOMAIN items = 1 .. n
    BY HistoryItemsAre, SequenceFacts
  <1>2. \A k \in 1 .. n : /\ items[k].position = n - k
                          /\ items[k].role = IF k = 1 THEN "seed" ELSE "trace_step"
    BY HistoryItemFields
  <1> HIDE DEF items
  <1>3. PICK e \in o + 1 .. Len(items) :
          /\ a.items = SubSeq(items, o + 1, e)
          /\ a.coverage = Coverage(items, o, SubSeq(items, o + 1, e))
          /\ a.coverage.truncated <=> a.more
    BY DEF HistoryAnswer, items
  <1>4. Len(a.items) = e - o /\ o + (e - o) = e /\ e <= n
    BY <1>1, <1>3, PieceOf
  <1>5. /\ a.coverage.documents = n
        /\ a.coverage.returned = Len(a.items)
        /\ a.coverage.offset = o
    <2> DEFINE page == SubSeq(items, o + 1, e)
               c == Coverage(items, o, page)
    <2> HIDE DEF page
    <2>1. c.documents = Len(items) /\ c.returned = Len(page) /\ c.offset = o
      BY CoverageFields
    <2>2. a.coverage = c /\ a.items = page
      BY <1>3 DEF page
    <2> HIDE DEF c
    <2> QED
      BY <1>1, <2>1, <2>2
  <1>6. {k \in DOMAIN items : items[k].role = "seed"} = {1}
    BY <1>1, <1>2
  <1>7. Cardinality({1}) = 1
    BY FS_Singleton
  <1>8. ResultIsConsistent(items, a)
    <2>1. a.coverage.offset + Len(a.items) = e
      BY <1>4, <1>5
    <2>2. a.items = SubSeq(items, a.coverage.offset + 1, a.coverage.offset + Len(a.items))
      BY <1>3, <1>5, <2>1
    <2>3. \A k \in DOMAIN items : items[k].position = Len(items) - k
      BY <1>1, <1>2
    <2>4. Cardinality({k \in DOMAIN items : items[k].role = "seed"}) = 1
      BY <1>6, <1>7
    <2>5. a.coverage.offset + Len(a.items) <= Len(items) /\ a.coverage.documents = Len(items)
      BY <1>1, <1>4, <1>5, <2>1
    <2> QED
      BY <1>3, <1>5, <2>2, <2>3, <2>4, <2>5 DEF ResultIsConsistent
  <1> QED
    BY <1>8 DEF items

\* _paragraph_history_record_shape_is_valid accepts the record of every page.
LEMMA RecordsAreValid ==
  ASSUME NEW files, NEW seed, Len(files) \in Nat \ {0}, InDocuments(seed),
         \A i \in 1 .. Len(files) : files[i].document \in Documents,
         NEW o \in Nat, NEW a, HistoryAnswer(a, HistoryItems(files, seed), o)
  PROVE  RecordIsValid(HistoryRecord(a, <<files[Len(files)].name, files[Len(files)].document>>))
  <1> DEFINE items == HistoryItems(files, seed)
             n == Len(files)
             trace == Trace(files, seed)
             named == <<files[n].name, files[n].document>>
             record == HistoryRecord(a, named)
             brought == IF record.count <= SampleSize THEN record.count ELSE SampleSize
  <1>1. IsSequence(items) /\ Len(items) = n /\ ItemsOk(items, trace, n)
    BY HistoryItemsAre
  <1>2. TraceOk(trace, n)
    BY TracesAreOk
  <1>3. \A k \in 1 .. n : /\ items[k].position = n - k
                          /\ items[k].role = IF k = 1 THEN "seed" ELSE "trace_step"
                          /\ items[k].name = files[n + 1 - k].name
                          /\ items[k].document = files[n + 1 - k].document
    BY HistoryItemFields
  <1>4. PICK e \in o + 1 .. Len(items) :
          /\ a.items = SubSeq(items, o + 1, e)
          /\ a.coverage = Coverage(items, o, SubSeq(items, o + 1, e))
          /\ a.more <=> e < Len(items)
          /\ a.coverage.truncated <=> a.more
    BY DEF HistoryAnswer
  <1> HIDE DEF items, trace
  <1>5. /\ Len(a.items) = e - o /\ e - o \in Nat \ {0} /\ o + (e - o) = e /\ e <= n
        /\ \A i \in 1 .. e - o : a.items[i] = items[o + i] /\ o + i \in 1 .. n
    <2>1. /\ Len(a.items) = e - o /\ e - o \in Nat \ {0}
          /\ \A i \in 1 .. e - o : a.items[i] = items[o + i]
      BY <1>1, <1>4, PieceOf
    <2>2. o + (e - o) = e /\ e <= n /\ \A i \in 1 .. e - o : o + i \in 1 .. n
      BY <1>1
    <2> QED
      BY <2>1, <2>2
  <1>6. /\ a.coverage.documents = n
        /\ a.coverage.returned = e - o
        /\ a.coverage.offset = o
    <2> DEFINE page == SubSeq(items, o + 1, e)
               c == Coverage(items, o, page)
    <2> HIDE DEF page
    <2>1. c.documents = Len(items) /\ c.returned = Len(page) /\ c.offset = o
      BY CoverageFields
    <2>2. a.coverage = c /\ a.items = page
      BY <1>4 DEF page
    <2> HIDE DEF c
    <2> QED
      BY <1>1, <1>5, <2>1, <2>2
  <1>7. SampleSize \in Nat
    BY HistoryAssumption
  <1>8. /\ record.seed = named
        /\ record.coverage = a.coverage
        /\ record.more = a.more
        /\ record.count = e - o
        /\ record.sample = [i \in 1 .. brought |-> Brief(a.items[i])]
        /\ record.truncated <=> e - o > brought
    BY <1>5 DEF HistoryRecord
  <1>9. brought \in Nat /\ brought <= e - o /\ brought = IF e - o <= SampleSize THEN e - o ELSE SampleSize
    BY <1>5, <1>7, <1>8
  <1> HIDE DEF record, brought, named
  <1>10. DOMAIN record.sample = 1 .. brought /\ Len(record.sample) = brought
    BY <1>8, <1>9
  <1>11. ASSUME NEW k \in 1 .. n
         PROVE  /\ BriefIsValid(Brief(items[k]))
                /\ Brief(items[k]).position = n - k
                /\ Brief(items[k]).role = IF k = 1 THEN "seed" ELSE "trace_step"
                /\ k = 1 => Brief(items[k]).observation = named
    <2>1. items[k].step = trace[k] /\ StepOk(trace[k])
      BY <1>1, <1>2 DEF ItemsOk, TraceOk
    <2>2. trace[k].state = "seed" <=> k = 1
      <3>1. k = 1 => trace[k].state = "seed"
        BY <1>2 DEF TraceOk
      <3>2. CASE k # 1
        <4>1. k - 1 \in 1 .. n - 1 /\ (k - 1) + 1 = k
          BY <3>2
        <4>2. FollowsStep(trace[k - 1], trace[(k - 1) + 1])
          BY <1>2, <4>1 DEF TraceOk
        <4> QED
          BY <3>2, <4>1, <4>2 DEF FollowsStep
      <3> QED
        BY <3>1, <3>2
    <2>3. /\ Brief(items[k]).reason = trace[k].reason
          /\ Brief(items[k]).state = trace[k].state
          /\ Brief(items[k]).role = items[k].role
          /\ Brief(items[k]).position = items[k].position
          /\ Brief(items[k]).observation = <<items[k].name, items[k].document>>
      BY <2>1 DEF Brief
    <2>4. k = 1 => n + 1 - k = n
      OBVIOUS
    <2> QED
      <3>1. /\ Brief(items[k]).position = n - k
            /\ Brief(items[k]).role = IF k = 1 THEN "seed" ELSE "trace_step"
            /\ k = 1 => Brief(items[k]).observation = named
        BY <1>3, <2>3, <2>4 DEF named
      <3>2. Brief(items[k]).reason \in ReasonsOf(Brief(items[k]).state)
        BY <2>1, <2>3 DEF StepOk
      <3>3. Brief(items[k]).role = "seed" <=> Brief(items[k]).state = "seed"
        BY <2>1, <2>2, <2>3, <3>1
      <3> QED
        BY <3>1, <3>2, <3>3 DEF BriefIsValid
  <1>12. ASSUME NEW i \in 1 .. brought
         PROVE  /\ BriefIsValid(record.sample[i])
                /\ record.sample[i].position = n - (o + i - 1) - 1
                /\ record.sample[i].role = IF o + i - 1 = 0 THEN "seed" ELSE "trace_step"
                /\ o + i - 1 = 0 => record.sample[i].observation = record.seed
    <2>1. i \in 1 .. e - o
      BY <1>5, <1>9
    <2>2. record.sample[i] = Brief(items[o + i]) /\ o + i \in 1 .. n
      BY <1>5, <1>8, <2>1
    <2>3. n - (o + i) = n - (o + i - 1) - 1 /\ (o + i = 1 <=> o + i - 1 = 0)
      BY <2>1
    <2>4. /\ BriefIsValid(Brief(items[o + i]))
          /\ Brief(items[o + i]).position = n - (o + i)
          /\ Brief(items[o + i]).role = IF o + i = 1 THEN "seed" ELSE "trace_step"
          /\ o + i = 1 => Brief(items[o + i]).observation = named
      BY <1>11, <2>2
    <2> QED
      BY <1>8, <2>2, <2>3, <2>4
  <1>13. record.truncated <=> record.count > Len(record.sample)
    BY <1>8, <1>10
  <1>14. /\ a.coverage.truncated <=> e < n
         /\ a.more <=> e < n
    BY <1>1, <1>4
  <1>15. record.count >= 1 /\ o < n
    BY <1>5, <1>8
  <1>16. Len(record.sample) = IF record.count <= SampleSize THEN record.count ELSE SampleSize
    BY <1>8, <1>9, <1>10
  <1>17. RecordIsValid(record)
    <2>1. record.coverage.offset + record.count = e
      BY <1>5, <1>6, <1>8
    <2>2. /\ record.coverage.documents = n /\ record.coverage.offset = o
          /\ record.coverage.returned = record.count
      BY <1>6, <1>8
    <2>3. ASSUME NEW i \in DOMAIN record.sample
          PROVE  /\ BriefIsValid(record.sample[i])
                 /\ record.sample[i].position =
                      record.coverage.documents - (record.coverage.offset + i - 1) - 1
                 /\ record.sample[i].role =
                      IF record.coverage.offset + i - 1 = 0 THEN "seed" ELSE "trace_step"
                 /\ record.coverage.offset + i - 1 = 0 =>
                      record.sample[i].observation = record.seed
      BY <1>10, <1>12, <2>2
    <2>4. /\ record.coverage.truncated <=> e < record.coverage.documents
          /\ record.more <=> e < record.coverage.documents
      BY <1>8, <1>14, <2>2
    <2>5. /\ record.coverage.offset < record.coverage.documents
          /\ e <= record.coverage.documents
      BY <1>5, <1>15, <2>2
    <2> QED
      BY <1>13, <1>15, <1>16, <2>1, <2>2, <2>3, <2>4, <2>5 DEF RecordIsValid
  <1> QED
    BY <1>17 DEF record, named

-----------------------------------------------------------------------------
(* Every history that is answered counts truly and can be recorded.         *)

LEMMA FilesAre ==
  ASSUME PInv, pc = "answer"
  PROVE  /\ Len(Files) \in Nat \ {0}
         /\ Len(Files) = Len(captured)
         /\ InDocuments(task.seed)
         /\ \A i \in 1 .. Len(Files) : /\ Files[i].document \in Documents
                                       /\ Files[i].document = captured[i].document
                                       /\ Files[i].name = captured[i].name
  <1>1. IsSequence(captured) /\ Len(captured) \in Nat \ {0} /\ DOMAIN captured = 1 .. Len(captured)
    BY SequenceFacts DEF PInv, ReadOk
  <1>2. \A i \in 1 .. Len(captured) : captured[i].document \in Documents
    BY <1>1 DEF PInv, ReadOk
  <1>3. Files = [i \in 1 .. Len(captured) |->
                   [name |-> captured[i].name, document |-> captured[i].document]]
    BY <1>1 DEF Files
  <1>4. Len(Files) = Len(captured)
    BY <1>1, <1>3
  <1>5. InDocuments(task.seed)
    BY TasksAssumption DEF PInv, InDocuments
  <1> QED
    BY <1>1, <1>2, <1>3, <1>4, <1>5

LEMMA HistoryAnswered ==
  ASSUME PInv, pc = "answer", ~IsMap, Offset < Len(Complete)
  PROVE  Offset \in Nat /\ HistoryAnswer(Result(Complete, Page(Complete)), Complete, Offset)
  <1> DEFINE items == Complete
             page == Page(items)
             a == Result(items, page)
             o == Offset
  <1>1. o \in Nat
    BY DEF PInv, CursorOk, Offset, NoCursor
  <1>2. IsSequence(items) /\ Len(items) \in Nat \ {0}
    BY CompleteIsASequence
  <1>3. request.size \in Nat \ {0}
    BY DEF PInv, CursorOk
  <1> HIDE DEF items
  <1>4. PICK e \in Offset + 1 .. Len(items) : page = SubSeq(items, Offset + 1, e)
    BY <1>1, <1>2, <1>3, PageIsNext DEF items
  <1> HIDE DEF page
  <1>5. /\ a.items = page
        /\ a.coverage = Coverage(items, o, page)
        /\ a.more <=> o + Len(page) < Len(items)
    BY DEF Result
  <1> HIDE DEF a, o
  <1>6. Len(page) = e - o /\ o + (e - o) = e
    BY <1>1, <1>2, <1>4, PieceOf DEF o
  <1>7. Coverage(items, o, page).truncated <=> o + Len(page) < Len(items)
    BY DEF Coverage
  <1>8. HistoryAnswer(a, items, o)
    BY <1>4, <1>5, <1>6, <1>7 DEF HistoryAnswer, o
  <1> QED
    BY <1>1, <1>8 DEF a, o, items, page

\* A history is never refused for what the server itself made of it.
LEMMA NoContractFault ==
  ASSUME PInv, pc = "answer", ~IsMap
  PROVE  Fault(Complete) # "output_contract_error"
  <1> DEFINE parses == [k \in DOMAIN Files |->
                          IF ~Content[Files[k].document].readable THEN "invalid_docx"
                          ELSE IF Indexed(Files, k) > MaxParagraphs
                          THEN "resource_limit_exceeded" ELSE "none"]
             made == [k \in DOMAIN Complete |->
                        IF ~OneReasonEach(Complete[k]) THEN "output_contract_error"
                        ELSE IF Complete[k].selected # {} /\
                                ~Content[Complete[k].document].extractable
                        THEN "file_unextractable"
                        ELSE IF SelectedUnits(Complete, k) > MaxUnits \/
                                Weight(Complete[k]) > ObservationWeight
                        THEN "resource_limit_exceeded" ELSE "none"]
  <1>1. /\ Len(Files) \in Nat \ {0}
        /\ InDocuments(task.seed)
        /\ \A i \in 1 .. Len(Files) : Files[i].document \in Documents
        /\ DOMAIN Files = 1 .. Len(Files)
    <2>1. DOMAIN Files = DOMAIN captured /\ DOMAIN captured = 1 .. Len(captured)
      BY SequenceFacts DEF Files, PInv, ReadOk
    <2> QED
      BY <2>1, FilesAre
  <1>2. Complete = HistoryItems(Files, task.seed)
    BY DEF Complete
  <1>3. IsSequence(Complete) /\ DOMAIN Complete = 1 .. Len(Files) /\ Len(Complete) = Len(Files)
    BY <1>1, <1>2, HistoryItemsAre, SequenceFacts
  <1>4. \A k \in DOMAIN Complete : OneReasonEach(Complete[k])
    BY <1>1, <1>2, <1>3, CandidatesHaveOneReason
  <1>5. ParseFault(Files) = FirstFault(parses) /\ MaterializeFault(Complete) = FirstFault(made)
    BY DEF ParseFault, MaterializeFault
  <1>6. /\ \A k \in DOMAIN parses : parses[k] # "output_contract_error"
        /\ \A k \in DOMAIN made : made[k] # "output_contract_error"
    BY <1>4
  <1>7. DOMAIN parses = 1 .. Len(Files) /\ DOMAIN made = 1 .. Len(Files)
    BY <1>1, <1>3
  <1> HIDE DEF parses, made
  <1>8. /\ ParseFault(Files) # "output_contract_error"
        /\ MaterializeFault(Complete) # "output_contract_error"
    BY <1>1, <1>5, <1>6, <1>7, FirstFaultIsOne
  <1>9. Offset < Len(Complete) =>
          ResultIsConsistent(Complete, Result(Complete, Page(Complete)))
    BY <1>1, <1>2, HistoryAnswered, ResultsAreConsistent
  <1>10. Offset >= Len(Complete) \/ Offset < Len(Complete)
    <2>1. Offset \in Nat
      BY DEF PInv, CursorOk, Offset, NoCursor
    <2> QED
      BY <1>1, <1>3, <2>1
  <1> QED
    BY <1>8, <1>9, <1>10 DEF Fault, HistoryFault

(* The seed is the last file a history reads, and no name is read twice.     *)
SeedOk ==
    /\ \A i, j \in DOMAIN captured : captured[i].name = captured[j].name => i = j
    /\ ~IsMap /\ pc \in {"open", "read"} =>
         /\ task.seedName \in Unread(captured)
         /\ \A n \in DOMAIN found : Place(n) <= Place(task.seedName)
    /\ ~IsMap /\ pc \in {"recheck", "restat", "answer"} =>
         captured[Len(captured)].name = task.seedName

SInv == SeedOk /\ CountsAreTrue /\ HistoriesAreRecordable

LEMMA InitSInv == Init => SInv
  <1> SUFFICES ASSUME Init PROVE SInv
    OBVIOUS
  <1>1. SeedOk /\ CountsAreTrue
    BY DEF Init, SeedOk, CountsAreTrue
  <1>2. answer # Refusal("output_contract_error") /\ pc # "publish"
    BY DEF Init, Refusal
  <1>3. \A k \in DOMAIN journal : journal[k].tool = "history" => RecordIsValid(journal[k])
    <2>1. task \in Tasks /\ journal = task.journal /\ journal \in Seq(ToSet(journal))
      BY TasksAssumption DEF Init
    <2>2. \A k \in DOMAIN journal : journal[k] \in ToSet(journal)
      BY DEF ToSet
    <2> QED
      BY <2>1, <2>2, TasksAssumption
  <1> QED
    BY <1>1, <1>2, <1>3 DEF SInv, HistoriesAreRecordable

LEMMA AppendedRecord ==
  ASSUME NEW records, IsSequence(records), NEW r,
         \A k \in DOMAIN records : records[k].tool = "history" => RecordIsValid(records[k]),
         r.tool = "history" => RecordIsValid(r)
  PROVE  \A k \in DOMAIN Append(records, r) :
           Append(records, r)[k].tool = "history" => RecordIsValid(Append(records, r)[k])
  <1> DEFINE S == {records[i] : i \in DOMAIN records} \cup {r}
             longer == Append(records, r)
  <1>1. records \in Seq(S) /\ r \in S
    BY DEF IsSequence
  <1> HIDE DEF S
  <1>2. /\ DOMAIN longer = 1 .. Len(records) + 1
        /\ DOMAIN records = 1 .. Len(records)
        /\ Len(records) \in Nat
        /\ \A k \in 1 .. Len(records) : longer[k] = records[k]
        /\ longer[Len(records) + 1] = r
    BY <1>1
  <1> HIDE DEF longer
  <1>3. \A k \in DOMAIN longer : k = Len(records) + 1 \/ k \in DOMAIN records
    BY <1>2
  <1>4. \A k \in DOMAIN longer : longer[k].tool = "history" => RecordIsValid(longer[k])
    BY <1>2, <1>3
  <1> QED
    BY <1>4 DEF longer

\* What a step that answers nothing leaves of it.
LEMMA KeptAnswers ==
  ASSUME PInv, SInv, task' = task, pc' # "publish",
         \/ answer' = answer
         \/ \E code : code # "output_contract_error" /\ answer' = Refusal(code),
         \/ journal' = journal
         \/ \E r : journal' = Append(journal, r) /\ (r.tool = "history" => RecordIsValid(r))
  PROVE  CountsAreTrue' /\ HistoriesAreRecordable'
  <1>1. answer' # Refusal("output_contract_error")
    BY DEF SInv, HistoriesAreRecordable, Refusal
  <1>2. \A k \in DOMAIN journal' : journal'[k].tool = "history" => RecordIsValid(journal'[k])
    <2>1. \A k \in DOMAIN journal : journal[k].tool = "history" => RecordIsValid(journal[k])
      BY DEF SInv, HistoriesAreRecordable
    <2>2. CASE journal' = journal
      BY <2>1, <2>2
    <2>3. ASSUME NEW r, journal' = Append(journal, r), r.tool = "history" => RecordIsValid(r)
          PROVE  \A k \in DOMAIN journal' : journal'[k].tool = "history" => RecordIsValid(journal'[k])
      <3>1. IsSequence(journal)
        BY DEF PInv, ReadOk
      <3> QED
        BY <2>1, <2>3, <3>1, AppendedRecord
    <2> QED
      BY <2>2, <2>3
  <1>3. CountsAreTrue'
    BY DEF CountsAreTrue
  <1> QED
    BY <1>1, <1>2, <1>3 DEF HistoriesAreRecordable

LEMMA CallOverSeedOk ==
  ASSUME CallOver
  PROVE  SeedOk'
  BY DEF CallOver, SeedOk

LEMMA RefuseSInv ==
  ASSUME PInv, SInv, NEW code, code # "output_contract_error", Refuse(code)
  PROVE  SInv'
  <1>1. SeedOk'
    BY CallOverSeedOk DEF Refuse
  <1>2. CountsAreTrue' /\ HistoriesAreRecordable'
    BY KeptAnswers DEF Refuse, CallOver
  <1> QED
    BY <1>1, <1>2 DEF SInv

\* Places tell the names of an order apart.
LEMMA PlacesDiffer ==
  ASSUME NEW n, NEW m, \E i \in DOMAIN Order : Order[i] = n, \E i \in DOMAIN Order : Order[i] = m,
         Place(n) = Place(m)
  PROVE  n = m
  BY DEF Place

LEMMA PlaceIsNat ==
  ASSUME PInv, NEW n, \E i \in DOMAIN Order : Order[i] = n
  PROVE  Place(n) \in Nat
  <1>1. Names \in Seq(NameSet) /\ (task.order = Lexical \/ task.order \in Seq(NameSet))
    BY TasksAssumption DEF PInv
  <1>2. Order \in Seq(NameSet)
    BY <1>1 DEF Order
  <1>3. DOMAIN Order \subseteq Nat
    BY <1>2
  <1> QED
    BY <1>3 DEF Place

\* The next file comes before every other one that is left.
LEMMA NextIsFirst ==
  ASSUME PInv, pc \in {"open", "read"}
  PROVE  NextName \in Unread(captured) /\ \A m \in Unread(captured) : Place(NextName) <= Place(m)
  <1> DEFINE U == Unread(captured)
             S == {Place(n) : n \in U}
  <1>1. U # {} /\ U \subseteq DOMAIN found
    BY DEF PInv, ReadOk, Unread
  <1>2. \A n \in U : Place(n) \in Nat
    BY <1>1, PlaceIsNat DEF PInv, ReadOk
  <1>3. S \in SUBSET Nat /\ S # {}
    BY <1>1, <1>2
  <1>4. \E x \in S : \A y \in S : x <= y
    <2> HIDE DEF S
    <2> QED
      BY <1>3, LeastExists
  <1>5. \E n \in U : \A m \in U : Place(n) <= Place(m)
    BY <1>4
  <1> HIDE DEF U
  <1>6. LET n == CHOOSE n \in U : \A m \in U : Place(n) <= Place(m)
        IN  n \in U /\ \A m \in U : Place(n) <= Place(m)
    BY <1>5
  <1> QED
    BY <1>6 DEF NextName, U

LEMMA EnumerateSInv ==
  ASSUME PInv, SInv, Enumerate
  PROVE  SInv'
  <1>1. CASE \E code : code # "output_contract_error" /\ Refuse(code)
    BY <1>1, RefuseSInv
  <1>2. CASE ~\E code : code # "output_contract_error" /\ Refuse(code)
    <2> DEFINE candidates == Listed(folder)
    <2>1. /\ pc = "enumerate" /\ pc' = "open"
          /\ task.seedName \in candidates
          /\ IsMap \/ \A n \in candidates : Place(n) <= Place(task.seedName)
          /\ DOMAIN found' = candidates
          /\ UNCHANGED <<task, journal, captured, answer>>
      BY <1>2 DEF Enumerate
    <2> HIDE DEF candidates
    <2>2. captured' = <<>> /\ DOMAIN captured' = {}
      BY <2>1 DEF PInv, ReadOk
    <2>3. task'.seedName \in Unread(captured)'
      BY <2>1, <2>2 DEF Unread
    <2>4. \A n : Place(n)' = Place(n)
      BY <2>1 DEF Place, Order
    <2>5. ~IsMap' => \A n \in DOMAIN found' : Place(n)' <= Place(task.seedName)'
      <3>1. Place(task.seedName)' = Place(task.seedName)
        BY <2>1 DEF Place, Order
      <3> QED
        BY <2>1, <2>4, <3>1 DEF IsMap
    <2>6. SeedOk'
      BY <2>1, <2>2, <2>3, <2>5 DEF SeedOk
    <2>7. CountsAreTrue' /\ HistoriesAreRecordable'
      BY <2>1, KeptAnswers
    <2> QED
      BY <2>6, <2>7 DEF SInv
  <1> QED
    BY <1>1, <1>2

LEMMA OpenSInv ==
  ASSUME PInv, SInv, Open
  PROVE  SInv'
  <1>1. CASE \E code : code # "output_contract_error" /\ Refuse(code)
    BY <1>1, RefuseSInv
  <1>2. CASE ~\E code : code # "output_contract_error" /\ Refuse(code)
    <2>1. /\ pc = "open" /\ pc' = "read"
          /\ UNCHANGED <<task, journal, captured, found, answer>>
      BY <1>2 DEF Open
    <2>2. SeedOk'
      BY <2>1 DEF SInv, SeedOk, IsMap, Unread, Place, Order
    <2>3. CountsAreTrue' /\ HistoriesAreRecordable'
      BY <2>1, KeptAnswers
    <2> QED
      BY <2>2, <2>3 DEF SInv
  <1> QED
    BY <1>1, <1>2

LEMMA ReadSInv ==
  ASSUME PInv, SInv, Read
  PROVE  SInv'
  <1>1. CASE \E code : code # "output_contract_error" /\ Refuse(code)
    BY <1>1, RefuseSInv
  <1>2. CASE ~\E code : code # "output_contract_error" /\ Refuse(code)
    <2> DEFINE name == NextName
               new == [name |-> name, document |-> folder[name], stamp |-> opened]
               seed == task.seedName
    <2>1. /\ pc = "read"
          /\ captured' = Append(captured, new)
          /\ pc' = IF Unread(captured') = {} THEN "recheck" ELSE "open"
          /\ UNCHANGED <<task, journal, found, answer>>
      BY <1>2 DEF Read
    <2>2. name \in Unread(captured) /\ \A m \in Unread(captured) : Place(name) <= Place(m)
      BY <2>1, NextIsFirst
    <2> HIDE DEF name
    <2>3. new.name = name
      OBVIOUS
    <2> HIDE DEF new
    <2> DEFINE S == {captured[i] : i \in DOMAIN captured} \cup {new}
    <2>4. captured \in Seq(S) /\ new \in S
      BY DEF PInv, ReadOk, IsSequence
    <2> HIDE DEF S
    <2>5. /\ DOMAIN captured' = 1 .. Len(captured) + 1
          /\ DOMAIN captured = 1 .. Len(captured)
          /\ Len(captured) \in Nat
          /\ Len(captured') = Len(captured) + 1
          /\ \A i \in DOMAIN captured : captured'[i] = captured[i]
          /\ captured'[Len(captured) + 1] = new
      BY <2>1, <2>4
    <2>6. \A i \in DOMAIN captured : captured[i].name # name
      BY <2>2 DEF Unread
    <2>7. ASSUME NEW i \in DOMAIN captured', NEW j \in DOMAIN captured',
                 captured'[i].name = captured'[j].name
          PROVE  i = j
      <3>1. i \in DOMAIN captured \/ i = Len(captured) + 1
        BY <2>5
      <3>2. j \in DOMAIN captured \/ j = Len(captured) + 1
        BY <2>5
      <3> QED
        BY <2>3, <2>5, <2>6, <2>7, <3>1, <3>2 DEF SInv, SeedOk
    <2>8. Unread(captured)' = Unread(captured) \ {name} /\ Unread(captured') = Unread(captured)'
      <3>1. {captured'[i].name : i \in DOMAIN captured'} =
              {captured[i].name : i \in DOMAIN captured} \cup {name}
        BY <2>3, <2>5
      <3> QED
        BY <2>1, <3>1 DEF Unread
    <2>9. ASSUME IsMap
          PROVE  SeedOk'
      BY <2>1, <2>7, <2>9 DEF SeedOk, IsMap
    <2>10. ASSUME ~IsMap
           PROVE  SeedOk'
      <3>1. /\ seed \in Unread(captured)
            /\ \A n \in DOMAIN found : Place(n) <= Place(seed)
        BY <2>1, <2>10 DEF SInv, SeedOk
      <3>2. ASSUME name = seed PROVE Unread(captured) = {name}
        <4>1. ASSUME NEW m \in Unread(captured) PROVE m = name
          <5>1. m \in DOMAIN found /\ name \in DOMAIN found
            BY <2>2 DEF Unread
          <5>2. Place(m) <= Place(name) /\ Place(name) <= Place(m)
            BY <2>2, <3>1, <3>2, <5>1
          <5>3. Place(m) \in Nat /\ Place(name) \in Nat
            BY <2>1, <5>1, PlaceIsNat DEF PInv, ReadOk
          <5>4. Place(m) = Place(name)
            BY <5>2, <5>3
          <5> QED
            BY <2>1, <5>1, <5>4, PlacesDiffer DEF PInv, ReadOk
        <4> QED
          BY <2>2, <4>1
      <3>3. CASE name = seed
        <4>1. pc' = "recheck" /\ captured'[Len(captured')].name = seed
          BY <2>1, <2>3, <2>5, <2>8, <3>2, <3>3
        <4> QED
          BY <2>1, <2>7, <4>1 DEF SeedOk
      <3>4. CASE name # seed
        <4>1. seed \in Unread(captured)' /\ pc' = "open"
          BY <2>1, <2>8, <3>1, <3>4
        <4>2. \A n \in DOMAIN found' : Place(n)' <= Place(task.seedName)'
          <5>1. (\A n : Place(n)' = Place(n)) /\ Place(task.seedName)' = Place(task.seedName)
            BY <2>1 DEF Place, Order
          <5> QED
            BY <2>1, <3>1, <5>1
        <4> QED
          BY <2>1, <2>7, <4>1, <4>2 DEF SeedOk
      <3> QED
        BY <3>3, <3>4
    <2>11. SeedOk'
      BY <2>9, <2>10
    <2>12. CountsAreTrue' /\ HistoriesAreRecordable'
      BY <2>1, KeptAnswers
    <2> QED
      BY <2>11, <2>12 DEF SInv
  <1> QED
    BY <1>1, <1>2

LEMMA CheckSInv ==
  ASSUME PInv, SInv, Recheck \/ Restat
  PROVE  SInv'
  <1>1. CASE \E code : code # "output_contract_error" /\ Refuse(code)
    BY <1>1, RefuseSInv
  <1>2. CASE ~\E code : code # "output_contract_error" /\ Refuse(code)
    <2>1. /\ pc \in {"recheck", "restat"} /\ pc' \in {"restat", "answer"}
          /\ UNCHANGED <<task, journal, captured, found, answer>>
      BY <1>2 DEF Recheck, Restat, reading
    <2>2. SeedOk'
      BY <2>1 DEF SInv, SeedOk, IsMap
    <2>3. CountsAreTrue' /\ HistoriesAreRecordable'
      BY <2>1, KeptAnswers
    <2> QED
      BY <2>2, <2>3 DEF SInv
  <1> QED
    BY <1>1, <1>2

LEMMA AnswerSInv ==
  ASSUME PInv, SInv, Answer
  PROVE  SInv'
  <1> DEFINE items == Complete
             page == Page(items)
             a == Result(items, page)
  <1>0. /\ pc = "answer"
        /\ basis' = [files |-> captured, journal |-> journal]
        /\ UNCHANGED <<task, journal>>
    BY DEF Answer, CallOver
  <1>1. CASE CallOver
    <2>1. answer' = Refusal(Fault(items)) /\ pc' = "idle"
      BY <1>1 DEF Answer, CallOver
    <2>2. Fault(items) # "output_contract_error"
      <3>1. CASE IsMap
        BY <3>1 DEF Fault, MapFault
      <3> QED
        BY <1>0, <3>1, NoContractFault
    <2> HIDE DEF items
    <2>3. CountsAreTrue' /\ HistoriesAreRecordable'
      BY <1>0, <2>1, <2>2, KeptAnswers
    <2> QED
      BY <1>1, <2>3, CallOverSeedOk DEF SInv
  <1>2. CASE ~CallOver
    <2>1. /\ Fault(items) = "none"
          /\ answer' = a
          /\ pc' = "publish"
          /\ UNCHANGED <<captured, found>>
      BY <1>2 DEF Answer, reading
    <2>2. SeedOk'
      BY <1>0, <2>1 DEF SInv, SeedOk
    <2>3. a.status = "ok"
      BY DEF Result
    <2>4. answer' # Refusal("output_contract_error")
      <3> HIDE DEF a
      <3> QED
        BY <2>1, <2>3 DEF Refusal
    <2>5. \A k \in DOMAIN journal' : journal'[k].tool = "history" => RecordIsValid(journal'[k])
      BY <1>0 DEF SInv, HistoriesAreRecordable
    <2>6. CASE IsMap
      BY <1>0, <2>2, <2>4, <2>5, <2>6 DEF SInv, HistoriesAreRecordable, CountsAreTrue, IsMap
    <2>7. CASE ~IsMap
      <3> DEFINE files == Files
                 seed == task.seed
                 n == Len(files)
      <3>1. /\ n \in Nat \ {0} /\ n = Len(captured)
            /\ InDocuments(seed)
            /\ \A i \in 1 .. n : /\ files[i].document \in Documents
                                 /\ files[i].document = captured[i].document
                                 /\ files[i].name = captured[i].name
        BY <1>0, FilesAre
      <3>2. items = HistoryItems(files, seed)
        BY <2>7 DEF Complete
      <3>3. Offset < Len(items)
        <4>1. Len(items) \in Nat \ {0}
          BY <1>0, CompleteIsASequence
        <4> QED
          BY <1>0, <2>1, <4>1, AcceptedCursor
      <3>4. Offset \in Nat /\ HistoryAnswer(a, items, Offset)
        BY <1>0, <2>7, <3>3, HistoryAnswered
      <3>5. files[n].name = task.seedName /\ files[n].document = task.seed[1]
        <4>1. captured[n].name = task.seedName /\ DOMAIN captured = 1 .. n
          BY <1>0, <2>7, <3>1, SequenceFacts DEF SInv, SeedOk, PInv, ReadOk
        <4>2. ASSUME NEW file \in {captured[i] : i \in DOMAIN captured},
                     file.name = task.seedName
              PROVE  file = captured[n]
          BY <3>1, <4>1, <4>2 DEF SInv, SeedOk
        <4>3. SeedFile = captured[n]
          BY <3>1, <4>1, <4>2 DEF SeedFile
        <4>4. ~SeedStale
          BY <2>1, <2>7 DEF Fault, HistoryFault
        <4> QED
          BY <3>1, <4>1, <4>3, <4>4 DEF SeedStale
      <3> HIDE DEF files, items, a
      <3>6. RecordIsValid(HistoryRecord(a, <<files[n].name, files[n].document>>))
        BY <3>1, <3>2, <3>4, RecordsAreValid
      <3>7. Record' = HistoryRecord(a, <<task.seedName, task.seed[1]>>)
        BY <1>0, <2>1, <2>7 DEF Record, IsMap
      <3>8. RecordIsValid(Record)'
        BY <3>5, <3>6, <3>7
      <3>9. HistoriesAreRecordable'
        BY <2>4, <2>5, <3>8 DEF HistoriesAreRecordable
      <3>10. TraceOk(Trace(files, seed), n) /\ ItemsOk(items, Trace(files, seed), n)
             /\ Len(items) = n
        BY <3>1, <3>2, TracesAreOk, HistoryItemsAre
      <3>11. PICK e : a.coverage = Coverage(items, Offset, SubSeq(items, Offset + 1, e))
        BY <3>4 DEF HistoryAnswer
      <3>12. GoodCounts(a.coverage, n)
        BY <3>1, <3>10, <3>11, CountsAreGood
      <3>13. a.coverage.documents = n
        BY <3>10, <3>11, CoverageFields
      <3>14. Len(basis'.files) = n
        BY <1>0, <3>1
      <3>15. CountsAreTrue'
        BY <2>1, <3>12, <3>13, <3>14 DEF CountsAreTrue, GoodCounts
      <3> QED
        BY <2>2, <3>9, <3>15 DEF SInv
    <2> QED
      BY <2>6, <2>7
  <1> QED
    BY <1>1, <1>2

LEMMA NextSInv ==
  ASSUME PInv, SInv, [Next]_vars
  PROVE  SInv'
  <1>1. ASSUME NEW size, NEW from, Call(size, from)
        PROVE  SInv'
    <2>1. answer' = Refusal("none") /\ pc' = "enumerate" /\ pc = "idle"
          /\ UNCHANGED <<task, journal, captured>>
      BY <1>1 DEF Call, reading
    <2>2. SeedOk'
      BY <2>1 DEF SInv, SeedOk
    <2> QED
      BY <2>1, <2>2, KeptAnswers DEF SInv
  <1>2. ASSUME NEW code \in InputFaults, RefuseInputs(code)
        PROVE  SInv'
    <2>1. /\ answer' = Refusal(code) /\ code # "output_contract_error"
          /\ pc = "idle" /\ UNCHANGED <<task, journal, captured, pc>>
      BY <1>2 DEF RefuseInputs, reading, InputFaults
    <2>2. SeedOk'
      BY <2>1 DEF SInv, SeedOk
    <2> QED
      BY <2>1, <2>2, KeptAnswers DEF SInv
  <1>3. CASE JournalRefused
    BY <1>3, RefuseSInv DEF JournalRefused
  <1>4. CASE Publish
    <2>1. /\ CallOver
          /\ answer' = answer
          /\ \/ (~IsMap => RecordIsValid(Record)) /\ journal' = Append(journal, Record)
             \/ journal' = journal
      BY <1>4 DEF Publish
    <2>2. Record.tool = "history" => ~IsMap
      BY DEF Record
    <2>3. CountsAreTrue' /\ HistoriesAreRecordable'
      BY <2>1, <2>2, KeptAnswers DEF CallOver
    <2> QED
      BY <2>1, <2>3, CallOverSeedOk DEF SInv
  <1>5. CASE Others
    <2>1. /\ \/ journal' = journal
             \/ \E r \in ApplyRecords : journal' = Append(journal, r)
          /\ UNCHANGED <<task, pc, found, captured, answer, basis>>
      BY <1>5 DEF Others, SaveInPlace, Replace, TakeAway, Change, RecordApply, reading
    <2>2. SeedOk'
      BY <2>1 DEF SInv, SeedOk, IsMap, Unread, Place, Order
    <2>3. \A r \in ApplyRecords : r.tool = "history" => RecordIsValid(r)
      BY TasksAssumption DEF PInv
    <2>4. \A k \in DOMAIN journal' : journal'[k].tool = "history" => RecordIsValid(journal'[k])
      <3>1. \A k \in DOMAIN journal : journal[k].tool = "history" => RecordIsValid(journal[k])
        BY DEF SInv, HistoriesAreRecordable
      <3>2. CASE journal' = journal
        BY <3>1, <3>2
      <3>3. ASSUME NEW r \in ApplyRecords, journal' = Append(journal, r)
            PROVE  \A k \in DOMAIN journal' :
                     journal'[k].tool = "history" => RecordIsValid(journal'[k])
        <4>1. IsSequence(journal)
          BY DEF PInv, ReadOk
        <4> QED
          BY <2>3, <3>1, <3>3, <4>1, AppendedRecord
      <3> QED
        BY <2>1, <3>2, <3>3
    <2>5. CountsAreTrue'
      BY <2>1 DEF SInv, CountsAreTrue, IsMap
    <2>6. (~IsMap /\ pc = "publish" => RecordIsValid(Record))'
      <3>1. IsMap' = IsMap /\ Record' = Record
        BY <2>1 DEF Record, IsMap
      <3> QED
        BY <2>1, <3>1 DEF SInv, HistoriesAreRecordable
    <2>7. answer' # Refusal("output_contract_error")
      BY <2>1 DEF SInv, HistoriesAreRecordable
    <2> QED
      BY <2>2, <2>4, <2>5, <2>6, <2>7 DEF SInv, HistoriesAreRecordable
  <1>6. CASE UNCHANGED vars
    <2>1. IsMap' = IsMap /\ Record' = Record /\ UNCHANGED <<pc, answer, journal, basis, captured, task, found>>
      BY <1>6 DEF vars, Record, IsMap
    <2>2. SeedOk' /\ CountsAreTrue'
      BY <2>1 DEF SInv, SeedOk, CountsAreTrue, IsMap, Unread, Place, Order
    <2>3. HistoriesAreRecordable'
      BY <2>1 DEF SInv, HistoriesAreRecordable
    <2> QED
      BY <2>2, <2>3 DEF SInv
  <1> QED
    BY <1>1, <1>2, <1>3, <1>4, <1>5, <1>6, EnumerateSInv, OpenSInv, ReadSInv, CheckSInv, AnswerSInv
    DEF Next, Agent

\* Whatever the folder holds, what a history counts is so of its complete
\* result, on every page (_coverage), ...
THEOREM HistoriesCountTruly == Spec => []CountsAreTrue
  <1>1. Init => PInv /\ SInv
    BY InitPInv, InitSInv
  <1>2. PInv /\ SInv /\ [Next]_vars => (PInv /\ SInv)'
    BY NextPInv, NextSInv
  <1>3. SInv => CountsAreTrue
    BY DEF SInv
  <1> QED
    BY <1>1, <1>2, <1>3, PTL DEF Spec

\* ... _validate_result never refuses what _build_paragraph_history made, and
\* _paragraph_history_record_shape_is_valid accepts the record of every page
\* and every history record in the journal.
THEOREM HistoriesCanBeRecorded == Spec => []HistoriesAreRecordable
  <1>1. Init => PInv /\ SInv
    BY InitPInv, InitSInv
  <1>2. PInv /\ SInv /\ [Next]_vars => (PInv /\ SInv)'
    BY NextPInv, NextSInv
  <1>3. SInv => HistoriesAreRecordable
    BY DEF SInv
  <1> QED
    BY <1>1, <1>2, <1>3, PTL DEF Spec
=============================================================================
