--------------------------- MODULE CommentsProofs ---------------------------
(***************************************************************************)
(* Threads stay whole (ThreadsStayWhole) and operations are local          *)
(* (OperationsAreLocal), in sessions of any length on any documents and    *)
(* packages Word hands over.  The invariant is Whole.  It rests on three   *)
(* arguments.  An operation leaves the pieces of the document it does not  *)
(* add or remove in their order (Carries), and where anchors of two        *)
(* messages correspond they quote the same stretch (Matches).  A thread    *)
(* has a root because comments are finitely many, so that the way up,      *)
(* which visits none twice, ends (TopIsNear), and an operation that keeps  *)
(* the way up keeps the root (SameRoots).  An identifier that is not in    *)
(* use is new to every part (UnusedFacts).  That what is carried reads the *)
(* same (SameText) is that places are numbered in one way (OneNumbering).  *)
(***************************************************************************)
EXTENDS Comments, FiniteSetTheorems, TLAPS

-----------------------------------------------------------------------------
(* Numbers and finite sets. *)

\* A non-empty set of numbers has a least one.
LEMMA LeastExists ==
  ASSUME NEW S \in SUBSET Nat, S # {}
  PROVE  \E x \in S : \A y \in S : x <= y
  <1> DEFINE R == OpToRel(<, Nat)
  <1>1. \A T : (T \subseteq Nat /\ T # {}) => \E x \in T : \A y \in T : <<y, x>> \notin R
    BY NatLessThanWellFounded, WFMin
  <1>2. PICK x \in S : \A y \in S : <<y, x>> \notin R
    BY <1>1, Zenon
  <1>3. ASSUME NEW y \in S PROVE x <= y
    <2>1. CASE y < x
      <3>1. <<y, x>> \in Nat \X Nat
        OBVIOUS
      <3> QED
        BY <1>2, <2>1, <3>1 DEF OpToRel
    <2> QED
      BY <2>1
  <1> QED
    BY <1>2, <1>3

\* A bounded one has a greatest one.
LEMMA GreatestExists ==
  ASSUME NEW S \in SUBSET Nat, S # {}, NEW b \in Nat, \A x \in S : x <= b
  PROVE  \E x \in S : \A y \in S : y <= x
  <1> DEFINE T == {b - x : x \in S}
  <1>1. T \in SUBSET Nat /\ T # {}
    <2>1. \A x \in S : x \in Nat /\ x <= b /\ b - x \in Nat
      OBVIOUS
    <2> QED
      BY <2>1
  <1>2. PICK z \in T : \A y \in T : z <= y
    BY <1>1, LeastExists
  <1>3. PICK x \in S : z = b - x
    OBVIOUS
  <1>4. ASSUME NEW y \in S PROVE y <= x
    <2>1. b - y \in T
      OBVIOUS
    <2>2. b - x <= b - y
      BY <1>2, <1>3, <2>1
    <2> QED
      BY <2>2
  <1> QED
    BY <1>4

\* Induction over the numbers, for a set of them.
LEMMA NatSet ==
  ASSUME NEW S, 0 \in S, \A n \in Nat : n \in S => n + 1 \in S
  PROVE  Nat \subseteq S
  <1> SUFFICES ASSUME Nat \ S # {} PROVE FALSE
    OBVIOUS
  <1>1. PICK x \in Nat \ S : \A y \in Nat \ S : x <= y
    <2> DEFINE T == Nat \ S
    <2>1. T \in SUBSET Nat /\ T # {}
      OBVIOUS
    <2> HIDE DEF T
    <2>2. \E x \in T : \A y \in T : x <= y
      BY <2>1, LeastExists
    <2> QED
      BY <2>2 DEF T
  <1>2. x # 0 /\ x - 1 \in Nat /\ x - 1 \in S
    <2>1. x \in Nat /\ x # 0
      OBVIOUS
    <2>2. x - 1 \in Nat /\ ~ (x <= x - 1)
      BY <2>1
    <2> QED
      BY <2>1, <2>2, <1>1
  <1>3. (x - 1) + 1 = x
    BY <1>2
  <1> QED
    BY <1>2, <1>3

\* The values of a function on a finite set are finitely many.
LEMMA FiniteImage ==
  ASSUME NEW f, IsFiniteSet(DOMAIN f), f \in [DOMAIN f -> {f[x] : x \in DOMAIN f}]
  PROVE  IsFiniteSet({f[x] : x \in DOMAIN f})
  <1> DEFINE S == DOMAIN f
             T == {f[x] : x \in DOMAIN f}
  <1>1. f \in Surjection(S, T)
    BY DEF Surjection
  <1> QED
    BY <1>1, FS_Surjection

-----------------------------------------------------------------------------
(* Sequences put together from pieces.                                       *)
LEMMA SequenceFacts ==
  ASSUME NEW s, IsSequence(s)
  PROVE  Len(s) \in Nat /\ DOMAIN s = 1 .. Len(s)
  BY DEF IsSequence

\* What is in some Seq is a sequence.
LEMMA SequenceOfAny ==
  ASSUME NEW S, NEW s \in Seq(S)
  PROVE  IsSequence(s)
  BY DEF IsSequence

\* h lists the parts put together, one more at each step.
Flattening(h, m, parts) ==
    h = [i \in 1 .. m |-> IF i = 1 THEN parts[i] ELSE h[i - 1] \o parts[i]]

\* There is such a list for every number of parts.
LEMMA SomeFlattening ==
  ASSUME NEW parts, NEW m \in Nat
  PROVE  \E h : Flattening(h, m, parts)
  <1> DEFINE S == {k \in Nat : \E h : Flattening(h, k, parts)}
  <1>1. 0 \in S
    <2> DEFINE h == [i \in 1 .. 0 |-> 0]
    <2>1. h = [i \in 1 .. 0 |-> IF i = 1 THEN parts[i] ELSE h[i - 1] \o parts[i]]
      OBVIOUS
    <2> QED
      BY <2>1 DEF Flattening
  <1>2. ASSUME NEW k \in Nat, k \in S PROVE k + 1 \in S
    <2>1. PICK h : Flattening(h, k, parts)
      BY <1>2
    <2> DEFINE new == IF k + 1 = 1 THEN parts[k + 1] ELSE h[k] \o parts[k + 1]
               g == [i \in 1 .. k + 1 |-> IF i = k + 1 THEN new ELSE h[i]]
    <2> HIDE DEF new
    <2>2. h = [i \in 1 .. k |-> IF i = 1 THEN parts[i] ELSE h[i - 1] \o parts[i]]
      BY <2>1 DEF Flattening
    <2>3. ASSUME NEW i \in 1 .. k + 1
          PROVE  g[i] = IF i = 1 THEN parts[i] ELSE g[i - 1] \o parts[i]
      <3>1. CASE i = k + 1
        <4>1. g[i] = new /\ (i # 1 => g[i - 1] = h[k])
          BY <3>1
        <4> QED
          BY <4>1, <3>1 DEF new
      <3>2. CASE i # k + 1
        <4>1. i \in 1 .. k /\ g[i] = h[i] /\ (i # 1 => i - 1 \in 1 .. k + 1 /\ i - 1 # k + 1)
          BY <3>2
        <4>2. i # 1 => g[i - 1] = h[i - 1]
          BY <4>1
        <4> QED
          BY <4>1, <4>2, <2>2
      <3> QED
        BY <3>1, <3>2
    <2> HIDE DEF g
    <2>4. g = [i \in 1 .. k + 1 |-> g[i]]
      BY DEF g
    <2>5. Flattening(g, k + 1, parts)
      BY <2>3, <2>4 DEF Flattening
    <2> QED
      BY <2>5
  <1> HIDE DEF S
  <1>3. Nat \subseteq S
    BY <1>1, <1>2, NatSet
  <1> QED
    BY <1>3 DEF S

\* at[i]: where the i-th of the parts ends in the whole.
Ends(at, parts, whole) ==
    LET n == Len(parts) IN
    /\ at \in [0 .. n -> Nat]
    /\ at[0] = 0
    /\ \A i \in 1 .. n : at[i] = at[i - 1] + Len(parts[i])
    /\ Len(whole) = at[n]
    /\ \A i \in 1 .. n : \A k \in 1 .. Len(parts[i]) : whole[at[i - 1] + k] = parts[i][k]

\* Two sequences put together.
LEMMA Joined ==
  ASSUME NEW P, NEW s \in Seq(P), NEW t \in Seq(P)
  PROVE  /\ s \o t \in Seq(P)
         /\ Len(s \o t) = Len(s) + Len(t) /\ Len(s) \in Nat /\ Len(t) \in Nat
         /\ \A k \in 1 .. Len(s) : (s \o t)[k] = s[k]
         /\ \A k \in 1 .. Len(t) : (s \o t)[Len(s) + k] = t[k]
  <1>1. s \o t \in Seq(P) /\ Len(s \o t) = Len(s) + Len(t) /\ Len(s) \in Nat /\ Len(t) \in Nat
    OBVIOUS
  <1>2. \A k \in 1 .. Len(s) : (s \o t)[k] = s[k]
    OBVIOUS
  <1>3. ASSUME NEW k \in 1 .. Len(t) PROVE (s \o t)[Len(s) + k] = t[k]
    <2>1. Len(s) + k \in 1 .. Len(s) + Len(t) /\ ~(Len(s) + k <= Len(s)) /\ (Len(s) + k) - Len(s) = k
      BY <1>1
    <2> QED
      BY <2>1
  <1> QED
    BY <1>1, <1>2, <1>3

\* The first m parts are laid end to end.
FlatTo(h, at, m, P, parts) ==
    /\ h[m] \in Seq(P)
    /\ at[m] \in Nat
    /\ \A i \in 1 .. m : at[i] = at[i - 1] + Len(parts[i])
    /\ \A i \in 1 .. m : at[i] \in Nat /\ at[i - 1] \in Nat /\ at[i] <= at[m]
    /\ \A i \in 1 .. m : \A k \in 1 .. Len(parts[i]) : h[m][at[i - 1] + k] = parts[i][k]

\* One more part: those before keep their place.
LEMMA FlatStep ==
  ASSUME NEW P, NEW parts, NEW h, NEW at, NEW m \in Nat \ {0},
         \A i \in 1 .. m + 1 : Len(parts[i]) \in Nat,
         FlatTo(h, at, m, P, parts),
         h[m + 1] \in Seq(P),
         at[m + 1] = at[m] + Len(parts[m + 1]),
         \A k \in 1 .. at[m] : h[m + 1][k] = h[m][k],
         \A k \in 1 .. Len(parts[m + 1]) : h[m + 1][at[m] + k] = parts[m + 1][k]
  PROVE  FlatTo(h, at, m + 1, P, parts)
  <1>1. (m + 1) - 1 = m /\ m + 1 \in 1 .. m + 1
    OBVIOUS
  <1>2. at[m] \in Nat
    BY DEF FlatTo
  <1>3. at[m + 1] \in Nat /\ at[m] <= at[m + 1]
    BY <1>1, <1>2
  <1>4. ASSUME NEW i \in 1 .. m + 1
        PROVE  /\ at[i] = at[i - 1] + Len(parts[i])
               /\ at[i] \in Nat /\ at[i - 1] \in Nat /\ at[i] <= at[m + 1]
    <2>1. CASE i = m + 1
      BY <2>1, <1>1, <1>2, <1>3
    <2>2. CASE i # m + 1
      <3>1. i \in 1 .. m
        BY <2>2
      <3>2. at[i] = at[i - 1] + Len(parts[i]) /\ at[i] \in Nat /\ at[i - 1] \in Nat /\ at[i] <= at[m]
        BY <3>1 DEF FlatTo
      <3> QED
        BY <3>2, <1>2, <1>3
    <2> QED
      BY <2>1, <2>2
  <1>5. ASSUME NEW i \in 1 .. m + 1, NEW k \in 1 .. Len(parts[i])
        PROVE  h[m + 1][at[i - 1] + k] = parts[i][k]
    <2>1. CASE i = m + 1
      BY <2>1, <1>1
    <2>2. CASE i # m + 1
      <3>1. i \in 1 .. m
        BY <2>2
      <3>3. at[i] = at[i - 1] + Len(parts[i]) /\ at[i - 1] \in Nat /\ at[i] <= at[m]
            /\ h[m][at[i - 1] + k] = parts[i][k] /\ Len(parts[i]) \in Nat
        BY <3>1 DEF FlatTo
      <3>2. k \in Nat /\ 1 <= k /\ k <= Len(parts[i])
        BY <3>3
      <3>4. at[i - 1] + k \in 1 .. at[m]
        BY <3>2, <3>3, <1>2
      <3> QED
        BY <3>3, <3>4
    <2> QED
      BY <2>1, <2>2
  <1> QED
    BY <1>3, <1>4, <1>5 DEF FlatTo

\* The last step has all the parts, each at its place.
LEMMA FlatEnds ==
  ASSUME NEW P, NEW parts \in Seq(Seq(P)), NEW h, NEW n \in Nat, n = Len(parts),
         Flattening(h, n, parts), n # 0
  PROVE  h[n] \in Seq(P) /\ \E at : Ends(at, parts, h[n])
  <1> DEFINE at == [i \in 0 .. n |-> IF i = 0 THEN 0 ELSE Len(h[i])]
             S == {m \in Nat : 1 <= m /\ m <= n => FlatTo(h, at, m, P, parts)}
  <1>0. h = [i \in 1 .. n |-> IF i = 1 THEN parts[i] ELSE h[i - 1] \o parts[i]]
    BY DEF Flattening
  <1>a. at[0] = 0 /\ DOMAIN at = 0 .. n /\ \A i \in 1 .. n : at[i] = Len(h[i])
    OBVIOUS
  <1> HIDE DEF at
  <1>1. 0 \in S
    OBVIOUS
  <1>2. ASSUME NEW m \in Nat, m \in S PROVE m + 1 \in S
    <2> SUFFICES ASSUME m + 1 <= n PROVE FlatTo(h, at, m + 1, P, parts)
      OBVIOUS
    <2>2. CASE m = 0
      <3>1. 1 \in 1 .. n
        BY <2>2
      <3>2. h[1] = parts[1] /\ parts[1] \in Seq(P) /\ Len(parts[1]) \in Nat
        BY <3>1, <1>0
      <3>3. at[0] = 0 /\ at[1] = Len(parts[1])
        BY <3>1, <3>2, <1>a
      <3>4. FlatTo(h, at, 1, P, parts)
        BY <3>2, <3>3 DEF FlatTo
      <3> QED
        BY <3>4, <2>2
    <2>3. CASE m # 0
      <3>1. FlatTo(h, at, m, P, parts) /\ m \in 1 .. n /\ (m + 1) - 1 = m /\ m + 1 # 1 /\ m + 1 \in 1 .. n
        BY <2>3, <1>2
      <3>2. h[m + 1] = h[m] \o parts[m + 1]
        BY <3>1, <1>0
      <3>3. at[m] = Len(h[m]) /\ at[m + 1] = Len(h[m + 1])
        BY <3>1, <1>a
      <3> HIDE DEF S
      <3> DEFINE s == h[m]
                 t == parts[m + 1]
      <3>4. s \in Seq(P) /\ t \in Seq(P) /\ h[m + 1] = s \o t /\ at[m] = Len(s)
            /\ at[m + 1] = Len(s \o t)
        BY <3>1, <3>2, <3>3 DEF FlatTo
      <3>5. \A i \in 1 .. m + 1 : Len(parts[i]) \in Nat
        OBVIOUS
      <3> HIDE DEF s, t
      <3>6. /\ h[m + 1] \in Seq(P)
            /\ at[m + 1] = at[m] + Len(t)
            /\ \A k \in 1 .. at[m] : h[m + 1][k] = s[k]
            /\ \A k \in 1 .. Len(t) : h[m + 1][at[m] + k] = t[k]
        BY <3>4, Joined
      <3>7. /\ at[m + 1] = at[m] + Len(parts[m + 1])
            /\ \A k \in 1 .. at[m] : h[m + 1][k] = h[m][k]
            /\ \A k \in 1 .. Len(parts[m + 1]) : h[m + 1][at[m] + k] = parts[m + 1][k]
        BY <3>6 DEF s, t
      <3>8. m \in Nat \ {0}
        BY <2>3
      <3> QED
        BY <3>1, <3>5, <3>6, <3>7, <3>8, FlatStep
    <2> QED
      BY <2>2, <2>3
  <1>3. n \in S
    <2> HIDE DEF S
    <2> QED
      BY <1>1, <1>2, NatSet
  <1>4. FlatTo(h, at, n, P, parts)
    BY <1>3
  <1>5. at[n] = Len(h[n])
    BY <1>a
  <1>6. at \in [0 .. n -> Nat]
    <2>1. \A i \in 0 .. n : at[i] \in Nat
      <3> SUFFICES ASSUME NEW i \in 0 .. n PROVE at[i] \in Nat
        OBVIOUS
      <3>1. CASE i = 0
        BY <3>1, <1>a
      <3>2. CASE i # 0
        BY <3>2, <1>4 DEF FlatTo
      <3> QED
        BY <3>1, <3>2
    <2>2. at = [i \in 0 .. n |-> at[i]]
      BY DEF at
    <2> QED
      BY <2>1, <2>2
  <1>7. Ends(at, parts, h[n])
    BY <1>a, <1>4, <1>5, <1>6 DEF Ends, FlatTo
  <1> QED
    BY <1>4, <1>7 DEF FlatTo

\* FlattenSeq of sequences lays them end to end.
Laid(P, parts, at, whole) ==
    parts \in Seq(Seq(P)) /\ whole \in Seq(P) /\ Ends(at, parts, whole)

\* What FlattenSeq returns is the parts laid one after another.
LEMMA Flat ==
  ASSUME NEW P, NEW parts \in Seq(Seq(P))
  PROVE  \E at : Laid(P, parts, at, FlattenSeq(parts))
  <1>1. CASE Len(parts) = 0
    <2>1. FlattenSeq(parts) = parts /\ parts = <<>>
      BY <1>1 DEF FlattenSeq
    <2> DEFINE at == [i \in 0 .. 0 |-> 0]
    <2>2. Ends(at, parts, parts)
      BY <1>1 DEF Ends
    <2>3. parts \in Seq(P)
      BY <2>1
    <2> QED
      BY <2>1, <2>2, <2>3 DEF Laid
  <1>2. CASE Len(parts) # 0
    <2> DEFINE n == Len(parts)
               F == CHOOSE h : Flattening(h, n, parts)
    <2>1. n \in Nat /\ Flattening(F, n, parts)
      BY SomeFlattening
    <2>2. FlattenSeq(parts) = F[n]
      BY <1>2 DEF FlattenSeq, Flattening
    <2> HIDE DEF n, F
    <2>3. n = Len(parts) /\ n # 0
      BY <1>2 DEF n
    <2> QED
      BY <2>1, <2>2, <2>3, FlatEnds DEF Laid
  <1> QED
    BY <1>1, <1>2

\* Later parts end later.
LEMMA EndsGrow ==
  ASSUME NEW P, NEW parts, NEW whole, NEW at, Laid(P, parts, at, whole)
  PROVE  \A i, j \in 0 .. Len(parts) : i <= j => at[i] <= at[j]
  <1> DEFINE n == Len(parts)
             S == {j \in Nat : j <= n => \A i \in 0 .. j : at[i] <= at[j]}
  <1>1. /\ n \in Nat /\ at \in [0 .. n -> Nat]
        /\ \A i \in 1 .. n : at[i] = at[i - 1] + Len(parts[i]) /\ Len(parts[i]) \in Nat
    BY DEF Ends, Laid
  <1> HIDE DEF n
  <1>2. 0 \in S
    BY <1>1
  <1>3. ASSUME NEW j \in Nat, j \in S PROVE j + 1 \in S
    <2> SUFFICES ASSUME j + 1 <= n, NEW i \in 0 .. j + 1 PROVE at[i] <= at[j + 1]
      OBVIOUS
    <2>1. j + 1 \in 1 .. n /\ (j + 1) - 1 = j /\ j <= n
      BY <1>1
    <2>2. at[j + 1] = at[j] + Len(parts[j + 1]) /\ Len(parts[j + 1]) \in Nat /\ at[j] \in Nat
      BY <1>1, <2>1
    <2>3. CASE i = j + 1
      BY <2>3, <1>1, <2>2
    <2>4. CASE i # j + 1
      <3>1. i \in 0 .. j /\ at[i] <= at[j] /\ at[i] \in Nat
        BY <2>4, <1>3, <2>1, <1>1
      <3> QED
        BY <3>1, <2>2
    <2> QED
      BY <2>3, <2>4
  <1> HIDE DEF S
  <1>4. Nat \subseteq S
    BY <1>2, <1>3, NatSet
  <1> QED
    BY <1>4, <1>1 DEF S, n

\* Every place of the whole is in one of the parts.
InPart(q, at, parts) ==
    \E i \in 1 .. Len(parts) : \E k \in 1 .. Len(parts[i]) : q = at[i - 1] + k

\* Every place of the whole is in one of the parts.
LEMMA EveryPlace ==
  ASSUME NEW P, NEW parts, NEW whole, NEW at, Laid(P, parts, at, whole),
         NEW q \in DOMAIN whole
  PROVE  InPart(q, at, parts)
  <1> DEFINE n == Len(parts)
             T == {i \in 0 .. n : q <= at[i]}
  <1>1. /\ n \in Nat /\ at \in [0 .. n -> Nat] /\ at[0] = 0 /\ at[n] = Len(whole)
        /\ \A i \in 1 .. n : at[i] = at[i - 1] + Len(parts[i]) /\ Len(parts[i]) \in Nat
        /\ whole \in Seq(P)
    BY DEF Ends, Laid
  <1>2. q \in Nat /\ 1 <= q /\ q <= at[n]
    BY <1>1
  <1> HIDE DEF n
  <1>3. T \in SUBSET Nat /\ n \in T
    BY <1>1, <1>2
  <1>4. PICK i \in T : \A j \in T : i <= j
    <2> HIDE DEF T
    <2> QED
      BY <1>3, LeastExists
  <1>5. i # 0 /\ i \in 1 .. n /\ i - 1 \in 0 .. n
    BY <1>1, <1>2
  <1>6. ~(q <= at[i - 1])
    BY <1>4, <1>5
  <1>7. at[i - 1] \in Nat /\ at[i] = at[i - 1] + Len(parts[i]) /\ Len(parts[i]) \in Nat /\ q <= at[i]
    BY <1>1, <1>5
  <1>8. q - at[i - 1] \in 1 .. Len(parts[i]) /\ q = at[i - 1] + (q - at[i - 1])
    BY <1>2, <1>6, <1>7
  <1> QED
    BY <1>5, <1>8 DEF n, InPart

\* A part that holds an element has it at one place of the whole, and parts that
\* come later have theirs later.
LEMMA PlacesGrow ==
  ASSUME NEW P, NEW parts, NEW whole, NEW at, Laid(P, parts, at, whole),
         NEW i \in 1 .. Len(parts), NEW k \in 1 .. Len(parts[i])
  PROVE  /\ at[i - 1] \in Nat /\ at[i] = at[i - 1] + Len(parts[i]) /\ Len(parts[i]) \in Nat
         /\ at[i - 1] + k \in DOMAIN whole
         /\ whole[at[i - 1] + k] = parts[i][k]
         /\ \A j \in 1 .. Len(parts) : i < j => at[i - 1] + k <= at[j - 1]
  <1> DEFINE n == Len(parts)
  <1>1. /\ n \in Nat /\ at \in [0 .. n -> Nat] /\ Len(whole) = at[n] /\ Len(parts[i]) \in Nat
        /\ at[i] = at[i - 1] + Len(parts[i])
        /\ whole[at[i - 1] + k] = parts[i][k]
        /\ whole \in Seq(P)
    BY DEF Ends, Laid
  <1>2. \A j, m \in 0 .. n : j <= m => at[j] <= at[m]
    BY EndsGrow
  <1> HIDE DEF n
  <1>3. i \in 0 .. n /\ i - 1 \in 0 .. n /\ n \in 0 .. n /\ i <= n
    BY <1>1 DEF n
  <1>4. at[i - 1] \in Nat /\ at[i] \in Nat /\ at[n] \in Nat /\ at[i] <= at[n] /\ at[i - 1] + k <= at[i]
    BY <1>1, <1>2, <1>3
  <1>5. at[i - 1] + k \in DOMAIN whole
    <2>1. DOMAIN whole = 1 .. at[n]
      BY <1>1
    <2>2. k \in Nat /\ 1 <= k
      BY <1>1
    <2>3. at[i - 1] + k \in 1 .. at[n]
      BY <1>4, <2>2
    <2> QED
      BY <2>1, <2>3
  <1>6. ASSUME NEW j \in 1 .. n, i < j PROVE at[i - 1] + k <= at[j - 1]
    <2>1. j - 1 \in 0 .. n /\ i <= j - 1
      BY <1>6, <1>1
    <2>2. at[i] <= at[j - 1] /\ at[j - 1] \in Nat
      BY <2>1, <1>1, <1>2, <1>3
    <2> QED
      BY <2>2, <1>4
  <1> QED
    BY <1>1, <1>4, <1>5, <1>6 DEF n

\* e: where the elements at the places K of s are in out, in the same order.
Takes(e, K, s, out) ==
    /\ K \subseteq DOMAIN s
    /\ e \in [K -> DOMAIN out]
    /\ \A i, j \in K : i < j => e[i] < e[j]
    /\ \A i \in K : out[e[i]] = s[i]

\* One element each of some parts.
TakenAt(e, K, s, parts, at) ==
    /\ K \subseteq DOMAIN s
    /\ DOMAIN s = 1 .. Len(parts)
    /\ e = [i \in K |-> e[i]]
    /\ \A i \in K : \E k \in 1 .. Len(parts[i]) : e[i] = at[i - 1] + k /\ parts[i][k] = s[i]

\* What each part says of its element holds of the whole.
LEMMA PartsTaken ==
  ASSUME NEW P, NEW parts, NEW whole, NEW at, Laid(P, parts, at, whole),
         NEW s, NEW K, NEW e, TakenAt(e, K, s, parts, at)
  PROVE  Takes(e, K, s, whole)
  <1>1. K \subseteq DOMAIN s /\ e = [i \in K |-> e[i]] /\ \A i \in K : i \in 1 .. Len(parts) /\ i \in Nat
    BY DEF TakenAt
  <1>2. ASSUME NEW i \in K
        PROVE  /\ e[i] \in DOMAIN whole /\ whole[e[i]] = s[i]
               /\ at[i - 1] \in Nat /\ e[i] \in Nat /\ at[i - 1] < e[i]
               /\ \A j \in K : i < j => e[i] <= at[j - 1]
    <2>1. PICK k \in 1 .. Len(parts[i]) : e[i] = at[i - 1] + k /\ parts[i][k] = s[i]
      BY DEF TakenAt
    <2>2. /\ at[i - 1] \in Nat
          /\ at[i - 1] + k \in DOMAIN whole
          /\ whole[at[i - 1] + k] = parts[i][k]
          /\ \A j \in 1 .. Len(parts) : i < j => at[i - 1] + k <= at[j - 1]
      BY <1>1, PlacesGrow
    <2>3. k \in Nat /\ 1 <= k
      OBVIOUS
    <2> QED
      BY <2>1, <2>2, <2>3, <1>1
  <1>3. e \in [K -> DOMAIN whole]
    BY <1>1, <1>2
  <1>4. ASSUME NEW i \in K, NEW j \in K, i < j PROVE e[i] < e[j]
    BY <1>2, <1>4
  <1> QED
    BY <1>1, <1>2, <1>3, <1>4 DEF Takes

\* Sequences as parts.
LEMMA PartsAreSequences ==
  ASSUME NEW P, NEW s \in Seq(P), NEW parts, DOMAIN parts = DOMAIN s, parts = [i \in DOMAIN s |-> parts[i]],
         \A i \in DOMAIN s : parts[i] \in Seq(P)
  PROVE  parts \in Seq(Seq(P)) /\ Len(parts) = Len(s) /\ DOMAIN s = 1 .. Len(s)
  <1>1. Len(s) \in Nat /\ DOMAIN s = 1 .. Len(s)
    OBVIOUS
  <1>2. parts \in [1 .. Len(s) -> Seq(P)]
    BY <1>1
  <1> QED
    BY <1>1, <1>2

\* out keeps of s exactly the elements at the places.
Keeping(places, s, out) ==
    \E e : /\ Takes(e, places \cap DOMAIN s, s, out)
           /\ \A q \in DOMAIN out : \E i \in places \cap DOMAIN s : q = e[i]

\* Only keeps the elements at the places, in their order, and nothing else.
LEMMA OnlyTakes ==
  ASSUME NEW P, NEW s \in Seq(P), NEW places
  PROVE  Only(s, places) \in Seq(P) /\ Keeping(places, s, Only(s, places))
  <1> DEFINE pieces == [i \in DOMAIN s |-> IF i \in places THEN <<s[i]>> ELSE <<>>]
             K == places \cap DOMAIN s
             o == [i \in K |-> 1]
             out == FlattenSeq(pieces)
  <1>1. \A i \in DOMAIN s : pieces[i] = IF i \in places THEN <<s[i]>> ELSE <<>>
    OBVIOUS
  <1>2. \A i \in DOMAIN s : s[i] \in P
    OBVIOUS
  <1>3. Only(s, places) = out
    BY DEF Only
  <1>4. DOMAIN pieces = DOMAIN s /\ pieces = [i \in DOMAIN s |-> pieces[i]]
    OBVIOUS
  <1>5. o \in [K -> Nat] /\ K \in SUBSET DOMAIN s /\ (\A i \in K : o[i] = 1)
    OBVIOUS
  <1> HIDE DEF pieces, o
  <1>6. ASSUME NEW i \in DOMAIN s
        PROVE  /\ pieces[i] \in Seq(P)
               /\ i \in places => Len(pieces[i]) = 1 /\ pieces[i][1] = s[i]
               /\ i \notin places => Len(pieces[i]) = 0
    <2>1. CASE i \in places
      <3>1. pieces[i] = <<s[i]>> /\ s[i] \in P
        BY <2>1, <1>1, <1>2
      <3> QED
        BY <3>1, <2>1
    <2>2. CASE i \notin places
      <3>1. pieces[i] = <<>>
        BY <2>2, <1>1
      <3> QED
        BY <3>1, <2>2
    <2> QED
      BY <2>1, <2>2
  <1>d. /\ \A i \in K : o[i] \in 1 .. Len(pieces[i]) /\ pieces[i][o[i]] = s[i] /\ i \in places
        /\ \A i \in DOMAIN s : i \in places => i \in K /\ Len(pieces[i]) = 1
        /\ \A i \in DOMAIN s : i \notin places => Len(pieces[i]) = 0
    BY <1>6, <1>5
  <1> HIDE DEF K
  <1>7. pieces \in Seq(Seq(P)) /\ Len(pieces) = Len(s) /\ DOMAIN s = 1 .. Len(s)
    BY <1>4, <1>6, PartsAreSequences
  <1>9. PICK at : Laid(P, pieces, at, out)
    BY <1>7, Flat
  <1> HIDE DEF out
  <1>8. out \in Seq(P)
    BY <1>9 DEF Laid
  <1> DEFINE e == [i \in K |-> at[i - 1] + o[i]]
  <1>a. DOMAIN e = K /\ e = [i \in K |-> e[i]] /\ \A i \in K : e[i] = at[i - 1] + o[i]
    OBVIOUS
  <1>b. \A i \in K : e[i] = at[i - 1] + 1
    BY <1>5
  <1> HIDE DEF e
  <1>11. Takes(e, K, s, out)
    <2>1. DOMAIN s = 1 .. Len(pieces) /\ K \subseteq DOMAIN s
      BY <1>5, <1>7
    <2>2. ASSUME NEW i \in K
          PROVE  \E k \in 1 .. Len(pieces[i]) : e[i] = at[i - 1] + k /\ pieces[i][k] = s[i]
      BY <1>b, <1>d, <1>5
    <2>3. TakenAt(e, K, s, pieces, at)
      BY <1>a, <2>1, <2>2 DEF TakenAt
    <2> QED
      BY <1>9, <2>3, PartsTaken
  <1>12. ASSUME NEW q \in DOMAIN out PROVE \E i \in K : q = e[i]
    <2>a. InPart(q, at, pieces)
      BY <1>9, EveryPlace
    <2>0. PICK i \in 1 .. Len(pieces) : \E k \in 1 .. Len(pieces[i]) : q = at[i - 1] + k
      BY <2>a DEF InPart
    <2>1. PICK k \in 1 .. Len(pieces[i]) : q = at[i - 1] + k
      BY <2>0
    <2>2. i \in DOMAIN s
      BY <1>7
    <2>3. i \in K /\ Len(pieces[i]) = 1
      BY <2>1, <2>2, <1>d
    <2>4. k = 1
      BY <2>3
    <2> QED
      BY <2>1, <2>3, <2>4, <1>b
  <1> QED
    BY <1>3, <1>8, <1>11, <1>12 DEF K, Keeping

\* out is doc but for anchors of N: e says where the pieces at K went.
Carries(e, K, doc, out, N) ==
    /\ Takes(e, K, doc, out)
    /\ \A i \in DOMAIN doc \ K : IsAnchor(doc[i], N)
    /\ \A q \in DOMAIN out : (\E i \in K : q = e[i]) \/ IsAnchor(out[q], N)

\* A piece of a document that may belong to it.
IsAnyPiece(a) == IsPiece(a) /\ (a.tag \in AnchorTags => a.what \in Nat)

\* A document has such pieces.
LEMMA DocumentPieces ==
  ASSUME NEW doc, IsDocument(doc)
  PROVE  \A i \in DOMAIN doc : IsAnyPiece(doc[i])
  BY DEF IsDocument, IsAnyPiece, Anchored

\* A sequence of such pieces is a document.
LEMMA DocumentOf ==
  ASSUME NEW P, \A a \in P : IsAnyPiece(a), NEW doc \in Seq(P)
  PROVE  IsDocument(doc)
  <1>1. \A i \in DOMAIN doc : doc[i] \in P
    OBVIOUS
  <1>2. IsSequence(doc)
    BY SequenceOfAny
  <1>3. Anchored(doc) \subseteq Nat
    BY <1>1 DEF Anchored, IsAnyPiece
  <1> QED
    BY <1>1, <1>2, <1>3 DEF IsDocument, IsAnyPiece

\* Removing the anchors of S leaves everything else in its order, and none of them.
LEMMA UnanchoredCarries ==
  ASSUME NEW doc, IsDocument(doc), NEW S
  PROVE  /\ IsDocument(Unanchored(doc, S))
         /\ \E e : Carries(e, {i \in DOMAIN doc : ~IsAnchor(doc[i], S)}, doc, Unanchored(doc, S), S)
         /\ \A q \in DOMAIN Unanchored(doc, S) : ~IsAnchor(Unanchored(doc, S)[q], S)
  <1> DEFINE K == {i \in DOMAIN doc : ~IsAnchor(doc[i], S)}
             P == {doc[i] : i \in DOMAIN doc}
             out == Unanchored(doc, S)
  <1>1. doc \in Seq(P) /\ K \cap DOMAIN doc = K /\ out = Only(doc, K)
    BY DEF IsDocument, IsSequence, Unanchored
  <1>2. \A i \in DOMAIN doc : (i \notin K => IsAnchor(doc[i], S)) /\ (i \in K => ~IsAnchor(doc[i], S))
    OBVIOUS
  <1>3. \A a \in P : IsAnyPiece(a)
    BY DocumentPieces
  <1> HIDE DEF K, P, out
  <1>4. out \in Seq(P) /\ Keeping(K, doc, out)
    BY <1>1, OnlyTakes
  <1>5. PICK e : /\ Takes(e, K, doc, out)
                 /\ \A q \in DOMAIN out : \E i \in K : q = e[i]
    BY <1>1, <1>4 DEF Keeping
  <1>6. Carries(e, K, doc, out, S)
    BY <1>2, <1>5 DEF Carries
  <1>7. \A q \in DOMAIN out : ~IsAnchor(out[q], S)
    BY <1>2, <1>5 DEF Takes
  <1>8. IsDocument(out)
    BY <1>3, <1>4, DocumentOf
  <1> QED
    BY <1>6, <1>7, <1>8 DEF K, out

\* f: where the copies of the root's anchors are, each right behind its model.
Copies(f, e, doc, out, root, reply) ==
    /\ f = [i \in AnchorsOf(doc, root) |-> e[i] + 1]
    /\ \A i \in AnchorsOf(doc, root) :
         /\ f[i] \in DOMAIN out
         /\ out[f[i]] = [doc[i] EXCEPT !.what = reply]
    /\ \A q \in DOMAIN out :
         (\E i \in DOMAIN doc : q = e[i]) \/ (\E i \in AnchorsOf(doc, root) : q = f[i])

\* A reply's anchors: everything stays, and next to each anchor of the root there
\* is one of the reply.
LEMMA MirroredCarries ==
  ASSUME NEW doc, IsDocument(doc), NEW root, NEW reply \in Nat
  PROVE  /\ IsDocument(Mirrored(doc, root, reply))
         /\ \E e, f : /\ Carries(e, DOMAIN doc, doc, Mirrored(doc, root, reply), {reply})
                      /\ Copies(f, e, doc, Mirrored(doc, root, reply), root, reply)
  <1> DEFINE copy(i) == [doc[i] EXCEPT !.what = reply]
             P == {doc[i] : i \in DOMAIN doc} \cup {copy(i) : i \in DOMAIN doc}
             A == AnchorsOf(doc, root)
             pieces == [i \in DOMAIN doc |-> IF IsAnchor(doc[i], {root}) THEN <<doc[i], copy(i)>>
                                             ELSE <<doc[i]>>]
             out == FlattenSeq(pieces)
  <1>1. /\ \A i \in DOMAIN doc : i \in A => pieces[i] = <<doc[i], copy(i)>>
        /\ \A i \in DOMAIN doc : i \notin A => pieces[i] = <<doc[i]>>
        /\ A \subseteq DOMAIN doc
    BY DEF AnchorsOf
  <1>2. \A i \in DOMAIN doc : doc[i] \in P /\ copy(i) \in P
    OBVIOUS
  <1>3. Mirrored(doc, root, reply) = out
    BY DEF Mirrored
  <1>4. DOMAIN pieces = DOMAIN doc /\ pieces = [i \in DOMAIN doc |-> pieces[i]]
    OBVIOUS
  <1>5. doc \in Seq(P)
    <2>1. doc \in Seq({doc[i] : i \in DOMAIN doc})
      BY DEF IsDocument, IsSequence
    <2>2. {doc[i] : i \in DOMAIN doc} \subseteq P
      OBVIOUS
    <2> HIDE DEF P
    <2> QED
      BY <2>1, <2>2
  <1>6. ASSUME NEW i \in DOMAIN doc
        PROVE  IsAnyPiece(doc[i]) /\ IsAnyPiece(copy(i)) /\ (i \in A => IsAnchor(copy(i), {reply}))
    <2>1. IsAnyPiece(doc[i])
      BY DocumentPieces
    <2>2. copy(i) = [tag |-> doc[i].tag, what |-> reply, box |-> doc[i].box]
      BY <2>1 DEF IsPiece, IsAnyPiece
    <2> HIDE DEF copy
    <2> QED
      BY <2>1, <2>2 DEF IsPiece, IsAnyPiece, IsAnchor, AnchorsOf
  <1>7. \A a \in P : IsAnyPiece(a)
    BY <1>6
  <1> HIDE DEF pieces, P, copy, A
  <1>8. ASSUME NEW i \in DOMAIN doc
        PROVE  /\ pieces[i] \in Seq(P) /\ pieces[i][1] = doc[i]
               /\ i \in A => Len(pieces[i]) = 2 /\ pieces[i][2] = copy(i)
               /\ i \notin A => Len(pieces[i]) = 1
    <2>1. CASE i \in A
      <3>1. pieces[i] = <<doc[i], copy(i)>> /\ doc[i] \in P /\ copy(i) \in P
        BY <2>1, <1>1, <1>2
      <3> QED
        BY <3>1, <2>1
    <2>2. CASE i \notin A
      <3>1. pieces[i] = <<doc[i]>> /\ doc[i] \in P
        BY <2>2, <1>1, <1>2
      <3> QED
        BY <3>1, <2>2
    <2> QED
      BY <2>1, <2>2
  <1>9. pieces \in Seq(Seq(P)) /\ Len(pieces) = Len(doc) /\ DOMAIN doc = 1 .. Len(doc)
    BY <1>4, <1>5, <1>8, PartsAreSequences
  <1>10. PICK at : Laid(P, pieces, at, out)
    BY <1>9, Flat
  <1> HIDE DEF out
  <1> DEFINE e == [i \in DOMAIN doc |-> at[i - 1] + 1]
             f == [i \in A |-> e[i] + 1]
  <1>11. \A i \in DOMAIN doc : e[i] = at[i - 1] + 1
    OBVIOUS
  <1>12. e = [i \in DOMAIN doc |-> e[i]]
    OBVIOUS
  <1>13. f = [i \in A |-> e[i] + 1] /\ \A i \in A : f[i] = e[i] + 1
    OBVIOUS
  <1> HIDE DEF e, f
  <1>14. Takes(e, DOMAIN doc, doc, out)
    <2>1. DOMAIN doc = 1 .. Len(pieces)
      BY <1>9
    <2>2. ASSUME NEW i \in DOMAIN doc
          PROVE  \E k \in 1 .. Len(pieces[i]) : e[i] = at[i - 1] + k /\ pieces[i][k] = doc[i]
      BY <1>8, <1>11
    <2>3. TakenAt(e, DOMAIN doc, doc, pieces, at)
      BY <1>12, <2>1, <2>2 DEF TakenAt
    <2> QED
      BY <1>10, <2>3, PartsTaken
  <1>15. ASSUME NEW i \in A PROVE f[i] \in DOMAIN out /\ out[f[i]] = copy(i)
    <2>1. i \in DOMAIN doc /\ i \in 1 .. Len(pieces) /\ 2 \in 1 .. Len(pieces[i]) /\ pieces[i][2] = copy(i)
      BY <1>1, <1>8, <1>9
    <2>2. /\ at[i - 1] \in Nat /\ at[i - 1] + 2 \in DOMAIN out
          /\ out[at[i - 1] + 2] = pieces[i][2]
      BY <2>1, <1>10, PlacesGrow
    <2>3. f[i] = at[i - 1] + 2
      BY <2>1, <2>2, <1>11, <1>13
    <2> QED
      BY <2>1, <2>2, <2>3
  <1>16. ASSUME NEW q \in DOMAIN out
         PROVE  (\E i \in DOMAIN doc : q = e[i]) \/ (\E i \in A : q = f[i])
    <2>1. InPart(q, at, pieces)
      BY <1>10, EveryPlace
    <2>2. PICK i \in 1 .. Len(pieces) : \E k \in 1 .. Len(pieces[i]) : q = at[i - 1] + k
      BY <2>1 DEF InPart
    <2>3. PICK k \in 1 .. Len(pieces[i]) : q = at[i - 1] + k
      BY <2>2
    <2>4. i \in DOMAIN doc
      BY <1>9
    <2>5. CASE k = 1
      BY <2>3, <2>4, <2>5, <1>11
    <2>6. CASE k # 1
      <3>1. i \in A /\ k = 2
        <4>1. CASE i \in A
          <5>1. Len(pieces[i]) = 2
            BY <2>4, <4>1, <1>8
          <5> QED
            BY <5>1, <4>1, <2>6
        <4>2. CASE i \notin A
          <5>1. Len(pieces[i]) = 1
            BY <2>4, <4>2, <1>8
          <5> QED
            BY <5>1, <2>6
        <4> QED
          BY <4>1, <4>2
      <3>2. at[i - 1] \in Nat
        BY <1>10, PlacesGrow
      <3> QED
        BY <2>3, <2>4, <3>1, <3>2, <1>11, <1>13
    <2> QED
      BY <2>5, <2>6
  <1>17. Copies(f, e, doc, out, root, reply)
    BY <1>13, <1>15, <1>16 DEF Copies, A, copy
  <1>18. Carries(e, DOMAIN doc, doc, out, {reply})
    <2>1. \A q \in DOMAIN out : (\E i \in DOMAIN doc : q = e[i]) \/ IsAnchor(out[q], {reply})
      <3> SUFFICES ASSUME NEW q \in DOMAIN out, NEW i \in A, q = f[i]
                   PROVE  IsAnchor(out[q], {reply})
        BY <1>16
      <3>1. out[q] = copy(i) /\ i \in DOMAIN doc
        BY <1>15, <1>1
      <3> QED
        BY <3>1, <1>6
    <2> QED
      BY <1>14, <2>1 DEF Carries
  <1>19. IsDocument(out)
    <2>1. out \in Seq(P)
      BY <1>10 DEF Laid
    <2> QED
      BY <2>1, <1>7, DocumentOf
  <1> QED
    BY <1>3, <1>17, <1>18, <1>19

\* The three anchors of a new comment: s opens before the quote, t closes after
\* it, and the reference follows.
MarksAt(s, t, e, doc, out, lo, hi, c) ==
    /\ s \in DOMAIN out /\ t \in DOMAIN out /\ t + 1 \in DOMAIN out
    /\ s < e[lo] /\ e[lo] <= e[hi] /\ e[hi] < t
    /\ out[s] = Anchor("start", c, doc[lo].box)
    /\ out[t] = Anchor("end", c, doc[lo].box)
    /\ out[t + 1] = Anchor("reference", c, doc[lo].box)
    /\ \A q \in DOMAIN out : (\E i \in DOMAIN doc : q = e[i]) \/ q = s \/ q = t \/ q = t + 1

\* A new comment's anchors: everything stays, and there are three more pieces.
LEMMA MarkedCarries ==
  ASSUME NEW doc, IsDocument(doc), NEW lo \in DOMAIN doc, NEW hi \in DOMAIN doc, lo <= hi, NEW c \in Nat
  PROVE  /\ IsDocument(Marked(doc, lo, hi, c))
         /\ \E e, s, t : /\ Carries(e, DOMAIN doc, doc, Marked(doc, lo, hi, c), {c})
                         /\ MarksAt(s, t, e, doc, Marked(doc, lo, hi, c), lo, hi, c)
  <1> DEFINE box == doc[lo].box
             a1 == Anchor("start", c, box)
             a2 == Anchor("end", c, box)
             a3 == Anchor("reference", c, box)
             P == {doc[i] : i \in DOMAIN doc} \cup {a1, a2, a3}
             pieces == [i \in DOMAIN doc |->
                         (IF i = lo THEN <<a1>> ELSE <<>>) \o <<doc[i]>>
                           \o (IF i = hi THEN <<a2, a3>> ELSE <<>>)]
             o(i) == IF i = lo THEN 2 ELSE 1
             out == FlattenSeq(pieces)
  <1>1. \A i \in DOMAIN doc : pieces[i] = (IF i = lo THEN <<a1>> ELSE <<>>) \o <<doc[i]>>
                                            \o (IF i = hi THEN <<a2, a3>> ELSE <<>>)
    OBVIOUS
  <1>2. (\A i \in DOMAIN doc : doc[i] \in P) /\ a1 \in P /\ a2 \in P /\ a3 \in P
    OBVIOUS
  <1>3. Marked(doc, lo, hi, c) = out
    BY DEF Marked
  <1>4. DOMAIN pieces = DOMAIN doc /\ pieces = [i \in DOMAIN doc |-> pieces[i]]
    OBVIOUS
  <1>5. doc \in Seq(P) /\ DOMAIN doc \subseteq Nat
    <2>1. doc \in Seq({doc[i] : i \in DOMAIN doc})
      BY DEF IsDocument, IsSequence
    <2>2. {doc[i] : i \in DOMAIN doc} \subseteq P
      OBVIOUS
    <2> HIDE DEF P
    <2> QED
      BY <2>1, <2>2
  <1>6. \A a \in P : IsAnyPiece(a)
    BY DocumentPieces DEF IsAnyPiece, IsPiece, Anchor
  <1>7. IsAnchor(a1, {c}) /\ IsAnchor(a2, {c}) /\ IsAnchor(a3, {c})
    BY DEF IsAnchor, Anchor, AnchorTags
  <1> HIDE DEF pieces, P, a1, a2, a3
  <1>8. ASSUME NEW i \in DOMAIN doc
        PROVE  /\ pieces[i] \in Seq(P)
               /\ Len(pieces[i]) = o(i) + (IF i = hi THEN 2 ELSE 0)
               /\ pieces[i][o(i)] = doc[i]
               /\ i = lo => pieces[i][1] = a1
               /\ i = hi => pieces[i][o(i) + 1] = a2 /\ pieces[i][o(i) + 2] = a3
    <2> DEFINE A == IF i = lo THEN <<a1>> ELSE <<>>
               B == <<doc[i]>>
               C == IF i = hi THEN <<a2, a3>> ELSE <<>>
    <2>0. doc[i] \in P
      BY <1>2
    <2>1. A \in Seq(P) /\ (i = lo => Len(A) = 1 /\ A[1] = a1) /\ (i # lo => Len(A) = 0)
      <3>1. CASE i = lo
        <4>1. A = <<a1>>
          BY <3>1
        <4> QED
          BY <4>1, <3>1, <1>2
      <3>2. CASE i # lo
        <4>1. A = <<>>
          BY <3>2
        <4> QED
          BY <4>1, <3>2
      <3> QED
        BY <3>1, <3>2
    <2>2. B \in Seq(P) /\ Len(B) = 1 /\ B[1] = doc[i]
      BY <2>0
    <2>3. C \in Seq(P) /\ (i = hi => Len(C) = 2 /\ C[1] = a2 /\ C[2] = a3) /\ (i # hi => Len(C) = 0)
      <3>1. CASE i = hi
        <4>1. C = <<a2, a3>>
          BY <3>1
        <4> QED
          BY <4>1, <3>1, <1>2
      <3>2. CASE i # hi
        <4>1. C = <<>>
          BY <3>2
        <4> QED
          BY <4>1, <3>2
      <3> QED
        BY <3>1, <3>2
    <2>4. pieces[i] = (A \o B) \o C
      BY <1>1
    <2> HIDE DEF A, B, C
    <2>5. /\ A \o B \in Seq(P) /\ Len(A \o B) = Len(A) + 1 /\ Len(A) \in Nat
          /\ (A \o B)[Len(A) + 1] = doc[i]
          /\ \A k \in 1 .. Len(A) : (A \o B)[k] = A[k]
      <3>1. 1 \in 1 .. Len(B)
        BY <2>2
      <3>2. /\ A \o B \in Seq(P) /\ Len(A \o B) = Len(A) + Len(B) /\ Len(A) \in Nat
            /\ \A k \in 1 .. Len(A) : (A \o B)[k] = A[k]
            /\ \A k \in 1 .. Len(B) : (A \o B)[Len(A) + k] = B[k]
        <4>1. A \in Seq(P) /\ B \in Seq(P)
          BY <2>1, <2>2
        <4> QED
          BY <4>1, Joined
      <3> QED
        BY <2>2, <3>1, <3>2
    <2> DEFINE AB == A \o B
    <2>6. /\ AB \in Seq(P) /\ Len(AB) = o(i) /\ o(i) \in {1, 2}
          /\ AB[o(i)] = doc[i]
          /\ i = lo => AB[1] = a1
      <3>1. CASE i = lo
        <4>1. Len(A) = 1 /\ A[1] = a1 /\ o(i) = 2
          BY <2>1, <3>1
        <4> QED
          BY <4>1, <2>5
      <3>2. CASE i # lo
        <4>1. Len(A) = 0 /\ o(i) = 1
          BY <2>1, <3>2
        <4>2. Len(A) + 1 = 1
          BY <4>1
        <4>3. (A \o B)[1] = doc[i] /\ Len(A \o B) = 1 /\ A \o B \in Seq(P)
          BY <4>2, <2>5
        <4> QED
          BY <4>1, <4>3, <3>2
      <3> QED
        BY <3>1, <3>2
    <2>7. pieces[i] = AB \o C
      BY <2>4
    <2> HIDE DEF AB, o
    <2>8. /\ AB \o C \in Seq(P) /\ Len(AB \o C) = o(i) + Len(C)
          /\ (AB \o C)[o(i)] = doc[i]
          /\ i = lo => (AB \o C)[1] = a1
          /\ \A k \in 1 .. Len(C) : (AB \o C)[o(i) + k] = C[k]
      <3>1. o(i) \in 1 .. Len(AB) /\ 1 \in 1 .. Len(AB)
        BY <2>6
      <3>2. /\ AB \o C \in Seq(P) /\ Len(AB \o C) = Len(AB) + Len(C)
            /\ \A k \in 1 .. Len(AB) : (AB \o C)[k] = AB[k]
            /\ \A k \in 1 .. Len(C) : (AB \o C)[Len(AB) + k] = C[k]
        BY <2>3, <2>6, Joined
      <3> QED
        BY <3>1, <3>2, <2>6
    <2>9. CASE i = hi
      <3>1. 1 \in 1 .. Len(C) /\ 2 \in 1 .. Len(C) /\ Len(C) = 2 /\ C[1] = a2 /\ C[2] = a3
        BY <2>9, <2>3
      <3> QED
        BY <3>1, <2>9, <2>7, <2>8
    <2>10. CASE i # hi
      <3>1. Len(C) = 0
        BY <2>10, <2>3
      <3> QED
        BY <3>1, <2>6, <2>10, <2>7, <2>8
    <2> QED
      BY <2>9, <2>10
  <1>9. pieces \in Seq(Seq(P)) /\ Len(pieces) = Len(doc) /\ DOMAIN doc = 1 .. Len(doc)
    BY <1>4, <1>5, <1>8, PartsAreSequences
  <1>10. PICK at : Laid(P, pieces, at, out)
    BY <1>9, Flat
  <1> HIDE DEF out
  <1> DEFINE e == [i \in DOMAIN doc |-> at[i - 1] + o(i)]
             s == at[lo - 1] + 1
             t == e[hi] + 1
  <1>11. (\A i \in DOMAIN doc : e[i] = at[i - 1] + o(i)) /\ e = [i \in DOMAIN doc |-> e[i]]
    OBVIOUS
  <1>12. \A i \in DOMAIN doc : o(i) \in {1, 2} /\ (i = lo => o(i) = 2)
    OBVIOUS
  <1> HIDE DEF e, o
  <1>13. Takes(e, DOMAIN doc, doc, out)
    <2>1. DOMAIN doc = 1 .. Len(pieces)
      BY <1>9
    <2>2. ASSUME NEW i \in DOMAIN doc
          PROVE  \E k \in 1 .. Len(pieces[i]) : e[i] = at[i - 1] + k /\ pieces[i][k] = doc[i]
      <3>0. o(i) \in {1, 2} /\ Len(pieces[i]) = o(i) + (IF i = hi THEN 2 ELSE 0)
        BY <1>8, <1>12
      <3>1. o(i) \in 1 .. Len(pieces[i])
        BY <3>0
      <3> QED
        BY <3>1, <1>8, <1>11
    <2>3. TakenAt(e, DOMAIN doc, doc, pieces, at)
      BY <1>11, <2>1, <2>2 DEF TakenAt
    <2> QED
      BY <1>10, <2>3, PartsTaken
  <1>14. \A i \in DOMAIN doc : at[i - 1] \in Nat /\ e[i] \in Nat
    <2> SUFFICES ASSUME NEW i \in DOMAIN doc PROVE at[i - 1] \in Nat /\ e[i] \in Nat
      OBVIOUS
    <2>0. o(i) \in {1, 2} /\ Len(pieces[i]) = o(i) + (IF i = hi THEN 2 ELSE 0)
      BY <1>8, <1>12
    <2>1. i \in 1 .. Len(pieces) /\ 1 \in 1 .. Len(pieces[i])
      BY <2>0, <1>9
    <2>2. at[i - 1] \in Nat
      BY <2>1, <1>10, PlacesGrow
    <2> QED
      BY <2>2, <1>11, <1>12
  <1>15. s \in DOMAIN out /\ out[s] = a1
    <2>0. o(lo) = 2 /\ Len(pieces[lo]) = o(lo) + (IF lo = hi THEN 2 ELSE 0) /\ pieces[lo][1] = a1
      BY <1>8, <1>12
    <2>1. lo \in 1 .. Len(pieces) /\ 1 \in 1 .. Len(pieces[lo]) /\ pieces[lo][1] = a1
      BY <2>0, <1>9
    <2> QED
      BY <2>1, <1>10, PlacesGrow
  <1>16. ASSUME NEW k \in {1, 2}
         PROVE  e[hi] + k \in DOMAIN out /\ out[e[hi] + k] = pieces[hi][o(hi) + k]
    <2>0. o(hi) \in {1, 2} /\ Len(pieces[hi]) = o(hi) + 2
      BY <1>8, <1>12
    <2>1. hi \in 1 .. Len(pieces) /\ o(hi) + k \in 1 .. Len(pieces[hi])
      BY <2>0, <1>9
    <2>2. /\ at[hi - 1] + (o(hi) + k) \in DOMAIN out
          /\ out[at[hi - 1] + (o(hi) + k)] = pieces[hi][o(hi) + k]
      BY <2>1, <1>10, PlacesGrow
    <2>3. at[hi - 1] + (o(hi) + k) = e[hi] + k
      BY <1>11, <1>12, <1>14
    <2> QED
      BY <2>2, <2>3
  <1>17. t \in DOMAIN out /\ t + 1 \in DOMAIN out /\ out[t] = a2 /\ out[t + 1] = a3
    <2>1. e[hi] \in Nat /\ t + 1 = e[hi] + 2
      BY <1>14
    <2>2. out[e[hi] + 1] = a2 /\ out[e[hi] + 2] = a3
      BY <1>8, <1>16
    <2> QED
      BY <2>1, <2>2, <1>16
  <1>18. s < e[lo] /\ e[lo] <= e[hi] /\ e[hi] < t
    <2>1. e[lo] = at[lo - 1] + 2 /\ at[lo - 1] \in Nat /\ e[hi] \in Nat /\ e[lo] \in Nat
      BY <1>11, <1>12, <1>14
    <2>2. e[lo] <= e[hi]
      <3>1. CASE lo = hi
        BY <3>1, <2>1
      <3>2. CASE lo # hi
        <4>1. lo < hi
          BY <3>2, <1>5
        <4> QED
          BY <4>1, <2>1, <1>13 DEF Takes
      <3> QED
        BY <3>1, <3>2
    <2> QED
      BY <2>1, <2>2
  <1>19. ASSUME NEW q \in DOMAIN out
         PROVE  (\E i \in DOMAIN doc : q = e[i]) \/ q = s \/ q = t \/ q = t + 1
    <2>1. InPart(q, at, pieces)
      BY <1>10, EveryPlace
    <2>2. PICK i \in 1 .. Len(pieces) : \E k \in 1 .. Len(pieces[i]) : q = at[i - 1] + k
      BY <2>1 DEF InPart
    <2>3. PICK k \in 1 .. Len(pieces[i]) : q = at[i - 1] + k
      BY <2>2
    <2>4. /\ i \in DOMAIN doc /\ at[i - 1] \in Nat /\ e[i] = at[i - 1] + o(i) /\ o(i) \in {1, 2}
          /\ Len(pieces[i]) = o(i) + (IF i = hi THEN 2 ELSE 0)
      BY <1>8, <1>9, <1>11, <1>12, <1>14
    <2>5. CASE k = o(i)
      BY <2>3, <2>4, <2>5
    <2>6. CASE k < o(i)
      <3>1. k = 1 /\ i = lo
        BY <2>4, <2>6 DEF o
      <3> QED
        BY <2>3, <3>1
    <2>7. CASE k > o(i)
      <3>1. i = hi /\ (k = o(i) + 1 \/ k = o(i) + 2)
        BY <2>4, <2>7
      <3>2. q = e[hi] + 1 \/ q = e[hi] + 2
        BY <2>3, <2>4, <3>1
      <3>3. e[hi] \in Nat
        BY <1>14
      <3> QED
        BY <3>2, <3>3
    <2> QED
      BY <2>4, <2>5, <2>6, <2>7
  <1>20. Carries(e, DOMAIN doc, doc, out, {c})
    <2> HIDE DEF s, t
    <2>1. \A q \in DOMAIN out : (\E i \in DOMAIN doc : q = e[i]) \/ IsAnchor(out[q], {c})
      BY <1>7, <1>15, <1>17, <1>19
    <2> QED
      BY <1>13, <2>1 DEF Carries
  <1>21. IsDocument(out)
    <2>1. out \in Seq(P)
      BY <1>10 DEF Laid
    <2> QED
      BY <2>1, <1>6, DocumentOf
  <1> HIDE DEF s, t
  <1>22. MarksAt(s, t, e, doc, out, lo, hi, c)
    BY <1>15, <1>17, <1>18, <1>19 DEF MarksAt, a1, a2, a3
  <1> QED
    BY <1>3, <1>20, <1>21, <1>22

\* As many values as arguments, when no two arguments share one.
LEMMA OneToOne ==
  ASSUME NEW S, IsFiniteSet(S), NEW f, \A x, y \in S : f[x] = f[y] => x = y
  PROVE  IsFiniteSet({f[x] : x \in S}) /\ Cardinality({f[x] : x \in S}) = Cardinality(S)
  <1> DEFINE T == {f[x] : x \in S}
             g == [x \in S |-> f[x]]
  <1>1. \A x \in S : g[x] = f[x] /\ g[x] \in T
    OBVIOUS
  <1>2. \A t \in T : \E x \in S : g[x] = t
    OBVIOUS
  <1>3. g \in [S -> T]
    OBVIOUS
  <1> HIDE DEF g, T
  <1>4. g \in Bijection(S, T)
    <2>1. \A x, y \in S : g[x] = g[y] => x = y
      BY <1>1
    <2> QED
      BY <1>2, <1>3, <2>1 DEF Bijection, Injection, Surjection, IsInjective
  <1>5. IsFiniteSet(T) /\ Cardinality(T) = Cardinality(S)
    BY <1>4, FS_Bijection DEF ExistsBijection
  <1> QED
    BY <1>5 DEF T

\* Places of a document are finitely many numbers.
LEMMA DocumentFacts ==
  ASSUME NEW doc, IsDocument(doc)
  PROVE  /\ Len(doc) \in Nat /\ DOMAIN doc = 1 .. Len(doc)
         /\ IsFiniteSet(DOMAIN doc)
         /\ \A S \in SUBSET DOMAIN doc : IsFiniteSet(S) /\ Cardinality(S) \in Nat
         /\ \A i \in DOMAIN doc : i \in Nat
  <1>1. Len(doc) \in Nat /\ DOMAIN doc = 1 .. Len(doc)
    BY SequenceFacts DEF IsDocument
  <1>2. IsFiniteSet(DOMAIN doc)
    BY <1>1, FS_Interval
  <1>3. ASSUME NEW S \in SUBSET DOMAIN doc PROVE IsFiniteSet(S) /\ Cardinality(S) \in Nat
    BY <1>2, FS_Subset, FS_CardinalityType
  <1> QED
    BY <1>1, <1>2, <1>3

\* Where the pieces of doc went in out, in their order.
LEMMA TakesFacts ==
  ASSUME NEW doc, IsDocument(doc), NEW out, IsDocument(out), NEW e, NEW K, Takes(e, K, doc, out)
  PROVE  /\ K \subseteq DOMAIN doc
         /\ \A i \in K : e[i] \in DOMAIN out /\ e[i] \in Nat /\ i \in Nat /\ out[e[i]] = doc[i]
         /\ \A i, j \in K : (i < j <=> e[i] < e[j]) /\ (e[i] = e[j] => i = j) /\ (i <= j <=> e[i] <= e[j])
  <1>1. K \subseteq DOMAIN doc /\ (\A i \in K : e[i] \in DOMAIN out /\ out[e[i]] = doc[i])
        /\ \A i, j \in K : i < j => e[i] < e[j]
    BY DEF Takes
  <1>2. \A i \in K : e[i] \in Nat /\ i \in Nat
    BY <1>1, DocumentFacts
  <1>3. ASSUME NEW i \in K, NEW j \in K
        PROVE  (i < j <=> e[i] < e[j]) /\ (e[i] = e[j] => i = j) /\ (i <= j <=> e[i] <= e[j])
    <2>1. i \in Nat /\ j \in Nat /\ e[i] \in Nat /\ e[j] \in Nat
      BY <1>2
    <2>2. (i < j => e[i] < e[j]) /\ (j < i => e[j] < e[i]) /\ (i = j => e[i] = e[j])
      BY <1>1
    <2> QED
      BY <2>1, <2>2
  <1> QED
    BY <1>1, <1>2, <1>3

\* The anchors of a comment outside N stay its anchors, and nothing else becomes one.
LEMMA CarriedAnchors ==
  ASSUME NEW doc, NEW out, NEW e, NEW K, NEW N, Carries(e, K, doc, out, N), NEW c, c \notin N
  PROVE  /\ AnchorsOf(doc, c) \subseteq K
         /\ AnchorsOf(out, c) = {e[i] : i \in AnchorsOf(doc, c)}
         /\ \A tag : /\ Tagged(doc, c, tag) \subseteq AnchorsOf(doc, c)
                     /\ Tagged(out, c, tag) = {e[i] : i \in Tagged(doc, c, tag)}
  <1>1. /\ K \subseteq DOMAIN doc
        /\ \A i \in K : e[i] \in DOMAIN out /\ out[e[i]] = doc[i]
        /\ \A i \in DOMAIN doc \ K : IsAnchor(doc[i], N)
        /\ \A q \in DOMAIN out : (\E i \in K : q = e[i]) \/ IsAnchor(out[q], N)
    BY DEF Carries, Takes
  <1>2. \A a : ~(IsAnchor(a, N) /\ IsAnchor(a, {c}))
    BY DEF IsAnchor
  <1>3. AnchorsOf(doc, c) \subseteq K
    BY <1>1, <1>2 DEF AnchorsOf
  <1>4. AnchorsOf(out, c) = {e[i] : i \in AnchorsOf(doc, c)}
    <2>1. ASSUME NEW q \in AnchorsOf(out, c) PROVE \E i \in AnchorsOf(doc, c) : q = e[i]
      BY <1>1, <1>2 DEF AnchorsOf
    <2>2. ASSUME NEW i \in AnchorsOf(doc, c) PROVE e[i] \in AnchorsOf(out, c)
      BY <1>1, <1>3 DEF AnchorsOf
    <2> QED
      BY <2>1, <2>2
  <1>5. ASSUME NEW tag
        PROVE  /\ Tagged(doc, c, tag) \subseteq AnchorsOf(doc, c)
               /\ Tagged(out, c, tag) = {e[i] : i \in Tagged(doc, c, tag)}
    <2>1. ASSUME NEW q \in Tagged(out, c, tag) PROVE \E i \in Tagged(doc, c, tag) : q = e[i]
      BY <1>1, <1>3, <1>4 DEF Tagged
    <2>2. ASSUME NEW i \in Tagged(doc, c, tag) PROVE e[i] \in Tagged(out, c, tag)
      BY <1>1, <1>3, <1>4 DEF Tagged
    <2> QED
      BY <2>1, <2>2 DEF Tagged
  <1> QED
    BY <1>3, <1>4, <1>5

\* What is no anchor stays too.
LEMMA CarriedRest ==
  ASSUME NEW doc, NEW out, NEW e, NEW K, NEW N, Carries(e, K, doc, out, N)
  PROVE  /\ \A i \in DOMAIN doc : doc[i].tag \notin AnchorTags => i \in K
         /\ \A q \in DOMAIN out : out[q].tag \notin AnchorTags =>
              \E i \in K : q = e[i] /\ doc[i].tag \notin AnchorTags
         /\ Anchored(out) \subseteq Anchored(doc) \cup N
         /\ Anchored(doc) \subseteq Anchored(out) \cup N
  <1>1. /\ K \subseteq DOMAIN doc
        /\ \A i \in K : e[i] \in DOMAIN out /\ out[e[i]] = doc[i]
        /\ \A i \in DOMAIN doc \ K : IsAnchor(doc[i], N)
        /\ \A q \in DOMAIN out : (\E i \in K : q = e[i]) \/ IsAnchor(out[q], N)
    BY DEF Carries, Takes
  <1>2. \A a : IsAnchor(a, N) => a.tag \in AnchorTags /\ a.what \in N
    BY DEF IsAnchor
  <1>3. Anchored(out) \subseteq Anchored(doc) \cup N
    BY <1>1, <1>2 DEF Anchored
  <1>4. Anchored(doc) \subseteq Anchored(out) \cup N
    BY <1>1, <1>2 DEF Anchored
  <1> QED
    BY <1>1, <1>2, <1>3, <1>4

\* A place has as many pieces of the text before it as it had.
LEMMA CarriedBoundary ==
  ASSUME NEW doc, IsDocument(doc), NEW out, IsDocument(out), NEW e, NEW K, NEW N,
         Carries(e, K, doc, out, N), NEW i \in K
  PROVE  Boundary(out, e[i]) = Boundary(doc, i)
  <1> DEFINE S == {j \in 1 .. i : doc[j].tag \notin AnchorTags}
             T == {q \in 1 .. e[i] : out[q].tag \notin AnchorTags}
  <1>1. /\ K \subseteq DOMAIN doc
        /\ \A j \in K : e[j] \in DOMAIN out /\ e[j] \in Nat /\ j \in Nat /\ out[e[j]] = doc[j]
        /\ \A j, k \in K : (e[j] = e[k] => j = k) /\ (j <= k <=> e[j] <= e[k])
    BY TakesFacts DEF Carries
  <1>2. DOMAIN doc = 1 .. Len(doc) /\ DOMAIN out = 1 .. Len(out) /\ Len(doc) \in Nat /\ Len(out) \in Nat
    BY DocumentFacts
  <1>3. i \in DOMAIN doc /\ e[i] \in DOMAIN out /\ i \in Nat /\ e[i] \in Nat
    BY <1>1
  <1>4. 1 .. i \subseteq DOMAIN doc /\ 1 .. e[i] \subseteq DOMAIN out
    BY <1>2, <1>3
  <1>5. S \subseteq K
    BY <1>4, CarriedRest
  <1>6. T = {e[j] : j \in S}
    <2>1. ASSUME NEW q \in T PROVE \E j \in S : q = e[j]
      <3>1. PICK j \in K : q = e[j] /\ doc[j].tag \notin AnchorTags
        BY <1>4, CarriedRest
      <3>2. e[j] <= e[i]
        BY <3>1
      <3>3. j <= i
        BY <3>2, <1>1
      <3>4. j \in 1 .. i
        BY <3>3, <1>1, <1>2, <1>3
      <3> QED
        BY <3>1, <3>4
    <2>2. ASSUME NEW j \in S PROVE e[j] \in T
      <3>1. j \in K /\ j <= i /\ doc[j].tag \notin AnchorTags
        BY <1>5
      <3>2. e[j] <= e[i] /\ e[j] \in DOMAIN out /\ out[e[j]] = doc[j] /\ e[j] \in Nat
        BY <3>1, <1>1
      <3>3. e[j] \in 1 .. e[i]
        BY <3>2, <1>2, <1>3
      <3> QED
        BY <3>1, <3>2, <3>3
    <2> QED
      BY <2>1, <2>2
  <1>7. IsFiniteSet(S)
    <2>1. S \in SUBSET DOMAIN doc
      BY <1>4
    <2> QED
      BY <2>1, DocumentFacts
  <1>8. \A j, k \in S : e[j] = e[k] => j = k
    BY <1>1, <1>5
  <1> HIDE DEF S, T
  <1>9. Cardinality(T) = Cardinality(S)
    BY <1>6, <1>7, <1>8, OneToOne
  <1> QED
    BY <1>9 DEF S, T, Boundary

\* The anchors of d in out correspond one to one, in order and place, to those of
\* c in doc: f says how.
Matches(f, doc, c, out, d) ==
    /\ AnchorsOf(out, d) = {f[i] : i \in AnchorsOf(doc, c)}
    /\ \A i \in AnchorsOf(doc, c) :
         /\ out[f[i]].tag = doc[i].tag /\ out[f[i]].box = doc[i].box
         /\ Boundary(out, f[i]) = Boundary(doc, i)
    /\ \A i, j \in AnchorsOf(doc, c) : (i < j <=> f[i] < f[j]) /\ (f[i] = f[j] => i = j)

\* Anchors that correspond have the same kinds.
LEMMA MatchedTags ==
  ASSUME NEW f, NEW doc, NEW c, NEW out, NEW d, Matches(f, doc, c, out, d), NEW tag
  PROVE  /\ Tagged(doc, c, tag) \subseteq AnchorsOf(doc, c)
         /\ Tagged(out, d, tag) = {f[i] : i \in Tagged(doc, c, tag)}
  <1>1. Tagged(doc, c, tag) \subseteq AnchorsOf(doc, c)
    BY DEF Tagged
  <1>2. ASSUME NEW q \in Tagged(out, d, tag) PROVE \E i \in Tagged(doc, c, tag) : q = f[i]
    BY DEF Tagged, Matches
  <1>3. ASSUME NEW i \in Tagged(doc, c, tag) PROVE f[i] \in Tagged(out, d, tag)
    BY DEF Tagged, Matches
  <1> QED
    BY <1>1, <1>2, <1>3

\* and so they say the same: complete, in order, supported, and quoting the
\* same stretch of the text.
LEMMA MatchedStory ==
  ASSUME NEW doc, IsDocument(doc), NEW out, NEW f, NEW c, NEW d, Matches(f, doc, c, out, d)
  PROVE  /\ AnchorsOf(out, d) = {} <=> AnchorsOf(doc, c) = {}
         /\ Counted(out, d) <=> Counted(doc, c)
         /\ Ordered(out, d) <=> Ordered(doc, c)
         /\ \A authors : Supported(out, d, authors) <=> Supported(doc, c, authors)
         /\ Quotation(out, d) = Quotation(doc, c)
  <1>1. ASSUME NEW tag PROVE Cardinality(Tagged(out, d, tag)) = Cardinality(Tagged(doc, c, tag))
    <2> DEFINE S == Tagged(doc, c, tag)
    <2>1. S \subseteq AnchorsOf(doc, c) /\ Tagged(out, d, tag) = {f[i] : i \in S}
      BY MatchedTags
    <2>2. IsFiniteSet(S)
      <3>1. S \in SUBSET DOMAIN doc
        BY <2>1 DEF AnchorsOf
      <3> QED
        BY <3>1, DocumentFacts
    <2>3. \A i, j \in S : f[i] = f[j] => i = j
      BY <2>1 DEF Matches
    <2> HIDE DEF S
    <2>4. Cardinality({f[i] : i \in S}) = Cardinality(S)
      BY <2>2, <2>3, OneToOne
    <2> QED
      BY <2>1, <2>4 DEF S
  <1>2. AnchorsOf(out, d) = {} <=> AnchorsOf(doc, c) = {}
    BY DEF Matches
  <1>3. Counted(out, d) <=> Counted(doc, c)
    BY <1>1 DEF Counted
  <1>4. /\ \A tag : Tagged(doc, c, tag) \subseteq AnchorsOf(doc, c)
        /\ \A tag : Tagged(out, d, tag) = {f[i] : i \in Tagged(doc, c, tag)}
    BY MatchedTags
  <1>5. Ordered(out, d) <=> Ordered(doc, c)
    <2>1. ASSUME Ordered(out, d) PROVE Ordered(doc, c)
      <3> SUFFICES ASSUME NEW s \in Tagged(doc, c, "start"), NEW x \in Tagged(doc, c, "end"),
                          NEW r \in Tagged(doc, c, "reference")
                   PROVE  s < x /\ x < r
        BY DEF Ordered
      <3>0. /\ f[s] \in Tagged(out, d, "start") /\ f[x] \in Tagged(out, d, "end")
            /\ f[r] \in Tagged(out, d, "reference")
        BY <1>4
      <3>1. f[s] < f[x] /\ f[x] < f[r]
        BY <3>0, <2>1 DEF Ordered
      <3> QED
        BY <1>4, <3>1 DEF Matches
    <2>2. ASSUME Ordered(doc, c) PROVE Ordered(out, d)
      <3> SUFFICES ASSUME NEW s \in Tagged(doc, c, "start"), NEW x \in Tagged(doc, c, "end"),
                          NEW r \in Tagged(doc, c, "reference")
                   PROVE  f[s] < f[x] /\ f[x] < f[r]
        BY <1>4 DEF Ordered
      <3>1. s < x /\ x < r
        BY <2>2 DEF Ordered
      <3> QED
        BY <1>4, <3>1 DEF Matches
    <2> QED
      BY <2>1, <2>2
  <1>6. \A authors : Supported(out, d, authors) <=> Supported(doc, c, authors)
    BY DEF Supported, Matches
  <1>7. Quotation(out, d) = Quotation(doc, c)
    <2> DEFINE A == AnchorsOf(doc, c)
               R == A \ Tagged(doc, c, "reference")
               B == AnchorsOf(out, d)
               Q == B \ Tagged(out, d, "reference")
    <2>1. Q = {f[i] : i \in R}
      <3>1. \A i, j \in A : f[i] = f[j] => i = j
        BY DEF Matches
      <3>2. B = {f[i] : i \in A}
        BY DEF Matches
      <3>3. Tagged(out, d, "reference") = {f[i] : i \in Tagged(doc, c, "reference")}
            /\ Tagged(doc, c, "reference") \subseteq A
        BY <1>4
      <3> QED
        BY <3>1, <3>2, <3>3
    <2>2. B = {f[i] : i \in A}
      BY DEF Matches
    <2>3. ASSUME NEW U \in SUBSET A
          PROVE  {<<out[q].tag, Boundary(out, q)>> : q \in {f[i] : i \in U}}
                   = {<<doc[i].tag, Boundary(doc, i)>> : i \in U}
      <3>1. \A i \in U : out[f[i]].tag = doc[i].tag /\ Boundary(out, f[i]) = Boundary(doc, i)
        BY DEF Matches
      <3> QED
        BY <3>1
    <2>4. Q = {} <=> R = {}
      BY <2>1
    <2>5. R \in SUBSET A /\ A \in SUBSET A
      OBVIOUS
    <2>6. Quotation(out, d) = {<<out[q].tag, Boundary(out, q)>> : q \in IF Q = {} THEN B ELSE Q}
      BY DEF Quotation
    <2>7. Quotation(doc, c) = {<<doc[i].tag, Boundary(doc, i)>> : i \in IF R = {} THEN A ELSE R}
      BY DEF Quotation
    <2> HIDE DEF A, R, B, Q
    <2>8. CASE R = {}
      BY <2>2, <2>3, <2>4, <2>5, <2>6, <2>7, <2>8
    <2>9. CASE R # {}
      BY <2>1, <2>3, <2>4, <2>5, <2>6, <2>7, <2>9
    <2> QED
      BY <2>8, <2>9
  <1> QED
    BY <1>2, <1>3, <1>5, <1>6, <1>7

\* What is carried matches itself.
LEMMA CarriedMatches ==
  ASSUME NEW doc, IsDocument(doc), NEW out, IsDocument(out), NEW e, NEW K, NEW N,
         Carries(e, K, doc, out, N), NEW c, c \notin N
  PROVE  Matches(e, doc, c, out, c)
  <1>1. AnchorsOf(doc, c) \subseteq K /\ AnchorsOf(out, c) = {e[i] : i \in AnchorsOf(doc, c)}
    BY CarriedAnchors
  <1>2. \A i \in K : out[e[i]] = doc[i]
    BY DEF Carries, Takes
  <1>3. \A i, j \in K : (i < j <=> e[i] < e[j]) /\ (e[i] = e[j] => i = j)
    BY TakesFacts DEF Carries
  <1>4. \A i \in K : Boundary(out, e[i]) = Boundary(doc, i)
    BY CarriedBoundary
  <1> QED
    BY <1>1, <1>2, <1>3, <1>4 DEF Matches

\* The copies match the root.
LEMMA MirroredMatches ==
  ASSUME NEW doc, IsDocument(doc), NEW out, IsDocument(out), NEW root, NEW reply, NEW e, NEW f,
         Carries(e, DOMAIN doc, doc, out, {reply}), Copies(f, e, doc, out, root, reply),
         reply \notin Anchored(doc)
  PROVE  Matches(f, doc, root, out, reply)
  <1> DEFINE A == AnchorsOf(doc, root)
  <1>1. /\ \A i \in DOMAIN doc : e[i] \in DOMAIN out /\ e[i] \in Nat /\ out[e[i]] = doc[i]
        /\ \A i, j \in DOMAIN doc : (i < j <=> e[i] < e[j]) /\ (e[i] = e[j] => i = j)
    BY TakesFacts DEF Carries
  <1>2. A \subseteq DOMAIN doc /\ \A i \in A : doc[i].tag \in AnchorTags /\ doc[i].what = root
    BY DEF AnchorsOf, IsAnchor
  <1>3. ASSUME NEW i \in A
        PROVE  /\ f[i] = e[i] + 1 /\ f[i] \in DOMAIN out
               /\ out[f[i]].tag = doc[i].tag /\ out[f[i]].what = reply /\ out[f[i]].box = doc[i].box
    <2>1. IsPiece(doc[i])
      BY <1>2 DEF IsDocument
    <2>2. f[i] = e[i] + 1 /\ f[i] \in DOMAIN out /\ out[f[i]] = [doc[i] EXCEPT !.what = reply]
      BY DEF Copies
    <2>3. [doc[i] EXCEPT !.what = reply] = [tag |-> doc[i].tag, what |-> reply, box |-> doc[i].box]
      BY <2>1 DEF IsPiece
    <2> QED
      BY <2>2, <2>3
  <1>4. \A i \in DOMAIN doc : ~IsAnchor(doc[i], {reply})
    BY DEF Anchored, IsAnchor
  <1>5. AnchorsOf(out, reply) = {f[i] : i \in A}
    <2>1. ASSUME NEW q \in AnchorsOf(out, reply) PROVE \E i \in A : q = f[i]
      <3>1. q \in DOMAIN out /\ IsAnchor(out[q], {reply})
        BY DEF AnchorsOf
      <3>2. (\E i \in DOMAIN doc : q = e[i]) \/ (\E i \in A : q = f[i])
        BY <3>1 DEF Copies
      <3> QED
        BY <3>1, <3>2, <1>1, <1>4
    <2>2. ASSUME NEW i \in A PROVE f[i] \in AnchorsOf(out, reply)
      BY <1>2, <1>3 DEF AnchorsOf, IsAnchor
    <2> QED
      BY <2>1, <2>2
  <1>6. ASSUME NEW i \in A PROVE Boundary(out, f[i]) = Boundary(doc, i)
    <2>1. i \in DOMAIN doc /\ e[i] \in Nat /\ f[i] = e[i] + 1 /\ out[f[i]].tag \in AnchorTags
      BY <1>1, <1>2, <1>3
    <2>2. 1 .. (e[i] + 1) = (1 .. e[i]) \cup {e[i] + 1}
      BY <2>1
    <2>3. {j \in 1 .. f[i] : out[j].tag \notin AnchorTags} = {j \in 1 .. e[i] : out[j].tag \notin AnchorTags}
      BY <2>1, <2>2
    <2>4. Boundary(out, f[i]) = Boundary(out, e[i])
      BY <2>3 DEF Boundary
    <2> QED
      BY <2>1, <2>4, CarriedBoundary
  <1>7. \A i, j \in A : (i < j <=> f[i] < f[j]) /\ (f[i] = f[j] => i = j)
    <2> SUFFICES ASSUME NEW i \in A, NEW j \in A
                 PROVE  (i < j <=> f[i] < f[j]) /\ (f[i] = f[j] => i = j)
      OBVIOUS
    <2>1. f[i] = e[i] + 1 /\ f[j] = e[j] + 1 /\ e[i] \in Nat /\ e[j] \in Nat
      BY <1>1, <1>2, <1>3
    <2>2. (i < j <=> e[i] < e[j]) /\ (e[i] = e[j] => i = j)
      BY <1>1, <1>2
    <2>3. f[i] < f[j] <=> e[i] < e[j]
      BY <2>1
    <2>4. f[i] = f[j] => e[i] = e[j]
      BY <2>1
    <2> QED
      BY <2>2, <2>3, <2>4
  <1> QED
    BY <1>3, <1>5, <1>6, <1>7 DEF Matches

\* A new comment has its range before its reference.
LEMMA MarkedStory ==
  ASSUME NEW doc, IsDocument(doc), NEW out, IsDocument(out), NEW c, NEW e, NEW s, NEW t, NEW lo, NEW hi,
         Carries(e, DOMAIN doc, doc, out, {c}), MarksAt(s, t, e, doc, out, lo, hi, c),
         lo \in DOMAIN doc, hi \in DOMAIN doc, c \notin Anchored(doc)
  PROVE  /\ Counted(out, c) /\ Ordered(out, c)
         /\ \A authors : doc[lo].box \in authors \cup {None} => Supported(out, c, authors)
  <1>1. /\ \A i \in DOMAIN doc : e[i] \in DOMAIN out /\ e[i] \in Nat /\ out[e[i]] = doc[i]
    BY TakesFacts DEF Carries
  <1>2. \A i \in DOMAIN doc : ~IsAnchor(doc[i], {c})
    BY DEF Anchored, IsAnchor
  <1>3. /\ s \in DOMAIN out /\ t \in DOMAIN out /\ t + 1 \in DOMAIN out
        /\ out[s].tag = "start" /\ out[t].tag = "end" /\ out[t + 1].tag = "reference"
        /\ \A q \in {s, t, t + 1} : out[q].what = c /\ out[q].box = doc[lo].box /\ IsAnchor(out[q], {c})
    BY DEF MarksAt, Anchor, IsAnchor, AnchorTags
  <1>4. AnchorsOf(out, c) = {s, t, t + 1}
    <2>1. ASSUME NEW q \in AnchorsOf(out, c) PROVE q \in {s, t, t + 1}
      <3>1. (\E i \in DOMAIN doc : q = e[i]) \/ q = s \/ q = t \/ q = t + 1
        BY DEF MarksAt, AnchorsOf
      <3> QED
        BY <3>1, <1>1, <1>2 DEF AnchorsOf
    <2>2. {s, t, t + 1} \subseteq AnchorsOf(out, c)
      BY <1>3 DEF AnchorsOf
    <2> QED
      BY <2>1, <2>2
  <1>5. Tagged(out, c, "start") = {s} /\ Tagged(out, c, "end") = {t} /\ Tagged(out, c, "reference") = {t + 1}
    BY <1>3, <1>4 DEF Tagged
  <1>6. s < t /\ t < t + 1
    <2>1. s \in Nat /\ t \in Nat /\ e[lo] \in Nat /\ e[hi] \in Nat
      BY <1>1, <1>3, DocumentFacts
    <2>2. s < e[lo] /\ e[lo] <= e[hi] /\ e[hi] < t
      BY DEF MarksAt
    <2> QED
      BY <2>1, <2>2
  <1>7. Counted(out, c)
    <2>1. Cardinality({s}) = 1 /\ Cardinality({t}) = 1 /\ Cardinality({t + 1}) = 1
      BY FS_Singleton
    <2>2. 1 <= 1
      OBVIOUS
    <2> QED
      BY <1>5, <2>1, <2>2 DEF Counted
  <1>8. Ordered(out, c)
    BY <1>5, <1>6 DEF Ordered
  <1>9. \A authors : doc[lo].box \in authors \cup {None} => Supported(out, c, authors)
    BY <1>3, <1>4 DEF Supported
  <1> QED
    BY <1>7, <1>8, <1>9

-----------------------------------------------------------------------------
(* The way up from a message to the root of its thread. *)

\* Step 0 is the message, and each step goes from a reply to its parent.
Climbs(h, m, g, c) ==
    h = [n \in 0 .. m |-> IF n = 0 THEN c ELSE Above(g, h[n - 1])]

\* There is such a way for any number of steps.
LEMMA SomeClimb ==
  ASSUME NEW g, NEW c, NEW m \in Nat
  PROVE  \E h : Climbs(h, m, g, c)
  <1> DEFINE S == {k \in Nat : \E h : Climbs(h, k, g, c)}
  <1>1. 0 \in S
    <2> DEFINE h == [n \in 0 .. 0 |-> c]
    <2>1. h = [n \in 0 .. 0 |-> IF n = 0 THEN c ELSE Above(g, h[n - 1])]
      OBVIOUS
    <2> QED
      BY <2>1 DEF Climbs
  <1>2. ASSUME NEW k \in Nat, k \in S PROVE k + 1 \in S
    <2>1. PICK h : Climbs(h, k, g, c)
      BY <1>2
    <2> DEFINE new == Above(g, h[k])
               up == [n \in 0 .. k + 1 |-> IF n = k + 1 THEN new ELSE h[n]]
    <2> HIDE DEF new
    <2>2. h = [n \in 0 .. k |-> IF n = 0 THEN c ELSE Above(g, h[n - 1])]
      BY <2>1 DEF Climbs
    <2>3. ASSUME NEW n \in 0 .. k + 1
          PROVE  up[n] = IF n = 0 THEN c ELSE Above(g, up[n - 1])
      <3>1. CASE n = k + 1
        <4>1. up[n - 1] = h[k] /\ up[n] = new /\ n # 0
          BY <3>1
        <4> QED
          BY <4>1 DEF new
      <3>2. CASE n # k + 1
        <4>1. n \in 0 .. k /\ up[n] = h[n] /\ (n # 0 => n - 1 \in 0 .. k + 1 /\ n - 1 # k + 1)
          BY <3>2
        <4>2. n # 0 => up[n - 1] = h[n - 1]
          BY <4>1
        <4> QED
          BY <4>1, <4>2, <2>2
      <3> QED
        BY <3>1, <3>2
    <2> HIDE DEF up
    <2>4. DOMAIN up = 0 .. k + 1 /\ up = [n \in 0 .. k + 1 |-> up[n]]
      BY DEF up
    <2>5. Climbs(up, k + 1, g, c)
      BY <2>3, <2>4 DEF Climbs
    <2> QED
      BY <2>5
  <1> HIDE DEF S
  <1>3. Nat \subseteq S
    BY <1>1, <1>2, NatSet
  <1> QED
    BY <1>3 DEF S

\* and only one.
LEMMA ClimbsAgree ==
  ASSUME NEW g, NEW c, NEW m \in Nat, NEW k \in Nat, NEW h, NEW i,
         Climbs(h, m, g, c), Climbs(i, k, g, c)
  PROVE  \A n \in Nat : n <= m /\ n <= k => h[n] = i[n]
  <1> DEFINE S == {n \in Nat : n <= m /\ n <= k => h[n] = i[n]}
  <1>1. /\ h = [n \in 0 .. m |-> IF n = 0 THEN c ELSE Above(g, h[n - 1])]
        /\ i = [n \in 0 .. k |-> IF n = 0 THEN c ELSE Above(g, i[n - 1])]
    BY DEF Climbs
  <1>2. 0 \in S
    BY <1>1
  <1>3. ASSUME NEW n \in Nat, n \in S PROVE n + 1 \in S
    <2> SUFFICES ASSUME n + 1 <= m, n + 1 <= k PROVE h[n + 1] = i[n + 1]
      OBVIOUS
    <2>1. h[n] = i[n] /\ n + 1 \in 0 .. m /\ n + 1 \in 0 .. k /\ (n + 1) - 1 = n /\ n + 1 # 0
      BY <1>3
    <2>2. h[n + 1] = Above(g, h[n]) /\ i[n + 1] = Above(g, i[n])
      BY <1>1, <2>1
    <2> QED
      BY <2>1, <2>2
  <1> HIDE DEF S
  <1>4. Nat \subseteq S
    BY <1>2, <1>3, NatSet
  <1> QED
    BY <1>4 DEF S

\* Upward is this way.
LEMMA UpwardUnfolds ==
  ASSUME NEW g, NEW c
  PROVE  /\ Upward(g, c)[0] = c
         /\ \A n \in Nat : Upward(g, c)[n + 1] = Above(g, Upward(g, c)[n])
  <1> DEFINE best(n) == CHOOSE h : Climbs(h, n, g, c)
             f == [n \in Nat |-> best(n)[n]]
  <1>1. \A n \in Nat : Climbs(best(n), n, g, c)
    BY SomeClimb
  <1> HIDE DEF best
  <1>2. ASSUME NEW n \in Nat
        PROVE  f[n] = IF n = 0 THEN c ELSE Above(g, f[n - 1])
    <2>1. best(n) = [i \in 0 .. n |-> IF i = 0 THEN c ELSE Above(g, best(n)[i - 1])]
      BY <1>1 DEF Climbs
    <2>2. CASE n = 0
      BY <2>1, <2>2
    <2>3. CASE n # 0
      <3>1. n - 1 \in Nat /\ n - 1 <= n /\ n - 1 <= n - 1
        BY <2>3
      <3>2. best(n)[n - 1] = best(n - 1)[n - 1]
        BY <3>1, <1>1, ClimbsAgree
      <3>3. best(n)[n] = Above(g, best(n)[n - 1])
        BY <2>1, <2>3
      <3> QED
        BY <3>1, <3>2, <3>3, <2>3
    <2> QED
      BY <2>2, <2>3
  <1>3. f = [n \in Nat |-> IF n = 0 THEN c ELSE Above(g, f[n - 1])]
    <2> HIDE DEF f
    <2>1. f = [n \in Nat |-> f[n]]
      BY DEF f
    <2> QED
      BY <2>1, <1>2
  <1> HIDE DEF f
  <1> DEFINE U == Upward(g, c)
  <1>4. U = [n \in Nat |-> IF n = 0 THEN c ELSE Above(g, U[n - 1])]
    BY <1>3 DEF Upward
  <1> HIDE DEF U
  <1>5. U[0] = c
    BY <1>4
  <1>6. ASSUME NEW n \in Nat PROVE U[n + 1] = Above(g, U[n])
    <2>1. n + 1 \in Nat /\ n + 1 # 0 /\ (n + 1) - 1 = n
      OBVIOUS
    <2> QED
      BY <1>4, <2>1
  <1> QED
    BY <1>5, <1>6 DEF U

\* Messages whose parents are among them.
ClosedUpward(g, D) == \A d \in D : IsReply(g, d) => Parent(g, d) \in D

\* It stays where parents do.
LEMMA UpwardStays ==
  ASSUME NEW g, NEW D, ClosedUpward(g, D), NEW c \in D
  PROVE  \A n \in Nat : Upward(g, c)[n] \in D
  <1> DEFINE S == {n \in Nat : Upward(g, c)[n] \in D}
  <1>1. 0 \in S
    BY UpwardUnfolds
  <1>2. ASSUME NEW n \in Nat, n \in S PROVE n + 1 \in S
    <2>1. Upward(g, c)[n + 1] = Above(g, Upward(g, c)[n])
      BY UpwardUnfolds
    <2> QED
      BY <1>2, <2>1 DEF Above, ClosedUpward
  <1> HIDE DEF S
  <1>3. Nat \subseteq S
    BY <1>1, <1>2, NatSet
  <1> QED
    BY <1>3 DEF S

\* The top is not left.
LEMMA TopStays ==
  ASSUME NEW g, NEW c, NEW n \in Nat, ~IsReply(g, Upward(g, c)[n]), NEW m \in Nat, n <= m
  PROVE  Upward(g, c)[m] = Upward(g, c)[n]
  <1> DEFINE U == Upward(g, c)
             S == {k \in Nat : U[n + k] = U[n]}
  <1>1. 0 \in S
    OBVIOUS
  <1>2. ASSUME NEW k \in Nat, k \in S PROVE k + 1 \in S
    <2>1. n + (k + 1) = (n + k) + 1 /\ n + k \in Nat
      OBVIOUS
    <2>2. U[(n + k) + 1] = Above(g, U[n + k])
      BY <2>1, UpwardUnfolds
    <2>3. U[n + (k + 1)] = U[n]
      BY <1>2, <2>1, <2>2 DEF Above
    <2> QED
      BY <2>3
  <1>3. Nat \subseteq S
    <2> HIDE DEF S
    <2> QED
      BY <1>1, <1>2, NatSet
  <1>4. m - n \in Nat /\ n + (m - n) = m
    OBVIOUS
  <1>5. m - n \in S
    BY <1>3, <1>4
  <1> QED
    BY <1>4, <1>5

\* Two places on the way that agree agree ever after.
LEMMA WaysMeet ==
  ASSUME NEW g, NEW c, NEW i \in Nat, NEW j \in Nat, Upward(g, c)[i] = Upward(g, c)[j]
  PROVE  \A k \in Nat : Upward(g, c)[i + k] = Upward(g, c)[j + k]
  <1> DEFINE U == Upward(g, c)
             S == {k \in Nat : U[i + k] = U[j + k]}
  <1>1. 0 \in S
    <2>1. i + 0 = i /\ j + 0 = j
      OBVIOUS
    <2> QED
      BY <2>1
  <1>2. ASSUME NEW k \in Nat, k \in S PROVE k + 1 \in S
    <2>1. i + (k + 1) = (i + k) + 1 /\ j + (k + 1) = (j + k) + 1 /\ i + k \in Nat /\ j + k \in Nat
      OBVIOUS
    <2>2. U[(i + k) + 1] = Above(g, U[i + k]) /\ U[(j + k) + 1] = Above(g, U[j + k])
      BY <2>1, UpwardUnfolds
    <2>3. U[i + (k + 1)] = U[j + (k + 1)]
      BY <1>2, <2>1, <2>2
    <2> QED
      BY <2>3
  <1> HIDE DEF S
  <1>3. Nat \subseteq S
    BY <1>1, <1>2, NatSet
  <1> QED
    BY <1>3 DEF S

\* Among finitely many messages the top is as many steps away as there are
\* messages, or there is none.
LEMMA TopIsNear ==
  ASSUME NEW g, NEW D, IsFiniteSet(D), ClosedUpward(g, D), NEW c \in D,
         NEW N \in Nat, ~IsReply(g, Upward(g, c)[N])
  PROVE  /\ ~IsReply(g, Upward(g, c)[Cardinality(D)])
         /\ Upward(g, c)[Cardinality(D)] = Upward(g, c)[N]
  <1> DEFINE U == Upward(g, c)
             T == {n \in Nat : ~IsReply(g, U[n])}
             b == Cardinality(D)
  <1>1. b \in Nat
    BY FS_CardinalityType
  <1>2. T \in SUBSET Nat /\ T # {}
    OBVIOUS
  <1>3. PICK m \in T : \A n \in T : m <= n
    <2> HIDE DEF T
    <2> QED
      BY <1>2, LeastExists
  <1>4. m \in Nat /\ ~IsReply(g, U[m])
    OBVIOUS
  <1>5. m <= b
    <2> SUFFICES ASSUME ~(m <= b) PROVE FALSE
      OBVIOUS
    <2> DEFINE f == [n \in 0 .. b |-> U[n]]
    <2>1. f \in [0 .. b -> D]
      <3>1. \A n \in 0 .. b : U[n] \in D
        BY UpwardStays
      <3> QED
        BY <3>1
    <2>2. IsFiniteSet(0 .. b) /\ Cardinality(0 .. b) = b + 1
      <3>1. 0 \in Int /\ b \in Int /\ ~(0 > b) /\ (b - 0) + 1 = b + 1
        BY <1>1
      <3> HIDE DEF b
      <3> QED
        BY <3>1, FS_Interval
    <2>3. Cardinality(D) < Cardinality(0 .. b)
      BY <1>1, <2>2
    <2> HIDE DEF f
    <2>4. PICK x, y \in 0 .. b : x # y /\ f[x] = f[y]
      BY <2>1, <2>2, <2>3, FS_PigeonHole
    <2>5. \E i, j \in 0 .. b : i < j /\ f[i] = f[j]
      <3>1. CASE x < y
        BY <3>1, <2>4
      <3>2. CASE y < x
        BY <3>2, <2>4
      <3>3. x \in Nat /\ y \in Nat
        BY <1>1
      <3> QED
        BY <3>1, <3>2, <3>3, <2>4
    <2>6. PICK i, j \in 0 .. b : i < j /\ f[i] = f[j]
      BY <2>5
    <2>7. i \in Nat /\ j \in Nat /\ U[i] = U[j] /\ j <= b
      BY <1>1, <2>6 DEF f
    <2>8. m - j \in Nat /\ j + (m - j) = m /\ i + (m - j) \in Nat /\ ~(m <= i + (m - j))
      BY <1>1, <1>4, <2>6, <2>7
    <2>9. U[i + (m - j)] = U[j + (m - j)]
      <3>1. \A k \in Nat : U[i + k] = U[j + k]
        BY <2>7, WaysMeet
      <3> QED
        BY <2>8, <3>1
    <2>10. i + (m - j) \in T
      BY <1>4, <2>8, <2>9
    <2> HIDE DEF T
    <2> QED
      BY <1>3, <2>8, <2>10
  <1> HIDE DEF b
  <1>6. U[b] = U[m]
    BY <1>1, <1>4, <1>5, TopStays
  <1>7. U[N] = U[m]
    <2>1. m <= N
      BY <1>3
    <2> QED
      BY <1>4, <2>1, TopStays
  <1> QED
    BY <1>4, <1>6, <1>7 DEF b

-----------------------------------------------------------------------------
(* What a package is made of.                                               *)
\* The part of Readable that speaks of single entries.
Linked(g) ==
    /\ \A c, d \in DOMAIN g.comments :
         c # d => g.comments[c].para = None \/ g.comments[c].para # g.comments[d].para
    /\ \A p, q \in DOMAIN g.identities : p # q => g.identities[p] # g.identities[q]
    /\ \A p \in DOMAIN g.extended :
         g.extended[p].parent # None =>
           /\ p \in Paras(g)
           /\ g.extended[p].parent \in (Paras(g) \cap DOMAIN g.extended) \ {p}

\* It says so of any package with the same paragraphs and parents.
LEMMA SameLinks ==
  ASSUME NEW g, Linked(g), NEW h, DOMAIN h.comments = DOMAIN g.comments,
         \A c \in DOMAIN g.comments : h.comments[c].para = g.comments[c].para,
         h.identities = g.identities, DOMAIN h.extended = DOMAIN g.extended,
         \A p \in DOMAIN g.extended : h.extended[p].parent = g.extended[p].parent,
         Paras(h) = Paras(g)
  PROVE  Linked(h)
  <1>1. \A c, d \in DOMAIN h.comments :
          c # d => h.comments[c].para = None \/ h.comments[c].para # h.comments[d].para
    BY DEF Linked
  <1>2. \A p, q \in DOMAIN h.identities : p # q => h.identities[p] # h.identities[q]
    BY DEF Linked
  <1>3. ASSUME NEW p \in DOMAIN h.extended, h.extended[p].parent # None
        PROVE  /\ p \in Paras(h)
               /\ h.extended[p].parent \in (Paras(h) \cap DOMAIN h.extended) \ {p}
    <2>1. p \in DOMAIN g.extended /\ g.extended[p].parent # None
      BY <1>3
    <2>2. /\ p \in Paras(g)
          /\ g.extended[p].parent \in (Paras(g) \cap DOMAIN g.extended) \ {p}
      BY <2>1 DEF Linked
    <2> QED
      BY <2>1, <2>2
  <1> QED
    BY <1>1, <1>2, <1>3 DEF Linked

\* A readable package: its entries are linked and every thread has a root.
LEMMA ReadableIs ==
  ASSUME NEW g
  PROVE  Readable(g) <=> Linked(g) /\ \A c \in DOMAIN g.comments : ~IsReply(g, Root(g, c))
  BY DEF Readable, Linked

\* The paragraphs that comments have.
LEMMA ParasAre ==
  ASSUME NEW g, NEW p
  PROVE  p \in Paras(g) <=> p # None /\ \E c \in DOMAIN g.comments : g.comments[c].para = p
  BY DEF Paras

\* A paragraph is of one comment.
LEMMA OwnerIs ==
  ASSUME NEW g, Linked(g), NEW c \in DOMAIN g.comments, g.comments[c].para # None
  PROVE  Owner(g, g.comments[c].para) = c
  <1>1. \E d \in DOMAIN g.comments : g.comments[d].para = g.comments[c].para
    OBVIOUS
  <1>2. \A d \in DOMAIN g.comments : g.comments[d].para = g.comments[c].para => d = c
    BY DEF Linked
  <1> QED
    BY <1>1, <1>2 DEF Owner

\* The parent of a reply is a comment, of another paragraph.
LEMMA ParentFacts ==
  ASSUME NEW g, Linked(g), NEW c \in DOMAIN g.comments, IsReply(g, c)
  PROVE  /\ Parent(g, c) \in DOMAIN g.comments
         /\ g.comments[Parent(g, c)].para = Entry(g, c).parent
         /\ Entry(g, c).parent # None
         /\ Entry(g, c).parent \in DOMAIN g.extended
         /\ Entry(g, c).parent # g.comments[c].para
  <1>1. /\ g.comments[c].para \in DOMAIN g.extended
        /\ Entry(g, c) = g.extended[g.comments[c].para]
        /\ Entry(g, c).parent # None
    BY DEF IsReply, Entered, Entry
  <1>2. Entry(g, c).parent \in (Paras(g) \cap DOMAIN g.extended) \ {g.comments[c].para}
    BY <1>1 DEF Linked
  <1>3. PICK d \in DOMAIN g.comments : g.comments[d].para = Entry(g, c).parent
    BY <1>2, ParasAre
  <1>4. Parent(g, c) = d
    BY <1>1, <1>3, OwnerIs DEF Parent
  <1> QED
    BY <1>1, <1>2, <1>3, <1>4

\* Parents of comments are comments.
LEMMA LinkedIsClosed ==
  ASSUME NEW g, Linked(g)
  PROVE  ClosedUpward(g, DOMAIN g.comments)
  BY ParentFacts DEF ClosedUpward

\* The first message on the way up that is no reply is the root.
LEMMA RootFound ==
  ASSUME NEW g, IsPackage(g), Linked(g), NEW c \in DOMAIN g.comments,
         NEW N \in Nat, ~IsReply(g, Upward(g, c)[N])
  PROVE  Root(g, c) = Upward(g, c)[N] /\ ~IsReply(g, Root(g, c))
  <1>1. IsFiniteSet(DOMAIN g.comments)
    BY DEF IsPackage, IsTable
  <1>2. ClosedUpward(g, DOMAIN g.comments)
    BY LinkedIsClosed
  <1>3. Upward(g, c)[Cardinality(DOMAIN g.comments)] = Upward(g, c)[N]
    BY <1>1, <1>2, TopIsNear
  <1> QED
    BY <1>3 DEF Root

\* A message that is no reply is its own root.
LEMMA RootOfNoReply ==
  ASSUME NEW g, IsPackage(g), Linked(g), NEW c \in DOMAIN g.comments, ~IsReply(g, c)
  PROVE  Root(g, c) = c
  <1>1. Upward(g, c)[0] = c /\ 0 \in Nat
    BY UpwardUnfolds
  <1> QED
    BY <1>1, RootFound

\* A root is reached among the comments.
LEMMA RootIsAComment ==
  ASSUME NEW g, IsPackage(g), Linked(g), NEW D, ClosedUpward(g, D), NEW c \in D
  PROVE  Root(g, c) \in D
  <1>1. Cardinality(DOMAIN g.comments) \in Nat
    BY FS_CardinalityType DEF IsPackage, IsTable
  <1> QED
    BY <1>1, UpwardStays DEF Root

\* Messages whose way up is the same in two packages.
SameWay(g, h, D) ==
    /\ D \subseteq DOMAIN g.comments /\ D \subseteq DOMAIN h.comments
    /\ ClosedUpward(g, D)
    /\ \A d \in D : IsReply(h, d) <=> IsReply(g, d)
    /\ \A d \in D : IsReply(g, d) => Parent(h, d) = Parent(g, d)

\* and then so are the roots.
LEMMA SameRoots ==
  ASSUME NEW g, IsPackage(g), Readable(g), NEW h, IsPackage(h), Linked(h),
         NEW D, SameWay(g, h, D), NEW c \in D
  PROVE  Root(h, c) = Root(g, c) /\ Root(g, c) \in D /\ ~IsReply(h, Root(h, c))
  <1> DEFINE S == {n \in Nat : Upward(h, c)[n] = Upward(g, c)[n]}
             N == Cardinality(DOMAIN g.comments)
  <1>0. Linked(g) /\ c \in DOMAIN g.comments /\ c \in DOMAIN h.comments /\ ClosedUpward(g, D)
    BY ReadableIs DEF SameWay
  <1>1. \A n \in Nat : Upward(g, c)[n] \in D
    BY <1>0, UpwardStays
  <1>2. 0 \in S
    BY UpwardUnfolds
  <1>3. ASSUME NEW n \in Nat, n \in S PROVE n + 1 \in S
    <2>1. /\ Upward(g, c)[n + 1] = Above(g, Upward(g, c)[n])
          /\ Upward(h, c)[n + 1] = Above(h, Upward(h, c)[n])
      BY UpwardUnfolds
    <2>2. Upward(h, c)[n] = Upward(g, c)[n] /\ Upward(g, c)[n] \in D
      BY <1>1, <1>3
    <2> QED
      BY <2>1, <2>2 DEF Above, SameWay
  <1>4. \A n \in Nat : Upward(h, c)[n] = Upward(g, c)[n]
    <2> HIDE DEF S
    <2>1. Nat \subseteq S
      BY <1>2, <1>3, NatSet
    <2> QED
      BY <2>1 DEF S
  <1>5. N \in Nat
    BY FS_CardinalityType DEF IsPackage, IsTable
  <1>6. Root(g, c) = Upward(g, c)[N] /\ ~IsReply(g, Upward(g, c)[N])
    BY <1>0, ReadableIs DEF Root
  <1> HIDE DEF N, S
  <1>7. ~IsReply(h, Upward(h, c)[N])
    BY <1>1, <1>4, <1>5, <1>6 DEF SameWay
  <1>8. Root(h, c) = Upward(h, c)[N] /\ ~IsReply(h, Root(h, c))
    BY <1>0, <1>5, <1>7, RootFound
  <1> QED
    BY <1>1, <1>4, <1>5, <1>6, <1>8

-----------------------------------------------------------------------------
(* Identifiers that are not in use.                                         *)
LEMMA FiniteIsBounded ==
  ASSUME NEW S, IsFiniteSet(S), S \subseteq Nat
  PROVE  \E b \in Nat : \A x \in S : x <= b
  <1> DEFINE Ok(n) == \A T \in SUBSET Nat : IsFiniteSet(T) /\ Cardinality(T) = n
                                              => \E b \in Nat : \A x \in T : x <= b
             Z == {n \in Nat : Ok(n)}
  <1>1. 0 \in Z
    <2>1. ASSUME NEW T \in SUBSET Nat, IsFiniteSet(T), Cardinality(T) = 0
          PROVE  \E b \in Nat : \A x \in T : x <= b
      <3>1. T = {}
        BY <2>1, FS_EmptySet
      <3> QED
        BY <3>1
    <2>2. Ok(0)
      BY <2>1, Zenon
    <2> QED
      BY <2>2
  <1>2. ASSUME NEW n \in Nat, n \in Z PROVE n + 1 \in Z
    <2>1. ASSUME NEW T \in SUBSET Nat, IsFiniteSet(T), Cardinality(T) = n + 1
          PROVE  \E b \in Nat : \A x \in T : x <= b
      <3>1. T # {}
        BY <2>1, FS_EmptySet
      <3>2. PICK y \in T : TRUE
        BY <3>1
      <3>3. IsFiniteSet(T \ {y}) /\ Cardinality(T \ {y}) = (n + 1) - 1
        BY <2>1, FS_RemoveElement
      <3>4. (n + 1) - 1 = n /\ T \ {y} \in SUBSET Nat
        OBVIOUS
      <3>5. PICK b \in Nat : \A x \in T \ {y} : x <= b
        BY <1>2, <3>3, <3>4
      <3>6. y \in Nat /\ b + y \in Nat /\ y <= b + y /\ \A x \in Nat : x <= b => x <= b + y
        OBVIOUS
      <3>7. \A x \in T : x <= b + y
        BY <3>5, <3>6
      <3> QED
        BY <3>6, <3>7
    <2>2. Ok(n + 1)
      BY <2>1, Zenon
    <2>3. n + 1 \in Nat
      OBVIOUS
    <2> HIDE DEF Ok
    <2> QED
      BY <2>2, <2>3
  <1>3. Nat \subseteq Z
    <2> HIDE DEF Z
    <2> QED
      BY <1>1, <1>2, NatSet
  <1>4. Cardinality(S) \in Nat
    BY FS_CardinalityType
  <1>5. Ok(Cardinality(S))
    BY <1>3, <1>4
  <1> QED
    BY <1>5

\* Max is what it says.
LEMMA MaxFacts ==
  ASSUME NEW S, IsFiniteSet(S), S \subseteq Nat, S # {}
  PROVE  Max(S) \in S /\ \A x \in S : x <= Max(S)
  <1>1. PICK b \in Nat : \A x \in S : x <= b
    BY FiniteIsBounded
  <1>2. \E x \in S : \A y \in S : y <= x
    BY <1>1, GreatestExists
  <1>3. \E x \in S : \A y \in S : x >= y
    BY <1>2
  <1>4. Max(S) \in S /\ \A y \in S : Max(S) >= y
    BY <1>3 DEF Max
  <1> QED
    BY <1>4

\* An unused identifier is one.
LEMMA UnusedFacts ==
  ASSUME NEW S, IsFiniteSet(S)
  PROVE  Unused(S) \in Nat /\ Unused(S) \notin S
  <1> DEFINE n == Cardinality(S)
             T == (1 .. (n + 1)) \ S
  <1>1. n \in Nat
    BY FS_CardinalityType
  <1>2. T \in SUBSET Nat /\ T # {}
    <2>1. IsFiniteSet(1 .. (n + 1)) /\ Cardinality(1 .. (n + 1)) = n + 1
      <3>1. 1 \in Int /\ n + 1 \in Int /\ ~(1 > n + 1) /\ ((n + 1) - 1) + 1 = n + 1
        BY <1>1
      <3> HIDE DEF n
      <3> QED
        BY <3>1, FS_Interval
    <2>2. ASSUME T = {} PROVE FALSE
      <3>1. 1 .. (n + 1) \in SUBSET S
        BY <2>2
      <3> HIDE DEF T
      <3>2. Cardinality(1 .. (n + 1)) <= Cardinality(S)
        BY <3>1, FS_Subset
      <3> QED
        BY <2>1, <3>2, <1>1
    <2> QED
      BY <1>1, <2>2
  <1>3. \E x \in T : \A y \in T : x <= y
    <2> HIDE DEF T
    <2> QED
      BY <1>2, LeastExists
  <1>4. Unused(S) \in T
    <2>1. Unused(S) = Min(T)
      BY DEF Unused
    <2> HIDE DEF T
    <2>2. Min(T) \in T
      BY <1>3 DEF Min
    <2> QED
      BY <2>1, <2>2
  <1> QED
    BY <1>1, <1>4

\* A document anchors finitely many comments.
LEMMA AnchoredFinite ==
  ASSUME NEW doc, IsDocument(doc)
  PROVE  IsFiniteSet(Anchored(doc))
  <1> DEFINE D == {j \in DOMAIN doc : doc[j].tag \in AnchorTags}
             f == [i \in D |-> doc[i].what]
  <1>1. IsFiniteSet(D)
    <2>1. D \in SUBSET DOMAIN doc
      OBVIOUS
    <2> QED
      BY <2>1, DocumentFacts
  <1>2. DOMAIN f = D /\ f \in [DOMAIN f -> {f[x] : x \in DOMAIN f}] /\ Anchored(doc) = {f[x] : x \in DOMAIN f}
    BY DEF Anchored
  <1> HIDE DEF f, D
  <1> QED
    BY <1>1, <1>2, FiniteImage

\* _new_id returns a number no comment and no anchor has.
LEMMA NewIdFacts ==
  ASSUME NEW g, IsPackage(g), NEW doc, IsDocument(doc), Anchored(doc) \subseteq Nat
  PROVE  /\ NewId(g, doc) \in Nat
         /\ NewId(g, doc) \notin DOMAIN g.comments
         /\ NewId(g, doc) \notin Anchored(doc)
  <1> DEFINE U == DOMAIN g.comments \cup Anchored(doc)
             f == [c \in U |-> c + 1]
             S == {0} \cup {c + 1 : c \in U}
  <1>1. IsFiniteSet(U) /\ U \subseteq Nat
    <2>1. IsFiniteSet(DOMAIN g.comments) /\ DOMAIN g.comments \subseteq Nat
      BY DEF IsPackage, IsTable
    <2> QED
      BY <2>1, AnchoredFinite, FS_Union
  <1>2. IsFiniteSet({c + 1 : c \in U})
    <2>1. DOMAIN f = U /\ f \in [DOMAIN f -> {f[x] : x \in DOMAIN f}] /\ {c + 1 : c \in U} = {f[x] : x \in DOMAIN f}
      OBVIOUS
    <2> HIDE DEF f, U
    <2> QED
      BY <1>1, <2>1, FiniteImage
  <1>3. IsFiniteSet(S) /\ S \subseteq Nat /\ S # {}
    <2>1. IsFiniteSet({0})
      BY FS_Singleton
    <2>2. IsFiniteSet(S)
      BY <1>2, <2>1, FS_Union
    <2> QED
      BY <1>1, <2>2
  <1>4. NewId(g, doc) = Max(S)
    BY DEF NewId
  <1>5. \A c \in U : c + 1 \in S
    OBVIOUS
  <1> HIDE DEF S
  <1>6. Max(S) \in Nat /\ \A x \in S : x <= Max(S)
    BY <1>3, MaxFacts
  <1>7. ASSUME Max(S) \in U PROVE FALSE
    <2>1. Max(S) + 1 <= Max(S)
      BY <1>5, <1>6, <1>7
    <2> QED
      BY <1>6, <2>1
  <1> QED
    BY <1>4, <1>6, <1>7

\* The paragraphs of comments are finitely many numbers.
LEMMA ParasFinite ==
  ASSUME NEW g, IsPackage(g)
  PROVE  IsFiniteSet(Paras(g)) /\ Paras(g) \subseteq Nat
  <1> DEFINE D == DOMAIN g.comments
             f == [c \in D |-> g.comments[c].para]
  <1>1. DOMAIN f = D /\ f \in [DOMAIN f -> {f[x] : x \in DOMAIN f}]
        /\ {g.comments[c].para : c \in D} = {f[x] : x \in DOMAIN f}
    OBVIOUS
  <1>2. IsFiniteSet(D)
    BY DEF IsPackage, IsTable
  <1>3. \A c \in D : g.comments[c].para \in Nat \cup {None}
    BY DEF IsPackage, IsBody
  <1>4. IsFiniteSet({g.comments[c].para : c \in D})
    <2> HIDE DEF f, D
    <2> QED
      BY <1>1, <1>2, FiniteImage
  <1>5. Paras(g) \subseteq {g.comments[c].para : c \in D} /\ Paras(g) \subseteq Nat
    BY <1>3 DEF Paras
  <1> QED
    BY <1>4, <1>5, FS_Subset

\* A new paragraph identifier is in no part of the package.
LEMMA ParaPoolFacts ==
  ASSUME NEW g, IsPackage(g)
  PROVE  /\ Unused(ParaPool(g)) \in Nat
         /\ Unused(ParaPool(g)) \notin Paras(g)
         /\ Unused(ParaPool(g)) \notin DOMAIN g.extended
         /\ Unused(ParaPool(g)) \notin DOMAIN g.identities
         /\ Unused(ParaPool(g)) # None
  <1>1. IsFiniteSet(Paras(g)) /\ IsFiniteSet(DOMAIN g.extended) /\ IsFiniteSet(DOMAIN g.identities)
        /\ IsFiniteSet(ForeignParaIds)
    BY ParasFinite, CommentAssumption DEF IsPackage, IsTable
  <1>2. IsFiniteSet(ParaPool(g))
    <2>1. IsFiniteSet(Paras(g) \cup DOMAIN g.extended)
      BY <1>1, FS_Union
    <2>2. IsFiniteSet((Paras(g) \cup DOMAIN g.extended) \cup DOMAIN g.identities)
      BY <1>1, <2>1, FS_Union
    <2>3. IsFiniteSet(((Paras(g) \cup DOMAIN g.extended) \cup DOMAIN g.identities) \cup ForeignParaIds)
      BY <1>1, <2>2, FS_Union
    <2> QED
      BY <2>3 DEF ParaPool
  <1>3. Unused(ParaPool(g)) \in Nat /\ Unused(ParaPool(g)) \notin ParaPool(g)
    BY <1>2, UnusedFacts
  <1> QED
    BY <1>3, CommentAssumption DEF ParaPool

\* A new durable identifier is in no part that keeps them.
LEMMA DurablePoolFacts ==
  ASSUME NEW g, IsPackage(g)
  PROVE  /\ Unused(DurablePool(g)) \in Nat
         /\ \A p \in DOMAIN g.identities : g.identities[p] # Unused(DurablePool(g))
         /\ Unused(DurablePool(g)) \notin DOMAIN g.extensible
  <1> DEFINE f == g.identities
  <1>1. f = [x \in DOMAIN f |-> f[x]] /\ IsFiniteSet(DOMAIN f) /\ IsFiniteSet(DOMAIN g.extensible)
    BY DEF IsPackage, IsTable
  <1>2. IsFiniteSet({f[p] : p \in DOMAIN f})
    <2> HIDE DEF f
    <2>1. f \in [DOMAIN f -> {f[x] : x \in DOMAIN f}]
      BY <1>1
    <2> QED
      BY <1>1, <2>1, FiniteImage
  <1>3. IsFiniteSet(DurablePool(g))
    BY <1>1, <1>2, FS_Union DEF DurablePool
  <1>4. Unused(DurablePool(g)) \in Nat /\ Unused(DurablePool(g)) \notin DurablePool(g)
    BY <1>3, UnusedFacts
  <1> QED
    BY <1>4 DEF DurablePool

-----------------------------------------------------------------------------
(* Tables.                                                                  *)
IsWith(h, f, x, v) ==
    /\ DOMAIN h = DOMAIN f \cup {x}
    /\ h[x] = v
    /\ \A y \in DOMAIN f : y # x => h[y] = f[y]
    /\ (IsTable(f) /\ x \in Nat) => IsTable(h)

\* h is f outside S.
IsWithout(h, f, S) ==
    /\ DOMAIN h = DOMAIN f \ S
    /\ \A y \in DOMAIN f \ S : h[y] = f[y]
    /\ IsTable(f) => IsTable(h)

\* With is that, 
LEMMA WithFacts ==
  ASSUME NEW f, NEW x, NEW v
  PROVE  IsWith(With(f, x, v), f, x, v)
  <1> DEFINE h == With(f, x, v)
  <1>1. h = [y \in (DOMAIN f) \cup {x} |-> IF y = x THEN v ELSE f[y]]
    BY DEF With
  <1>2. DOMAIN h = DOMAIN f \cup {x} /\ h[x] = v /\ \A y \in DOMAIN f : y # x => h[y] = f[y]
    BY <1>1
  <1>3. h = [y \in DOMAIN h |-> h[y]]
    BY <1>1
  <1> HIDE DEF h
  <1>4. ASSUME IsTable(f), x \in Nat PROVE IsTable(h)
    <2>1. IsFiniteSet(DOMAIN f) /\ DOMAIN f \subseteq Nat
      BY <1>4 DEF IsTable
    <2>2. IsFiniteSet(DOMAIN f \cup {x})
      BY <2>1, FS_AddElement
    <2> QED
      BY <1>2, <1>3, <1>4, <2>1, <2>2 DEF IsTable
  <1> QED
    <2>1. IsWith(h, f, x, v)
      BY <1>2, <1>4 DEF IsWith
    <2> QED
      BY <2>1 DEF h

\* and Without that.
LEMMA WithoutFacts ==
  ASSUME NEW f, NEW S
  PROVE  IsWithout(Without(f, S), f, S)
  <1> DEFINE h == Without(f, S)
  <1>1. h = [y \in (DOMAIN f) \ S |-> f[y]]
    BY DEF Without
  <1>2. DOMAIN h = DOMAIN f \ S /\ \A y \in DOMAIN f \ S : h[y] = f[y]
    BY <1>1
  <1>3. h = [y \in DOMAIN h |-> h[y]]
    BY <1>1
  <1> HIDE DEF h
  <1>4. ASSUME IsTable(f) PROVE IsTable(h)
    <2>1. IsFiniteSet(DOMAIN f) /\ DOMAIN f \subseteq Nat
      BY <1>4 DEF IsTable
    <2>2. IsFiniteSet(DOMAIN f \ S)
      BY <2>1, FS_Subset
    <2> QED
      BY <1>2, <1>3, <2>1, <2>2 DEF IsTable
  <1> QED
    <2>1. IsWithout(h, f, S)
      BY <1>2, <1>4 DEF IsWithout
    <2> QED
      BY <2>1 DEF h

-----------------------------------------------------------------------------
(* What keeps the way up.                                                   *)
Keeps(g, h, D) ==
    /\ D \subseteq DOMAIN g.comments /\ D \subseteq DOMAIN h.comments
    /\ \A d \in D : g.comments[d].para # None => h.comments[d].para = g.comments[d].para
    /\ \A d \in D : IsReply(g, d) => Entered(h, d) /\ Entry(h, d).parent = Entry(g, d).parent
    /\ \A d \in D : IsReply(h, d) => IsReply(g, d)

\* Then their way up is the same.
LEMMA KeepsWay ==
  ASSUME NEW g, NEW h, NEW D, Linked(g), Linked(h), Keeps(g, h, D), ClosedUpward(g, D)
  PROVE  SameWay(g, h, D)
  <1>1. D \subseteq DOMAIN g.comments /\ D \subseteq DOMAIN h.comments
    BY DEF Keeps
  <1>2. ASSUME NEW d \in D, IsReply(g, d) PROVE IsReply(h, d) /\ Parent(h, d) = Parent(g, d)
    <2>1. Entered(h, d) /\ Entry(h, d).parent = Entry(g, d).parent
      BY <1>2 DEF Keeps
    <2>2. /\ Parent(g, d) \in D
          /\ g.comments[Parent(g, d)].para = Entry(g, d).parent /\ Entry(g, d).parent # None
      BY <1>1, <1>2, ParentFacts DEF ClosedUpward
    <2>3. Parent(g, d) \in DOMAIN h.comments /\ h.comments[Parent(g, d)].para = Entry(g, d).parent
      BY <1>1, <2>2 DEF Keeps
    <2>4. Owner(h, Entry(g, d).parent) = Parent(g, d)
      BY <2>2, <2>3, OwnerIs
    <2> QED
      BY <2>1, <2>2, <2>4 DEF IsReply, Parent
  <1> QED
    BY <1>1, <1>2 DEF SameWay, Keeps

\* The same roots, and still no circle.
LEMMA StaysReadable ==
  ASSUME NEW g, IsPackage(g), Readable(g), NEW h, IsPackage(h), Linked(h), NEW D,
         Keeps(g, h, D), ClosedUpward(g, D)
  PROVE  /\ SameWay(g, h, D)
         /\ \A c \in D : Root(h, c) = Root(g, c) /\ Root(g, c) \in D /\ ~IsReply(h, Root(h, c))
  <1>1. SameWay(g, h, D)
    BY ReadableIs, KeepsWay
  <1> QED
    BY <1>1, SameRoots

\* Of the messages of D a reader sees in h what there was in g, but for the texts
\* of those in X.
Seen(g, h, D, X) ==
    /\ SameWay(g, h, D)
    /\ \A d \in D : Root(h, d) = Root(g, d) /\ h.comments[d].author = g.comments[d].author
    /\ \A d \in D \ X : h.comments[d].text = g.comments[d].text

\* They have an entry in h if they had in g, done or not.
Settled(g, h, D) ==
    \A d \in D : /\ Entered(h, d) <=> Entered(g, d)
                 /\ Entered(g, d) => Entry(h, d).done = Entry(g, d).done

\* No message of g has another root in h.
SameThreads(g, h) ==
    \A c \in DOMAIN g.comments :
      c \in DOMAIN h.comments /\ Root(h, c) = Root(g, c) /\ Root(g, c) \in DOMAIN g.comments

\* h is a package with all the messages of g, changed in no more than the texts of
\* those in X and the entries of those in Y.
Continues(g, h, X, Y) ==
    /\ IsPackage(h) /\ Readable(h)
    /\ SameThreads(g, h)
    /\ Seen(g, h, DOMAIN g.comments, X)
    /\ Settled(g, h, DOMAIN g.comments \ Y)

\* Messages without an identifier of their paragraph are in no thread.
LEMMA NoParaNoReply ==
  ASSUME NEW g, IsPackage(g), NEW c, g.comments[c].para = None
  PROVE  ~Entered(g, c) /\ ~IsReply(g, c)
  <1>1. None \notin DOMAIN g.extended
    BY CommentAssumption DEF IsPackage, IsTable
  <1> QED
    BY <1>1 DEF IsReply, Entered

\* The package with other comments.
WithComments(g, bodies) ==
    [parts |-> g.parts, comments |-> bodies, extended |-> g.extended,
     identities |-> g.identities, extensible |-> g.extensible, elsewhere |-> g.elsewhere]

\* What a single EXCEPT writes.
LEMMA CommentsReplaced ==
  ASSUME NEW g, IsPackage(g), NEW bodies
  PROVE  [g EXCEPT !.comments = bodies] = WithComments(g, bodies)
  BY DEF IsPackage, WithComments

(* add_comment                                                              *)
LEMMA AddedPackage ==
  ASSUME NEW g, IsPackage(g), Readable(g), NEW c \in Nat, c \notin DOMAIN g.comments,
         NEW author, NEW text, NEW h,
         h = WithComments(g, With(g.comments, c, Body(author, text, None)))
  PROVE  /\ Continues(g, h, {}, {}) /\ h.parts = g.parts
         /\ DOMAIN h.comments = DOMAIN g.comments \cup {c}
         /\ Root(h, c) = c
  <1> DEFINE C == DOMAIN g.comments
             new == With(g.comments, c, Body(author, text, None))
  <1>1. h = [parts |-> g.parts, comments |-> new, extended |-> g.extended,
             identities |-> g.identities, extensible |-> g.extensible, elsewhere |-> g.elsewhere]
    BY DEF WithComments
  <1>2. DOMAIN new = C \cup {c} /\ new[c] = Body(author, text, None) /\ (\A d \in C : new[d] = g.comments[d])
        /\ IsTable(new)
    <2>1. IsWith(new, g.comments, c, Body(author, text, None))
      BY WithFacts
    <2>2. IsTable(g.comments)
      BY DEF IsPackage
    <2> HIDE DEF new
    <2> QED
      BY <2>1, <2>2 DEF IsWith
  <1> HIDE DEF new, C
  <1>3. /\ h.comments = new /\ h.extended = g.extended /\ h.identities = g.identities
        /\ h.extensible = g.extensible /\ h.parts = g.parts
    BY <1>1
  <1>4. IsBody(Body(author, text, None)) /\ Body(author, text, None).para = None
    BY DEF IsBody, Body
  <1>5. IsPackage(h)
    BY <1>1, <1>2, <1>3, <1>4 DEF IsPackage, C
  <1>6. Paras(h) = Paras(g)
    <2>1. ASSUME NEW p PROVE p \in Paras(h) <=> p \in Paras(g)
      <3>1. p \in Paras(h) <=> p # None /\ \E x \in C \cup {c} : new[x].para = p
        <4>1. p \in Paras(h) <=> p # None /\ \E x \in DOMAIN h.comments : h.comments[x].para = p
          BY ParasAre
        <4> QED
          BY <1>2, <1>3, <4>1
      <3>2. p \in Paras(g) <=> p # None /\ \E x \in C : g.comments[x].para = p
        BY ParasAre DEF C
      <3>3. new[c].para = None
        BY <1>2, <1>4
      <3> QED
        BY <1>2, <3>1, <3>2, <3>3
    <2> QED
      BY <2>1
  <1>7. Linked(g)
    BY ReadableIs
  <1>8. Linked(h)
    BY <1>2, <1>3, <1>4, <1>6, <1>7 DEF Linked, C
  <1>9. Keeps(g, h, C)
    BY <1>2, <1>3 DEF Keeps, C, IsReply, Entered, Entry
  <1>10. /\ SameWay(g, h, C)
         /\ \A d \in C : Root(h, d) = Root(g, d) /\ Root(g, d) \in C /\ ~IsReply(h, Root(h, d))
    BY <1>5, <1>7, <1>8, <1>9, LinkedIsClosed, StaysReadable DEF C
  <1>11. Root(h, c) = c /\ ~IsReply(h, c)
    BY <1>2, <1>3, <1>4, <1>5, <1>8, NoParaNoReply, RootOfNoReply
  <1>12. Readable(h)
    BY <1>2, <1>3, <1>8, <1>10, <1>11, ReadableIs
  <1>13. Seen(g, h, C, {}) /\ Settled(g, h, C)
    BY <1>2, <1>3, <1>10 DEF Seen, Settled, Entered, Entry
  <1> QED
    BY <1>2, <1>3, <1>5, <1>10, <1>11, <1>12, <1>13 DEF C, Continues, SameThreads

(* update_comment                                                           *)
LEMMA UpdatedPackage ==
  ASSUME NEW g, IsPackage(g), Readable(g), NEW c \in DOMAIN g.comments, NEW text, NEW h,
         h = WithComments(g, With(g.comments, c, [g.comments[c] EXCEPT !.text = text]))
  PROVE  /\ Continues(g, h, {c}, {}) /\ h.parts = g.parts
         /\ DOMAIN h.comments = DOMAIN g.comments
  <1> DEFINE C == DOMAIN g.comments
             body == [g.comments[c] EXCEPT !.text = text]
             new == With(g.comments, c, body)
  <1>1. h = [parts |-> g.parts, comments |-> new, extended |-> g.extended,
             identities |-> g.identities, extensible |-> g.extensible, elsewhere |-> g.elsewhere]
    BY DEF WithComments
  <1>2. IsBody(body) /\ body.para = g.comments[c].para /\ body.author = g.comments[c].author
    <2> DEFINE b == g.comments[c]
    <2>1. IsBody(b)
      BY DEF IsPackage
    <2> HIDE DEF b
    <2>2. [b EXCEPT !.text = text] = [author |-> b.author, text |-> text, para |-> b.para, plain |-> b.plain]
      BY <2>1 DEF IsBody
    <2>3. body = [b EXCEPT !.text = text]
      BY DEF b
    <2> HIDE DEF body
    <2>4. IsBody(body) /\ body.para = b.para /\ body.author = b.author
      BY <2>1, <2>2, <2>3 DEF IsBody
    <2> QED
      BY <2>4 DEF b
  <1> HIDE DEF body
  <1>3. /\ DOMAIN new = C /\ IsTable(new)
        /\ \A d \in C : /\ new[d].para = g.comments[d].para /\ new[d].author = g.comments[d].author
                        /\ IsBody(new[d])
        /\ \A d \in C : d # c => new[d].text = g.comments[d].text
    <2>1. /\ DOMAIN new = C \cup {c} /\ new[c] = body /\ (\A d \in C : d # c => new[d] = g.comments[d])
          /\ (IsTable(g.comments) /\ c \in Nat) => IsTable(new)
      <3>1. IsWith(new, g.comments, c, body)
        BY WithFacts
      <3> HIDE DEF new
      <3> QED
        BY <3>1 DEF IsWith
    <2>2. IsTable(g.comments) /\ c \in Nat /\ \A d \in C : IsBody(g.comments[d])
      BY DEF IsPackage, IsTable
    <2> HIDE DEF new
    <2> QED
      BY <1>2, <2>1, <2>2
  <1> HIDE DEF new, C
  <1>4. /\ h.comments = new /\ h.extended = g.extended /\ h.identities = g.identities
        /\ h.extensible = g.extensible /\ h.parts = g.parts
    BY <1>1
  <1>5. IsPackage(h)
    BY <1>1, <1>3, <1>4 DEF IsPackage
  <1>6. Paras(h) = Paras(g)
    <2>1. ASSUME NEW p PROVE p \in Paras(h) <=> p \in Paras(g)
      <3>1. p \in Paras(h) <=> p # None /\ \E x \in C : new[x].para = p
        <4>1. p \in Paras(h) <=> p # None /\ \E x \in DOMAIN h.comments : h.comments[x].para = p
          BY ParasAre
        <4> QED
          BY <1>3, <1>4, <4>1
      <3>2. p \in Paras(g) <=> p # None /\ \E x \in C : g.comments[x].para = p
        BY ParasAre DEF C
      <3> QED
        BY <1>3, <3>1, <3>2
    <2> QED
      BY <2>1
  <1>7. Linked(g)
    BY ReadableIs
  <1>8. Linked(h)
    BY <1>3, <1>4, <1>6, <1>7, SameLinks DEF C
  <1>9. Keeps(g, h, C)
    BY <1>3, <1>4 DEF Keeps, C, IsReply, Entered, Entry
  <1>10. /\ SameWay(g, h, C)
         /\ \A d \in C : Root(h, d) = Root(g, d) /\ Root(g, d) \in C /\ ~IsReply(h, Root(h, d))
    BY <1>5, <1>7, <1>8, <1>9, LinkedIsClosed, StaysReadable DEF C
  <1>11. Readable(h)
    BY <1>3, <1>4, <1>8, <1>10, ReadableIs
  <1>12. Seen(g, h, C, {c}) /\ Settled(g, h, C)
    BY <1>3, <1>4, <1>10 DEF Seen, Settled, Entered, Entry
  <1> QED
    BY <1>3, <1>4, <1>5, <1>10, <1>11, <1>12 DEF C, Continues, SameThreads

\* A package of these parts.
AsPackage(parts, comments, extended, identities, extensible, elsewhere) ==
    [parts |-> parts, comments |-> comments, extended |-> extended,
     identities |-> identities, extensible |-> extensible, elsewhere |-> elsewhere]

(* The entry a thread needs.                                                *)
Rooted(g, root) ==
    /\ root \in DOMAIN g.comments
    /\ g.comments[root].para # None
    /\ Entered(g, root) /\ Entry(g, root).parent = None

\* b is g with the root prepared for a thread.
Prepared(g, b, root) ==
    /\ Continues(g, b, {}, {root}) /\ Rooted(b, root)
    /\ root \in DOMAIN g.comments
    /\ DOMAIN b.comments = DOMAIN g.comments /\ b.parts = g.parts \cup {"extended"}
    /\ b.identities = g.identities /\ b.extensible = g.extensible
    /\ Entry(b, root).done = IF Entered(g, root) THEN Entry(g, root).done ELSE FALSE

\* _ensure_thread_entry leaves a readable package with the same threads, in which
\* the root has its entry.
LEMMA EnsuredPackage ==
  ASSUME NEW g, IsPackage(g), Readable(g), NEW root \in DOMAIN g.comments, ~IsReply(g, root),
         NEW h, h = EnsureThreadEntry(g, root)
  PROVE  Prepared(g, h, root)
  <1> DEFINE C == DOMAIN g.comments
             p == IF g.comments[root].para = None THEN Unused(ParaPool(g)) ELSE g.comments[root].para
             body == [g.comments[root] EXCEPT !.para = p]
             entry == IF p \in DOMAIN g.extended THEN g.extended[p] ELSE [parent |-> None, done |-> FALSE]
             cs == With(g.comments, root, body)
             ex == With(g.extended, p, entry)
  <1>1. h = AsPackage(g.parts \cup {"extended"}, cs, ex, g.identities, g.extensible, g.elsewhere)
    BY DEF EnsureThreadEntry, AsPackage
  <1>2. Linked(g)
    BY ReadableIs
  <1>3. /\ p \in Nat /\ p # None
        /\ \A d \in C : d # root => g.comments[d].para # p
        /\ p \in DOMAIN g.extended => g.extended[p].parent = None
        /\ g.comments[root].para # None => p = g.comments[root].para
        /\ g.comments[root].para = None => p \notin DOMAIN g.extended
    <2>0. g.comments[root].para \in Nat \cup {None} /\ None \notin Nat
      BY CommentAssumption DEF IsPackage, IsBody
    <2>1. CASE g.comments[root].para = None
      <3>1. p = Unused(ParaPool(g))
        BY <2>1
      <3> HIDE DEF p
      <3>2. p \in Nat /\ p # None /\ p \notin Paras(g) /\ p \notin DOMAIN g.extended
        BY <3>1, ParaPoolFacts
      <3>3. \A d \in C : g.comments[d].para # p
        BY <3>2, ParasAre
      <3> QED
        BY <2>1, <3>2, <3>3
    <2>2. CASE g.comments[root].para # None
      <3>1. p = g.comments[root].para
        BY <2>2
      <3> HIDE DEF p
      <3>2. \A d \in C : d # root => g.comments[d].para # p
        BY <2>2, <3>1, <1>2 DEF Linked
      <3>3. p \in DOMAIN g.extended => g.extended[p].parent = None
        BY <3>1 DEF IsReply, Entered, Entry
      <3> QED
        BY <2>0, <2>2, <3>1, <3>2, <3>3
    <2> QED
      BY <2>1, <2>2
  <1>4. /\ IsBody(body) /\ body.para = p
        /\ body.author = g.comments[root].author /\ body.text = g.comments[root].text
    <2> DEFINE b == g.comments[root]
    <2>1. IsBody(b)
      BY DEF IsPackage
    <2>2. body = [b EXCEPT !.para = p]
      OBVIOUS
    <2> HIDE DEF b, p
    <2>3. [b EXCEPT !.para = p] = [author |-> b.author, text |-> b.text, para |-> p, plain |-> b.plain]
      BY <2>1 DEF IsBody
    <2> HIDE DEF body
    <2>4. IsBody(body) /\ body.para = p /\ body.author = b.author /\ body.text = b.text
      BY <2>2, <2>3, <1>3 DEF IsBody
    <2> QED
      BY <2>4 DEF b
  <1>5. IsEntry(entry) /\ entry.parent = None
    <2> HIDE DEF p
    <2>1. CASE p \in DOMAIN g.extended
      BY <2>1, <1>3 DEF IsPackage
    <2>2. CASE p \notin DOMAIN g.extended
      BY <2>2 DEF IsEntry
    <2> QED
      BY <2>1, <2>2
  <1>a. entry.done = IF p \in DOMAIN g.extended THEN g.extended[p].done ELSE FALSE
    <2> HIDE DEF p
    <2> QED
      OBVIOUS
  <1>6. IsWith(cs, g.comments, root, body) /\ IsWith(ex, g.extended, p, entry)
    BY WithFacts
  <1> HIDE DEF cs, ex, body, entry, p
  <1>7. /\ h.comments = cs /\ h.extended = ex /\ h.identities = g.identities /\ h.extensible = g.extensible
        /\ IsTable(cs) /\ IsTable(ex) /\ h.parts = g.parts \cup {"extended"}
    <2>1. IsTable(g.comments) /\ IsTable(g.extended) /\ root \in Nat
      BY DEF IsPackage, IsTable
    <2> QED
      BY <1>1, <1>3, <1>6, <2>1 DEF IsWith, AsPackage
  <1>8. /\ DOMAIN cs = C /\ cs[root] = body /\ \A d \in C : d # root => cs[d] = g.comments[d]
        /\ DOMAIN ex = DOMAIN g.extended \cup {p} /\ ex[p] = entry
        /\ \A q \in DOMAIN g.extended : q # p => ex[q] = g.extended[q]
    BY <1>6 DEF IsWith
  <1>9. IsPackage(h)
    <2>1. \A d \in C : IsBody(g.comments[d])
      BY DEF IsPackage
    <2>2. \A d \in DOMAIN cs : IsBody(cs[d])
      BY <1>4, <1>8, <2>1
    <2>3. \A q \in DOMAIN g.extended : IsEntry(g.extended[q])
      BY DEF IsPackage
    <2>4. \A q \in DOMAIN ex : IsEntry(ex[q])
      BY <1>5, <1>8, <2>3
    <2>5. IsTable(g.identities) /\ IsTable(g.extensible) /\ \A q \in DOMAIN g.identities : g.identities[q] \in Nat
      BY DEF IsPackage
    <2>6. h = [parts |-> h.parts, comments |-> h.comments, extended |-> h.extended,
               identities |-> h.identities, extensible |-> h.extensible, elsewhere |-> h.elsewhere]
      BY <1>1 DEF AsPackage
    <2> QED
      BY <1>7, <2>2, <2>4, <2>5, <2>6 DEF IsPackage
  <1>10. \A d \in C : cs[d].para = IF d = root THEN p ELSE g.comments[d].para
    BY <1>4, <1>8
  <1>11. \A q : q \in Paras(g) => q \in Paras(h)
    <2> SUFFICES ASSUME NEW q, q \in Paras(g) PROVE q \in Paras(h)
      OBVIOUS
    <2>1. PICK d \in C : q # None /\ g.comments[d].para = q
      BY ParasAre
    <2>2. cs[d].para = q
      BY <1>3, <1>10, <2>1
    <2> QED
      BY <1>7, <1>8, <2>1, <2>2, ParasAre
  <1>12. Linked(h)
    <2>1. ASSUME NEW c \in C, NEW d \in C, c # d PROVE cs[c].para = None \/ cs[c].para # cs[d].para
      BY <2>1, <1>2, <1>3, <1>10 DEF Linked
    <2>2. ASSUME NEW q \in DOMAIN ex, ex[q].parent # None
          PROVE  q \in Paras(h) /\ ex[q].parent \in (Paras(h) \cap DOMAIN ex) \ {q}
      <3>1. q # p /\ q \in DOMAIN g.extended /\ ex[q] = g.extended[q]
        BY <1>5, <1>8, <2>2
      <3>2. q \in Paras(g) /\ g.extended[q].parent \in (Paras(g) \cap DOMAIN g.extended) \ {q}
        BY <1>2, <2>2, <3>1 DEF Linked
      <3> QED
        BY <1>8, <1>11, <3>1, <3>2
    <2>3. \A r, q \in DOMAIN g.identities : r # q => g.identities[r] # g.identities[q]
      BY <1>2 DEF Linked
    <2> QED
      BY <1>7, <1>8, <2>1, <2>2, <2>3 DEF Linked
  <1>13. Rooted(h, root)
    <2>1. root \in DOMAIN h.comments /\ h.comments[root].para = p /\ h.extended[p] = entry /\ p \in DOMAIN h.extended
      BY <1>7, <1>8, <1>10
    <2> QED
      BY <2>1, <1>3, <1>5 DEF Rooted, Entered, Entry
  <1>14. Keeps(g, h, C)
    <2>1. \A d \in C : g.comments[d].para # None => h.comments[d].para = g.comments[d].para
      BY <1>3, <1>7, <1>10
    <2>2. ASSUME NEW d \in C, d # root
          PROVE  /\ h.comments[d].para = g.comments[d].para
                 /\ Entered(h, d) <=> Entered(g, d)
                 /\ Entered(g, d) => Entry(h, d) = Entry(g, d)
      BY <2>2, <1>3, <1>7, <1>8, <1>10 DEF Entered, Entry
    <2>3. ~IsReply(h, root)
      BY <1>13 DEF Rooted, IsReply
    <2> QED
      BY <1>7, <1>8, <2>1, <2>2, <2>3 DEF Keeps, IsReply
  <1>15. /\ SameWay(g, h, C)
         /\ \A d \in C : Root(h, d) = Root(g, d) /\ Root(g, d) \in C /\ ~IsReply(h, Root(h, d))
    BY <1>2, <1>9, <1>12, <1>14, LinkedIsClosed, StaysReadable
  <1>16. Readable(h)
    BY <1>7, <1>8, <1>12, <1>15, ReadableIs
  <1>17. Seen(g, h, C, {}) /\ Settled(g, h, C \ {root})
    <2>1. ASSUME NEW d \in C
          PROVE  h.comments[d].author = g.comments[d].author /\ h.comments[d].text = g.comments[d].text
      BY <1>4, <1>7, <1>8
    <2>2. ASSUME NEW d \in C, d # root
          PROVE  /\ Entered(h, d) <=> Entered(g, d)
                 /\ Entered(g, d) => Entry(h, d) = Entry(g, d)
      BY <2>2, <1>3, <1>7, <1>8, <1>10 DEF Entered, Entry
    <2> QED
      BY <1>15, <2>1, <2>2 DEF Seen, Settled
  <1>18. Entry(h, root).done = IF Entered(g, root) THEN Entry(g, root).done ELSE FALSE
    <2>1. Entry(h, root) = entry
      BY <1>7, <1>8, <1>10 DEF Entry
    <2>2. None \notin DOMAIN g.extended
      BY CommentAssumption DEF IsPackage, IsTable
    <2>3. p \in DOMAIN g.extended <=> Entered(g, root)
      BY <1>3, <2>2 DEF Entered
    <2>4. Entered(g, root) => g.extended[p] = Entry(g, root)
      BY <1>3, <2>2 DEF Entered, Entry
    <2> QED
      BY <1>a, <2>1, <2>3, <2>4
  <1> QED
    BY <1>7, <1>8, <1>9, <1>13, <1>15, <1>16, <1>17, <1>18 DEF Prepared, Continues, SameThreads

(* A message more, its entry under the root's.                              *)
Replies(g, root, c, p, cs, ex, ids, exs) ==
    /\ p = Unused(ParaPool(g))
    /\ \E author, text : IsWith(cs, g.comments, c, Body(author, text, p))
    /\ IsWith(ex, g.extended, p, [parent |-> g.comments[root].para, done |-> FALSE])
    /\ ids = g.identities \/ IsWith(ids, g.identities, p, Unused(DurablePool(g)))
    /\ exs = g.extensible \/ IsWith(exs, g.extensible, Unused(DurablePool(g)), FALSE)

\* A reply is in the thread of its root, and no other message changes thread.
LEMMA RepliedPackage ==
  ASSUME NEW g, IsPackage(g), Readable(g), NEW root, Rooted(g, root),
         NEW c \in Nat, c \notin DOMAIN g.comments,
         NEW p, NEW cs, NEW ex, NEW ids, NEW exs, Replies(g, root, c, p, cs, ex, ids, exs),
         NEW parts, NEW elsewhere, NEW h, h = AsPackage(parts, cs, ex, ids, exs, elsewhere)
  PROVE  /\ Continues(g, h, {}, {}) /\ h.parts = parts
         /\ DOMAIN h.comments = DOMAIN g.comments \cup {c}
         /\ Root(h, c) = root
  <1>a. PICK author, text : IsWith(cs, g.comments, c, Body(author, text, p))
    BY DEF Replies
  <1> DEFINE C == DOMAIN g.comments
             rp == g.comments[root].para
             body == Body(author, text, p)
             entry == [parent |-> rp, done |-> FALSE]
             durable == Unused(DurablePool(g))
  <1>b. /\ p = Unused(ParaPool(g))
        /\ IsWith(ex, g.extended, p, entry)
        /\ ids = g.identities \/ IsWith(ids, g.identities, p, durable)
        /\ exs = g.extensible \/ IsWith(exs, g.extensible, durable, FALSE)
    BY DEF Replies
  <1>1. /\ h.comments = cs /\ h.extended = ex /\ h.identities = ids /\ h.extensible = exs
        /\ h.parts = parts
        /\ h = [parts |-> h.parts, comments |-> h.comments, extended |-> h.extended,
                identities |-> h.identities, extensible |-> h.extensible, elsewhere |-> h.elsewhere]
    BY DEF AsPackage
  <1>2. Linked(g)
    BY ReadableIs
  <1>3. /\ root \in C /\ rp # None /\ rp \in Nat /\ rp \in Paras(g) /\ rp \in DOMAIN g.extended
        /\ g.extended[rp].parent = None
    <2>1. root \in C /\ rp # None /\ rp \in DOMAIN g.extended /\ g.extended[rp].parent = None
      BY DEF Rooted, Entered, Entry
    <2>2. rp \in Nat
      BY <2>1 DEF IsPackage, IsBody
    <2>3. rp \in Paras(g)
      BY <2>1, ParasAre
    <2> QED
      BY <2>1, <2>2, <2>3
  <1>4. p \in Nat /\ p \notin Paras(g) /\ p \notin DOMAIN g.extended /\ p \notin DOMAIN g.identities /\ p # None
    BY <1>b, ParaPoolFacts
  <1>5. durable \in Nat /\ (\A q \in DOMAIN g.identities : g.identities[q] # durable)
    BY DurablePoolFacts
  <1>6. IsBody(body) /\ body.para = p /\ IsEntry(entry) /\ entry.parent = rp
    BY <1>3, <1>4 DEF IsBody, Body, IsEntry
  <1>7. /\ DOMAIN cs = C \cup {c} /\ cs[c] = body /\ \A d \in C : cs[d] = g.comments[d]
        /\ DOMAIN ex = DOMAIN g.extended \cup {p} /\ ex[p] = entry
        /\ \A q \in DOMAIN g.extended : ex[q] = g.extended[q]
    BY <1>4, <1>a, <1>b DEF IsWith
  <1> HIDE DEF body, entry, rp, durable
  <1>8. /\ \A q \in DOMAIN ids : ids[q] \in Nat
        /\ \A q, r \in DOMAIN ids : q # r => ids[q] # ids[r]
    <2>1. \A q \in DOMAIN g.identities : g.identities[q] \in Nat
      BY DEF IsPackage
    <2>2. \A q, r \in DOMAIN g.identities : q # r => g.identities[q] # g.identities[r]
      BY <1>2 DEF Linked
    <2>3. CASE ids = g.identities
      BY <2>1, <2>2, <2>3
    <2>4. CASE IsWith(ids, g.identities, p, durable)
      <3>1. DOMAIN ids = DOMAIN g.identities \cup {p} /\ ids[p] = durable
            /\ \A q \in DOMAIN g.identities : ids[q] = g.identities[q]
        BY <1>4, <2>4 DEF IsWith
      <3> QED
        BY <1>5, <2>1, <2>2, <3>1
    <2> QED
      BY <1>b, <2>3, <2>4
  <1>9. IsPackage(h)
    <2>1. IsTable(g.comments) /\ IsTable(g.extended) /\ IsTable(g.identities) /\ IsTable(g.extensible)
      BY DEF IsPackage
    <2>2. IsTable(cs) /\ IsTable(ex)
      BY <1>4, <1>a, <1>b, <2>1 DEF IsWith
    <2>3. IsTable(ids) /\ IsTable(exs)
      BY <1>4, <1>5, <1>b, <2>1 DEF IsWith
    <2>4. \A d \in DOMAIN cs : IsBody(cs[d])
      <3>1. \A d \in C : IsBody(g.comments[d])
        BY DEF IsPackage
      <3> QED
        BY <1>6, <1>7, <3>1
    <2>5. \A q \in DOMAIN ex : IsEntry(ex[q])
      <3>1. \A q \in DOMAIN g.extended : IsEntry(g.extended[q])
        BY DEF IsPackage
      <3> QED
        BY <1>6, <1>7, <3>1
    <2> QED
      BY <1>1, <1>8, <2>2, <2>3, <2>4, <2>5 DEF IsPackage
  <1>10. \A q : q \in Paras(g) => q \in Paras(h)
    <2> SUFFICES ASSUME NEW q, q \in Paras(g) PROVE q \in Paras(h)
      OBVIOUS
    <2>1. PICK d \in C : q # None /\ g.comments[d].para = q
      BY ParasAre
    <2>2. d \in DOMAIN h.comments /\ h.comments[d].para = q
      BY <1>1, <1>7, <2>1
    <2> QED
      BY <2>1, <2>2, ParasAre
  <1>11. p \in Paras(h)
    <2>1. c \in DOMAIN h.comments /\ h.comments[c].para = p
      BY <1>1, <1>6, <1>7
    <2> QED
      BY <1>4, <2>1, ParasAre
  <1>12. Linked(h)
    <2>0. \A d \in C : g.comments[d].para # p
      BY <1>4, ParasAre
    <2>1. ASSUME NEW d \in DOMAIN cs, NEW e \in DOMAIN cs, d # e
          PROVE  cs[d].para = None \/ cs[d].para # cs[e].para
      <3>1. CASE d = c
        BY <3>1, <2>0, <2>1, <1>6, <1>7
      <3>2. CASE e = c
        BY <3>2, <2>0, <2>1, <1>6, <1>7
      <3>3. CASE d # c /\ e # c
        BY <3>3, <2>1, <1>2, <1>7 DEF Linked
      <3> QED
        BY <3>1, <3>2, <3>3
    <2>2. ASSUME NEW q \in DOMAIN ex, ex[q].parent # None
          PROVE  q \in Paras(h) /\ ex[q].parent \in (Paras(h) \cap DOMAIN ex) \ {q}
      <3>1. CASE q = p
        <4>1. rp # p
          BY <1>3, <1>4
        <4> QED
          BY <3>1, <4>1, <1>3, <1>6, <1>7, <1>10, <1>11
      <3>2. CASE q # p
        <4>1. q \in DOMAIN g.extended /\ ex[q] = g.extended[q]
          BY <3>2, <1>7
        <4>2. q \in Paras(g) /\ g.extended[q].parent \in (Paras(g) \cap DOMAIN g.extended) \ {q}
          BY <1>2, <2>2, <4>1 DEF Linked
        <4> QED
          BY <1>7, <1>10, <4>1, <4>2
      <3> QED
        BY <3>1, <3>2
    <2> QED
      BY <1>1, <1>8, <2>1, <2>2 DEF Linked
  <1>13. Keeps(g, h, C) /\ Settled(g, h, C)
    <2>1. ASSUME NEW d \in C
          PROVE  /\ h.comments[d].para = g.comments[d].para
                 /\ Entered(h, d) <=> Entered(g, d)
                 /\ Entered(g, d) => Entry(h, d) = Entry(g, d)
      <3>1. g.comments[d].para # p
        BY <1>4, ParasAre
      <3> QED
        BY <3>1, <1>1, <1>7 DEF Entered, Entry
    <2> QED
      BY <1>1, <1>7, <2>1 DEF Keeps, IsReply, Settled
  <1>14. /\ SameWay(g, h, C)
         /\ \A d \in C : Root(h, d) = Root(g, d) /\ Root(g, d) \in C /\ ~IsReply(h, Root(h, d))
    BY <1>2, <1>9, <1>12, <1>13, LinkedIsClosed, StaysReadable
  <1>15. Root(h, c) = root /\ ~IsReply(h, root)
    <2>1. h.comments[c].para = p /\ h.comments[root].para = rp /\ c \in DOMAIN h.comments /\ root \in DOMAIN h.comments
      BY <1>1, <1>3, <1>6, <1>7 DEF rp
    <2>2. /\ Entered(h, c) /\ Entry(h, c) = entry
          /\ Entered(h, root) /\ Entry(h, root).parent = None
      BY <1>1, <1>3, <1>7, <2>1 DEF Entered, Entry
    <2>3. IsReply(h, c) /\ ~IsReply(h, root)
      BY <1>3, <1>6, <2>2 DEF IsReply
    <2>4. Parent(h, c) = root
      <3>1. Owner(h, h.comments[root].para) = root
        BY <1>3, <1>12, <2>1, OwnerIs
      <3> QED
        BY <3>1, <1>6, <2>1, <2>2 DEF Parent
    <2>5. Upward(h, c)[0] = c /\ Upward(h, c)[0 + 1] = Above(h, Upward(h, c)[0])
      <3>1. Upward(h, c)[0] = c /\ \A n \in Nat : Upward(h, c)[n + 1] = Above(h, Upward(h, c)[n])
        BY UpwardUnfolds
      <3>2. 0 \in Nat
        OBVIOUS
      <3> QED
        BY <3>1, <3>2
    <2>6. Upward(h, c)[1] = root /\ 1 \in Nat
      BY <2>3, <2>4, <2>5 DEF Above
    <2> QED
      BY <1>9, <1>12, <2>1, <2>3, <2>6, RootFound
  <1>16. Readable(h)
    BY <1>1, <1>7, <1>12, <1>14, <1>15, ReadableIs
  <1>17. Seen(g, h, C, {})
    BY <1>1, <1>7, <1>14 DEF Seen
  <1> QED
    BY <1>1, <1>7, <1>9, <1>13, <1>14, <1>15, <1>16, <1>17 DEF Continues, SameThreads

(* set_comment_resolved: an entry with another flag.                        *)
Redone(new, old, p, done) == IsWith(new, old, p, [old[p] EXCEPT !.done = done])

\* h is b with another flag in the entry of the root.
Reflagged(b, h, root) ==
    /\ Continues(b, h, {}, {root}) /\ h.parts = b.parts
    /\ DOMAIN h.comments = DOMAIN b.comments

\* It changes no thread, and how no other is resolved.
LEMMA ResolvedPackage ==
  ASSUME NEW g, IsPackage(g), Readable(g), NEW root, Rooted(g, root), NEW done,
         NEW p, p = g.comments[root].para,
         NEW ex, Redone(ex, g.extended, p, done),
         NEW h, h = AsPackage(g.parts, g.comments, ex, g.identities, g.extensible, g.elsewhere)
  PROVE  Reflagged(g, h, root)
  <1> DEFINE C == DOMAIN g.comments
             entry == [g.extended[p] EXCEPT !.done = done]
  <1>1. /\ h.comments = g.comments /\ h.extended = ex /\ h.identities = g.identities
        /\ h.extensible = g.extensible /\ h.parts = g.parts
        /\ h = [parts |-> h.parts, comments |-> h.comments, extended |-> h.extended,
                identities |-> h.identities, extensible |-> h.extensible, elsewhere |-> h.elsewhere]
    BY DEF AsPackage
  <1>2. Linked(g)
    BY ReadableIs
  <1>3. root \in C /\ p # None /\ p \in DOMAIN g.extended /\ p \in Nat
    BY DEF Rooted, Entered, IsPackage, IsTable
  <1>4. IsEntry(entry) /\ entry.parent = g.extended[p].parent
    <2> DEFINE x == g.extended[p]
    <2>1. IsEntry(x) /\ entry = [x EXCEPT !.done = done]
      BY <1>3 DEF IsPackage
    <2> HIDE DEF x, entry
    <2>2. [x EXCEPT !.done = done] = [parent |-> x.parent, done |-> done]
      BY <2>1 DEF IsEntry
    <2>3. IsEntry(entry) /\ entry.parent = x.parent
      BY <2>1, <2>2 DEF IsEntry
    <2> QED
      BY <2>3 DEF x
  <1>5. IsWith(ex, g.extended, p, entry)
    BY DEF Redone
  <1> HIDE DEF entry
  <1>6. /\ DOMAIN ex = DOMAIN g.extended
        /\ \A q \in DOMAIN ex : ex[q].parent = g.extended[q].parent /\ IsEntry(ex[q])
        /\ \A q \in DOMAIN ex : q # p => ex[q] = g.extended[q]
    <2>1. /\ DOMAIN ex = DOMAIN g.extended \cup {p} /\ ex[p] = entry
          /\ \A q \in DOMAIN g.extended : q # p => ex[q] = g.extended[q]
      BY <1>5 DEF IsWith
    <2>2. \A q \in DOMAIN g.extended : IsEntry(g.extended[q])
      BY DEF IsPackage
    <2> QED
      BY <1>3, <1>4, <2>1, <2>2
  <1>7. IsTable(ex)
    <2>1. IsTable(g.extended)
      BY DEF IsPackage
    <2> QED
      BY <1>3, <1>5, <2>1 DEF IsWith
  <1>8. IsPackage(h)
    BY <1>1, <1>6, <1>7 DEF IsPackage
  <1>9. Paras(h) = Paras(g)
    BY <1>1 DEF Paras
  <1>10. Linked(h)
    BY <1>1, <1>2, <1>6, <1>9, SameLinks
  <1>11. Keeps(g, h, C)
    BY <1>1, <1>6 DEF Keeps, IsReply, Entered, Entry
  <1>12. /\ SameWay(g, h, C)
         /\ \A d \in C : Root(h, d) = Root(g, d) /\ Root(g, d) \in C /\ ~IsReply(h, Root(h, d))
    BY <1>2, <1>8, <1>10, <1>11, LinkedIsClosed, StaysReadable
  <1>13. Readable(h)
    BY <1>1, <1>10, <1>12, ReadableIs
  <1>14. Seen(g, h, C, {})
    BY <1>1, <1>12 DEF Seen
  <1>15. Settled(g, h, C \ {root})
    <2> SUFFICES ASSUME NEW d \in C \ {root}
                 PROVE  /\ Entered(h, d) <=> Entered(g, d)
                        /\ Entered(g, d) => Entry(h, d).done = Entry(g, d).done
      BY DEF Settled
    <2>1. g.comments[d].para # p
      BY <1>2, <1>3 DEF Linked
    <2> QED
      BY <1>1, <1>6, <2>1 DEF Entered, Entry
  <1> QED
    BY <1>1, <1>8, <1>12, <1>13, <1>14, <1>15 DEF Reflagged, Continues, SameThreads

(* Deletions: nothing that stays hangs on what goes.                        *)
Detached(g, S) ==
    /\ S \subseteq DOMAIN g.comments
    /\ \A d \in (DOMAIN g.comments) \ S : IsReply(g, d) => Parent(g, d) \notin S

\* What stays after a deletion is readable and in the threads it was in.
LEMMA RemovedPackage ==
  ASSUME NEW g, IsPackage(g), Readable(g), NEW S, Detached(g, S), NEW h, h = Removed(g, S)
  PROVE  /\ IsPackage(h) /\ Readable(h)
         /\ DOMAIN h.comments = DOMAIN g.comments \ S
         /\ \A c \in DOMAIN h.comments : Root(h, c) = Root(g, c) /\ Root(g, c) \in DOMAIN h.comments
         /\ Seen(g, h, DOMAIN h.comments, {}) /\ Settled(g, h, DOMAIN h.comments) /\ h.parts = g.parts
  <1> DEFINE C == DOMAIN g.comments
             D == C \ S
             paras == {g.comments[c].para : c \in S}
             durables == {g.identities[p] : p \in paras \cap DOMAIN g.identities}
             cs == Without(g.comments, S)
             ex == Without(g.extended, paras)
             ids == Without(g.identities, paras)
             exs == Without(g.extensible, durables)
  <1>1. h = AsPackage(g.parts, cs, ex, ids, exs, g.elsewhere)
    BY DEF Removed, AsPackage
  <1>2. Linked(g) /\ ClosedUpward(g, C)
    BY ReadableIs, LinkedIsClosed
  <1>3. /\ IsWithout(cs, g.comments, S) /\ IsWithout(ex, g.extended, paras)
        /\ IsWithout(ids, g.identities, paras) /\ IsWithout(exs, g.extensible, durables)
    BY WithoutFacts
  <1>4. ASSUME NEW d \in D, g.comments[d].para # None PROVE g.comments[d].para \notin paras
    BY <1>2, <1>4 DEF Linked, Detached
  <1>5. ASSUME NEW q \in DOMAIN g.extended \ paras, q \in Paras(g)
        PROVE  \E d \in D : g.comments[d].para = q
    <2>1. PICK d \in C : g.comments[d].para = q
      BY <1>5, ParasAre
    <2> QED
      BY <2>1
  <1> HIDE DEF cs, ex, ids, exs, durables
  <1>6. /\ h.comments = cs /\ h.extended = ex /\ h.identities = ids /\ h.extensible = exs
        /\ h.parts = g.parts
        /\ h = [parts |-> h.parts, comments |-> h.comments, extended |-> h.extended,
                identities |-> h.identities, extensible |-> h.extensible, elsewhere |-> h.elsewhere]
    BY <1>1 DEF AsPackage
  <1>7. /\ DOMAIN cs = D /\ \A d \in D : cs[d] = g.comments[d]
        /\ DOMAIN ex = DOMAIN g.extended \ paras /\ \A q \in DOMAIN ex : ex[q] = g.extended[q]
        /\ DOMAIN ids = DOMAIN g.identities \ paras /\ \A q \in DOMAIN ids : ids[q] = g.identities[q]
    BY <1>3 DEF IsWithout
  <1>8. IsPackage(h)
    <2>1. IsTable(g.comments) /\ IsTable(g.extended) /\ IsTable(g.identities) /\ IsTable(g.extensible)
      BY DEF IsPackage
    <2>2. IsTable(cs) /\ IsTable(ex) /\ IsTable(ids) /\ IsTable(exs)
      BY <1>3, <2>1 DEF IsWithout
    <2> HIDE DEF paras
    <2>3. /\ \A d \in DOMAIN cs : IsBody(cs[d])
          /\ \A q \in DOMAIN ex : IsEntry(ex[q])
          /\ \A q \in DOMAIN ids : ids[q] \in Nat
      BY <1>7 DEF IsPackage
    <2> QED
      BY <1>6, <2>2, <2>3 DEF IsPackage
  <1> HIDE DEF paras
  <1>9. ClosedUpward(g, D)
    BY <1>2 DEF ClosedUpward, Detached
  <1>10. \A q : q \in Paras(h) <=> q # None /\ \E d \in D : g.comments[d].para = q
    <2> SUFFICES ASSUME NEW q PROVE q \in Paras(h) <=> q # None /\ \E d \in D : g.comments[d].para = q
      OBVIOUS
    <2>1. q \in Paras(h) <=> q # None /\ \E d \in DOMAIN h.comments : h.comments[d].para = q
      BY ParasAre
    <2> QED
      BY <1>6, <1>7, <2>1
  <1>11. Linked(h)
    <2>1. \A c, d \in D : c # d => g.comments[c].para = None \/ g.comments[c].para # g.comments[d].para
      BY <1>2 DEF Linked
    <2>2. \A q, r \in DOMAIN ids : q # r => ids[q] # ids[r]
      BY <1>2, <1>7 DEF Linked
    <2>3. ASSUME NEW q \in DOMAIN ex, ex[q].parent # None
          PROVE  q \in Paras(h) /\ ex[q].parent \in (Paras(h) \cap DOMAIN ex) \ {q}
      <3>1. q \in DOMAIN g.extended /\ q \notin paras /\ ex[q] = g.extended[q]
        BY <1>7
      <3>2. q \in Paras(g) /\ g.extended[q].parent \in (Paras(g) \cap DOMAIN g.extended) \ {q}
        BY <1>2, <2>3, <3>1 DEF Linked
      <3>3. PICK d \in D : g.comments[d].para = q
        BY <1>5, <3>1, <3>2
      <3>4. d \in C /\ IsReply(g, d) /\ Entry(g, d) = g.extended[q]
        BY <2>3, <3>1, <3>3 DEF IsReply, Entered, Entry
      <3>5. Parent(g, d) \in D
        BY <1>9, <3>4 DEF ClosedUpward
      <3>6. g.comments[Parent(g, d)].para = ex[q].parent /\ ex[q].parent # None
        BY <1>2, <2>3, <3>1, <3>4, ParentFacts
      <3>7. ex[q].parent \in Paras(h) /\ ex[q].parent \notin paras
        BY <1>4, <1>10, <3>5, <3>6
      <3>8. q \in Paras(h)
        <4>1. q # None
          BY <3>2, ParasAre
        <4> QED
          BY <1>10, <3>3, <4>1
      <3> QED
        BY <1>7, <3>1, <3>2, <3>7, <3>8
    <2> QED
      BY <1>6, <1>7, <2>1, <2>2, <2>3 DEF Linked
  <1>12. Keeps(g, h, D) /\ Settled(g, h, D)
    <2>1. ASSUME NEW d \in D
          PROVE  /\ h.comments[d].para = g.comments[d].para
                 /\ Entered(h, d) <=> Entered(g, d)
                 /\ Entered(g, d) => Entry(h, d) = Entry(g, d)
      <3>1. CASE g.comments[d].para = None
        <4>1. ~Entered(g, d)
          BY <3>1, NoParaNoReply
        <4>2. h.comments[d].para = None
          BY <1>6, <1>7, <3>1
        <4>3. ~Entered(h, d)
          BY <1>8, <4>2, NoParaNoReply
        <4> QED
          BY <3>1, <4>1, <4>2, <4>3
      <3>2. CASE g.comments[d].para # None
        <4>1. g.comments[d].para \notin paras
          BY <1>4, <3>2
        <4> QED
          BY <4>1, <1>6, <1>7 DEF Entered, Entry
      <3> QED
        BY <3>1, <3>2
    <2> QED
      BY <1>6, <1>7, <2>1 DEF Keeps, IsReply, Settled
  <1>13. /\ SameWay(g, h, D)
         /\ \A d \in D : Root(h, d) = Root(g, d) /\ Root(g, d) \in D /\ ~IsReply(h, Root(h, d))
    BY <1>8, <1>9, <1>11, <1>12, StaysReadable
  <1>14. Readable(h)
    BY <1>6, <1>7, <1>11, <1>13, ReadableIs
  <1>15. Seen(g, h, D, {})
    BY <1>6, <1>7, <1>13 DEF Seen
  <1> QED
    BY <1>6, <1>7, <1>8, <1>12, <1>13, <1>14, <1>15

-----------------------------------------------------------------------------
(* The invariant: ThreadsStayWhole, on what is well formed, and the anchors *)
(* Word left without a body are still there.                                *)
Orphaned(r) == Anchored(r.document) \ DOMAIN r.package.comments
Strange(r) == {c \in DOMAIN r.package.comments : ~Quoted(r.package, r.document, c)}

\* The package and the document are well formed, what has an anchor is a comment
\* or an orphan, the orphans are anchored still, and the anchors of each message
\* quote the same stretch as its root's, if they did in what was received.
Whole(r, g, doc) ==
    /\ r \in Received
    /\ IsPackage(g) /\ IsDocument(doc) /\ Readable(g)
    /\ Anchored(doc) \subseteq DOMAIN g.comments \cup Orphaned(r)
    /\ DOMAIN g.comments \cap Orphaned(r) = {}
    /\ Orphaned(r) \subseteq Anchored(doc)
    /\ \A c \in DOMAIN g.comments \ Strange(r) : Quoted(g, doc, c)

\* Roots are comments.
LEMMA RootIn ==
  ASSUME NEW g, IsPackage(g), Readable(g), NEW c \in DOMAIN g.comments
  PROVE  Root(g, c) \in DOMAIN g.comments /\ ~IsReply(g, Root(g, c))
  BY ReadableIs, LinkedIsClosed, RootIsAComment

\* A message keeps its quotation when the anchors of others come or go.
LEMMA QuotedKept ==
  ASSUME NEW g, NEW doc, IsDocument(doc), NEW c, Quoted(g, doc, c),
         NEW h, NEW out, IsDocument(out), NEW e, NEW K, NEW N, Carries(e, K, doc, out, N),
         c \notin N, Root(g, c) \notin N, Root(h, c) = Root(g, c)
  PROVE  Quoted(h, out, c)
  <1>1. Matches(e, doc, c, out, c) /\ Matches(e, doc, Root(g, c), out, Root(g, c))
    BY CarriedMatches
  <1>2. /\ AnchorsOf(out, c) = {} <=> AnchorsOf(doc, c) = {}
        /\ Counted(out, c) <=> Counted(doc, c)
        /\ Ordered(out, c) <=> Ordered(doc, c)
        /\ Quotation(out, c) = Quotation(doc, c)
    BY <1>1, MatchedStory
  <1>3. Quotation(out, Root(g, c)) = Quotation(doc, Root(g, c))
    BY <1>1, MatchedStory
  <1> QED
    BY <1>2, <1>3 DEF Quoted

\* The package changes, the document does not.
LEMMA WholeSameText ==
  ASSUME NEW r, NEW g, NEW doc, Whole(r, g, doc), NEW h, IsPackage(h), Readable(h),
         DOMAIN h.comments = DOMAIN g.comments, SameThreads(g, h)
  PROVE  Whole(r, h, doc)
  <1>1. \A c \in DOMAIN h.comments \ Strange(r) : Quoted(h, doc, c)
    BY DEF Whole, Quoted, SameThreads
  <1> QED
    BY <1>1 DEF Whole

\* One message more, c; the anchors of the others are carried.
LEMMA WholeWithOneMore ==
  ASSUME NEW r, NEW g, NEW doc, Whole(r, g, doc), NEW c, c = NewId(g, doc),
         NEW h, IsPackage(h), Readable(h), DOMAIN h.comments = DOMAIN g.comments \cup {c}, SameThreads(g, h),
         NEW out, IsDocument(out), NEW e, Carries(e, DOMAIN doc, doc, out, {c}),
         Quoted(h, out, c)
  PROVE  Whole(r, h, out)
  <1>1. c \in Nat /\ c \notin DOMAIN g.comments /\ c \notin Anchored(doc)
    BY NewIdFacts DEF Whole, IsDocument
  <1>2. Anchored(out) \subseteq Anchored(doc) \cup {c} /\ Anchored(doc) \subseteq Anchored(out) \cup {c}
    BY CarriedRest
  <1>3. c \notin Orphaned(r)
    BY <1>1 DEF Whole
  <1>4. ASSUME NEW d \in DOMAIN g.comments \ Strange(r) PROVE Quoted(h, out, d)
    <2>1. Root(h, d) = Root(g, d) /\ Root(g, d) \in DOMAIN g.comments /\ Quoted(g, doc, d) /\ IsDocument(doc)
      BY DEF SameThreads, Whole
    <2>2. d \notin {c} /\ Root(g, d) \notin {c}
      BY <1>1, <2>1
    <2> QED
      BY <2>1, <2>2, QuotedKept
  <1> QED
    BY <1>1, <1>2, <1>3, <1>4 DEF Whole

-----------------------------------------------------------------------------
(* The text and its places.                                                 *)
LEMMA ShownFacts ==
  ASSUME NEW doc, IsDocument(doc)
  PROVE  /\ IsSequence(Shown(doc))
         /\ \A k \in DOMAIN Shown(doc) : Shown(doc)[k] \in DOMAIN doc /\ doc[Shown(doc)[k]].tag = "text"
         /\ \A k, m \in DOMAIN Shown(doc) : k <= m => Shown(doc)[k] <= Shown(doc)[m]
         /\ DOMAIN Reading(doc) = DOMAIN Shown(doc) /\ IsSequence(Reading(doc)) /\ Len(Reading(doc)) = Len(Shown(doc))
  <1> DEFINE ids == [i \in DOMAIN doc |-> i]
             T == {i \in DOMAIN doc : doc[i].tag = "text"}
             s == Shown(doc)
             K == T \cap DOMAIN ids
  <1>1. Len(doc) \in Nat /\ DOMAIN doc = 1 .. Len(doc) /\ \A i \in DOMAIN doc : i \in Nat
    BY DocumentFacts
  <1>2. ids \in Seq(Nat)
    BY <1>1
  <1>3. /\ s \in Seq(Nat)
        /\ \E e : Takes(e, K, ids, s) /\ \A q \in DOMAIN s : \E i \in K : q = e[i]
    <2>1. Shown(doc) = Only(ids, T)
      BY DEF Shown
    <2> HIDE DEF ids, T
    <2>2. Only(ids, T) \in Seq(Nat) /\ Keeping(T, ids, Only(ids, T))
      BY <1>2, OnlyTakes
    <2> QED
      BY <2>1, <2>2 DEF Keeping
  <1>4. PICK e : Takes(e, K, ids, s) /\ \A q \in DOMAIN s : \E i \in K : q = e[i]
    BY <1>3
  <1>5. K = T /\ \A i \in K : ids[i] = i /\ i \in Nat
    BY <1>1
  <1> HIDE DEF s, K, ids
  <1>6. DOMAIN s = 1 .. Len(s) /\ Len(s) \in Nat /\ IsSequence(s)
    BY <1>3, SequenceOfAny
  <1>7. \A i \in K : e[i] \in DOMAIN s /\ s[e[i]] = i /\ e[i] \in Nat
    BY <1>4, <1>5, <1>6 DEF Takes
  <1>8. ASSUME NEW k \in DOMAIN s PROVE s[k] \in DOMAIN doc /\ doc[s[k]].tag = "text"
    BY <1>4, <1>5, <1>7
  <1>9. ASSUME NEW k \in DOMAIN s, NEW m \in DOMAIN s, k <= m PROVE s[k] <= s[m]
    <2>1. PICK i \in K : k = e[i]
      BY <1>4
    <2>2. PICK j \in K : m = e[j]
      BY <1>4
    <2>3. i \in Nat /\ j \in Nat /\ s[k] = i /\ s[m] = j
      BY <1>5, <1>7, <2>1, <2>2
    <2>4. j < i => e[j] < e[i]
      BY <1>4 DEF Takes
    <2>5. ~(e[j] < e[i])
      BY <1>7, <1>9, <2>1, <2>2
    <2> QED
      BY <2>3, <2>4, <2>5
  <1>10. Reading(doc) = [k \in DOMAIN s |-> doc[s[k]].what]
    BY DEF Reading, s
  <1>11. DOMAIN Reading(doc) = DOMAIN s /\ IsSequence(Reading(doc)) /\ Len(Reading(doc)) = Len(s)
    <2> DEFINE R == Reading(doc)
               V == {R[k] : k \in DOMAIN s}
    <2>1. DOMAIN R = 1 .. Len(s) /\ R = [k \in 1 .. Len(s) |-> R[k]]
      BY <1>6, <1>10
    <2> HIDE DEF R
    <2>2. R \in [1 .. Len(s) -> V]
      BY <1>6, <2>1
    <2> HIDE DEF V
    <2>3. R \in Seq(V) /\ Len(R) = Len(s)
      BY <1>6, <2>2
    <2> QED
      BY <1>6, <2>1, <2>3, SequenceOfAny DEF R
  <1> QED
    BY <1>6, <1>8, <1>9, <1>11 DEF s

-----------------------------------------------------------------------------
(* The words of a document.                                                 *)

\* f numbers the places K from one, in their order.
Numbers(f, K, n) ==
    /\ n \in Nat /\ K \subseteq Nat
    /\ \A i \in K : f[i] \in 1 .. n
    /\ \A i, j \in K : i < j => f[i] < f[j]
    /\ \A q \in 1 .. n : \E i \in K : q = f[i]

\* One numbering never runs behind another,
LEMMA NotBehind ==
  ASSUME NEW f, NEW g, NEW K, NEW n, NEW m, Numbers(f, K, n), Numbers(g, K, m),
         NEW x \in K, \A j \in K : j < x => f[j] = g[j]
  PROVE  ~(f[x] < g[x])
  <1> SUFFICES ASSUME f[x] < g[x] PROVE FALSE
    OBVIOUS
  <1>1. f[x] \in Nat /\ g[x] \in Nat /\ 1 <= f[x] /\ g[x] <= m /\ m \in Nat /\ x \in Nat
    BY DEF Numbers
  <1>2. f[x] \in 1 .. m
    BY <1>1
  <1>3. PICK j \in K : f[x] = g[j]
    BY <1>2 DEF Numbers
  <1>4. j \in Nat
    BY DEF Numbers
  <1>5. CASE j < x
    <2>1. f[j] = g[j] /\ f[j] < f[x]
      BY <1>5 DEF Numbers
    <2> QED
      BY <2>1, <1>1, <1>3
  <1>6. CASE j = x
    BY <1>1, <1>3, <1>6
  <1>7. CASE x < j
    <2>1. g[x] < g[j]
      BY <1>7 DEF Numbers
    <2> QED
      BY <2>1, <1>1, <1>3
  <1> QED
    BY <1>1, <1>4, <1>5, <1>6, <1>7

\* so there is one.
LEMMA OneNumbering ==
  ASSUME NEW f, NEW g, NEW K, NEW n, NEW m, Numbers(f, K, n), Numbers(g, K, m)
  PROVE  n = m /\ \A i \in K : f[i] = g[i]
  <1> DEFINE S == {i \in K : f[i] # g[i]}
  <1>1. S = {}
    <2> SUFFICES ASSUME S # {} PROVE FALSE
      OBVIOUS
    <2>1. S \subseteq Nat
      BY DEF Numbers
    <2>2. \E x \in S : \A y \in S : x <= y
      BY <2>1, LeastExists
    <2>3. PICK x \in S : \A y \in S : x <= y
      BY <2>2
    <2>4. x \in K /\ x \in Nat /\ f[x] # g[x]
      BY <2>1
    <2>5. \A j \in K : j < x => f[j] = g[j]
      <3> SUFFICES ASSUME NEW j \in K, j < x, f[j] # g[j] PROVE FALSE
        OBVIOUS
      <3>1. j \in S /\ j \in Nat
        BY <2>1
      <3>2. x <= j
        BY <2>3, <3>1
      <3> QED
        BY <2>4, <3>1, <3>2
    <2> HIDE DEF S
    <2>6. ~(f[x] < g[x])
      BY <2>4, <2>5, NotBehind
    <2>7. ~(g[x] < f[x])
      <3>1. \A j \in K : j < x => g[j] = f[j]
        BY <2>5
      <3> QED
        BY <2>4, <3>1, NotBehind
    <2>8. f[x] \in Nat /\ g[x] \in Nat
      BY <2>4 DEF Numbers
    <2> QED
      BY <2>4, <2>6, <2>7, <2>8
  <1>2. \A i \in K : f[i] = g[i]
    BY <1>1
  <1>3. n \in Nat /\ m \in Nat
    BY DEF Numbers
  <1>4. n <= m
    <2>1. CASE n = 0
      BY <1>3, <2>1
    <2>2. CASE n # 0
      <3>1. n \in 1 .. n
        BY <1>3, <2>2
      <3>2. PICK i \in K : n = f[i]
        BY <3>1 DEF Numbers
      <3>3. g[i] \in 1 .. m
        BY DEF Numbers
      <3> QED
        BY <1>2, <1>3, <3>2, <3>3
    <2> QED
      BY <2>1, <2>2
  <1>5. m <= n
    <2>1. CASE m = 0
      BY <1>3, <2>1
    <2>2. CASE m # 0
      <3>1. m \in 1 .. m
        BY <1>3, <2>2
      <3>2. PICK i \in K : m = g[i]
        BY <3>1 DEF Numbers
      <3>3. f[i] \in 1 .. n
        BY DEF Numbers
      <3> QED
        BY <1>2, <1>3, <3>2, <3>3
    <2> QED
      BY <2>1, <2>2
  <1> QED
    BY <1>2, <1>3, <1>4, <1>5

\* r is what s has at the places of A, in order.
Numbered(s, A, r) ==
    \E f : Numbers(f, A, Len(r)) /\ \A i \in A : r[f[i]] = s[i]

\* This is what Only returns.
LEMMA OnlyNumbers ==
  ASSUME NEW doc, IsDocument(doc), NEW A, A \subseteq DOMAIN doc
  PROVE  IsSequence(Only(doc, A)) /\ Numbered(doc, A, Only(doc, A))
  <1> DEFINE P == {doc[i] : i \in DOMAIN doc}
             out == Only(doc, A)
  <1>1. doc \in Seq(P) /\ A \cap DOMAIN doc = A
    BY DEF IsDocument, IsSequence
  <1>2. \A i \in DOMAIN doc : i \in Nat
    BY DocumentFacts
  <1> HIDE DEF P
  <1>3. out \in Seq(P) /\ Keeping(A, doc, out)
    BY <1>1, OnlyTakes
  <1> HIDE DEF out
  <1>4. PICK f : Takes(f, A, doc, out) /\ \A q \in DOMAIN out : \E i \in A : q = f[i]
    BY <1>1, <1>3 DEF Keeping
  <1>5. Len(out) \in Nat /\ DOMAIN out = 1 .. Len(out) /\ IsSequence(out)
    BY <1>3, SequenceOfAny
  <1>6. Numbers(f, A, Len(out)) /\ \A i \in A : out[f[i]] = doc[i]
    BY <1>2, <1>4, <1>5 DEF Numbers, Takes
  <1> QED
    BY <1>5, <1>6 DEF out, Numbered

\* What is carried reads the same.
LEMMA SameOnly ==
  ASSUME NEW doc, IsDocument(doc), NEW out, IsDocument(out), NEW e, NEW K, Takes(e, K, doc, out),
         NEW A, A \subseteq K, NEW B, B = {e[i] : i \in A}
  PROVE  Only(out, B) = Only(doc, A)
  <1> DEFINE r == Only(doc, A)
             s == Only(out, B)
  <1>1. /\ K \subseteq DOMAIN doc
        /\ \A i \in K : e[i] \in DOMAIN out /\ e[i] \in Nat /\ i \in Nat /\ out[e[i]] = doc[i]
        /\ \A i, j \in K : (i < j <=> e[i] < e[j]) /\ (e[i] = e[j] => i = j)
    BY TakesFacts
  <1>2. A \subseteq DOMAIN doc /\ B \subseteq DOMAIN out /\ A \subseteq Nat
    BY <1>1
  <1>3. IsSequence(r) /\ IsSequence(s) /\ Numbered(doc, A, r) /\ Numbered(out, B, s)
    BY <1>2, OnlyNumbers
  <1> HIDE DEF r, s
  <1>4. PICK f : Numbers(f, A, Len(r)) /\ \A i \in A : r[f[i]] = doc[i]
    BY <1>3 DEF Numbered
  <1>5. PICK g : Numbers(g, B, Len(s)) /\ \A i \in B : s[g[i]] = out[i]
    BY <1>3 DEF Numbered
  <1> DEFINE h == [i \in A |-> g[e[i]]]
             n == Len(s)
  <1>6. \A i \in A : h[i] = g[e[i]] /\ e[i] \in B /\ i \in K
    OBVIOUS
  <1> HIDE DEF h
  <1>7. Numbers(h, A, n)
    <2>1. n \in Nat /\ A \subseteq Nat
      BY <1>2, <1>5 DEF Numbers
    <2>2. \A i \in A : h[i] \in 1 .. n
      BY <1>5, <1>6 DEF Numbers
    <2>3. ASSUME NEW i \in A, NEW j \in A, i < j PROVE h[i] < h[j]
      <3>1. e[i] < e[j] /\ e[i] \in B /\ e[j] \in B
        BY <1>1, <1>6, <2>3
      <3>2. g[e[i]] < g[e[j]]
        BY <1>5, <3>1 DEF Numbers
      <3> QED
        BY <1>6, <3>2
    <2>4. ASSUME NEW q \in 1 .. n PROVE \E i \in A : q = h[i]
      <3>1. PICK b \in B : q = g[b]
        BY <1>5 DEF Numbers
      <3>2. PICK i \in A : b = e[i]
        OBVIOUS
      <3> QED
        BY <1>6, <3>1, <3>2
    <2> QED
      BY <2>1, <2>2, <2>3, <2>4 DEF Numbers
  <1>8. Len(r) = n /\ \A i \in A : f[i] = h[i]
    BY <1>4, <1>7, OneNumbering
  <1>9. DOMAIN r = 1 .. n /\ DOMAIN s = 1 .. n
    BY <1>3, <1>8, SequenceFacts
  <1>10. ASSUME NEW q \in 1 .. n PROVE r[q] = s[q]
    <2>1. PICK i \in A : q = f[i]
      BY <1>4, <1>8 DEF Numbers
    <2>2. r[q] = doc[i] /\ s[q] = out[e[i]] /\ doc[i] = out[e[i]]
      BY <1>1, <1>4, <1>5, <1>6, <1>8, <2>1
    <2> QED
      BY <2>2
  <1>11. r = [q \in 1 .. n |-> r[q]] /\ s = [q \in 1 .. n |-> s[q]]
    BY <1>3, <1>9 DEF IsSequence
  <1>12. r = s
    BY <1>10, <1>11
  <1> QED
    BY <1>12 DEF r, s

\* The text without the anchors, and with those of a message that is not
\* concerned, reads as it did.
LEMMA SameText ==
  ASSUME NEW doc, IsDocument(doc), NEW out, IsDocument(out), NEW e, NEW K, NEW N, Carries(e, K, doc, out, N)
  PROVE  /\ Unanchored(out, Anchored(out)) = Unanchored(doc, Anchored(doc))
         /\ \A c : c \notin N => Quote(out, c) = Quote(doc, c)
  <1>1. /\ K \subseteq DOMAIN doc
        /\ \A i \in K : e[i] \in DOMAIN out /\ out[e[i]] = doc[i]
    BY TakesFacts DEF Carries
  <1>2. /\ \A i \in DOMAIN doc \ K : IsAnchor(doc[i], N)
        /\ \A q \in DOMAIN out : (\E i \in K : q = e[i]) \/ IsAnchor(out[q], N)
        /\ Takes(e, K, doc, out)
    BY DEF Carries
  <1>3. ASSUME NEW d, IsDocument(d), NEW i \in DOMAIN d
        PROVE  IsAnchor(d[i], Anchored(d)) <=> d[i].tag \in AnchorTags
    BY DEF IsAnchor, Anchored
  <1>4. Unanchored(out, Anchored(out)) = Unanchored(doc, Anchored(doc))
    <2> DEFINE A == {i \in DOMAIN doc : ~IsAnchor(doc[i], Anchored(doc))}
               B == {i \in DOMAIN out : ~IsAnchor(out[i], Anchored(out))}
    <2>1. A = {i \in DOMAIN doc : doc[i].tag \notin AnchorTags} /\ B = {i \in DOMAIN out : out[i].tag \notin AnchorTags}
      BY <1>3
    <2> HIDE DEF A, B
    <2>2. A \subseteq K
      BY <1>2, <2>1 DEF IsAnchor
    <2>3. B = {e[i] : i \in A}
      <3>1. \A q \in B : \E i \in A : q = e[i]
        BY <1>1, <1>2, <2>1 DEF IsAnchor
      <3>2. \A i \in A : e[i] \in B
        BY <1>1, <2>1, <2>2
      <3> QED
        BY <3>1, <3>2
    <2>4. Only(out, B) = Only(doc, A)
      BY <1>2, <2>2, <2>3, SameOnly
    <2> QED
      BY <2>4 DEF A, B, Unanchored
  <1>5. ASSUME NEW c, c \notin N PROVE Quote(out, c) = Quote(doc, c)
    <2> DEFINE A == {i \in DOMAIN doc : doc[i].tag = "text" \/ IsAnchor(doc[i], {c})}
               B == {i \in DOMAIN out : out[i].tag = "text" \/ IsAnchor(out[i], {c})}
    <2>1. "text" \notin AnchorTags
      BY DEF AnchorTags
    <2>2. A \subseteq K
      BY <1>2, <1>5, <2>1 DEF IsAnchor
    <2>3. B = {e[i] : i \in A}
      <3>1. \A q \in B : \E i \in A : q = e[i]
        BY <1>1, <1>2, <1>5, <2>1 DEF IsAnchor
      <3>2. \A i \in A : e[i] \in B
        BY <1>1, <2>2
      <3> QED
        BY <3>1, <3>2
    <2> HIDE DEF A, B
    <2>4. Only(out, B) = Only(doc, A)
      BY <1>2, <2>2, <2>3, SameOnly
    <2> QED
      BY <2>4 DEF A, B, Quote
  <1> QED
    BY <1>4, <1>5

-----------------------------------------------------------------------------
(* An operation is local.                                                   *)

\* The text without anchors, and with those of a message that is not in N.
SameWords(doc, out, N) ==
    /\ Unanchored(out, Anchored(out)) = Unanchored(doc, Anchored(doc))
    /\ \A c : c \notin N => Quote(out, c) = Quote(doc, c)

\* What is seen of a message, but for its text.
LEMMA SeenMessage ==
  ASSUME NEW g, NEW h, NEW D, NEW X, Seen(g, h, D, X), NEW doc, NEW out, NEW N, SameWords(doc, out, N),
         NEW c \in D, c \notin N
  PROVE  /\ Message(h, out, c) = [Message(g, doc, c) EXCEPT !.text = h.comments[c].text]
         /\ c \notin X => Message(h, out, c) = Message(g, doc, c)
  <1> DEFINE parent(k) == IF IsReply(k, c) THEN Parent(k, c) ELSE None
  <1>1. /\ h.comments[c].author = g.comments[c].author /\ Root(h, c) = Root(g, c)
        /\ Quote(out, c) = Quote(doc, c)
        /\ c \notin X => h.comments[c].text = g.comments[c].text
    BY DEF Seen, SameWords
  <1>2. parent(h) = parent(g)
    BY DEF Seen, SameWay
  <1> DEFINE told(k, d) == [author |-> k.comments[c].author, text |-> k.comments[c].text, root |-> Root(k, c),
                            parent |-> parent(k), quote |-> Quote(d, c)]
  <1>3. Message(h, out, c) = told(h, out) /\ Message(g, doc, c) = told(g, doc)
    BY DEF Message
  <1> HIDE DEF parent
  <1>4. told(h, out) = [told(g, doc) EXCEPT !.text = h.comments[c].text]
    BY <1>1, <1>2
  <1>5. c \notin X => told(h, out) = told(g, doc)
    BY <1>1, <1>2
  <1> QED
    BY <1>3, <1>4, <1>5

\* A thread whose root keeps its entry is resolved as it was, as far as one can tell.
LEMMA StaysResolved ==
  ASSUME NEW g, NEW h, NEW c, Root(h, c) = Root(g, c), NEW D, Settled(g, h, D), Root(g, c) \in D,
         h.parts = g.parts \/ h.parts = g.parts \cup {"extended"}
  PROVE  Resolved(h, c) = Resolved(g, c) \/ ("extended" \notin g.parts /\ Resolved(h, c) = None)
  <1> DEFINE root == Root(g, c)
  <1>1. (Entered(h, root) <=> Entered(g, root)) /\ (Entered(g, root) => Entry(h, root).done = Entry(g, root).done)
    BY DEF Settled
  <1>2. /\ Resolved(g, c) = IF Entered(g, root) THEN Entry(g, root).done
                            ELSE IF "extended" \in g.parts THEN None ELSE FALSE
        /\ Resolved(h, c) = IF Entered(h, root) THEN Entry(h, root).done
                            ELSE IF "extended" \in h.parts THEN None ELSE FALSE
    BY DEF Resolved
  <1> HIDE DEF root
  <1> QED
    BY <1>1, <1>2

\* The messages of one state are seen in the next.
LEMMA SeenCompose ==
  ASSUME NEW g, NEW b, NEW h, NEW Y, NEW Z, DOMAIN b.comments = DOMAIN g.comments,
         Continues(g, b, {}, Y), Continues(b, h, {}, Z)
  PROVE  /\ SameThreads(g, h)
         /\ Seen(g, h, DOMAIN g.comments, {})
         /\ Settled(g, h, DOMAIN g.comments \ (Y \cup Z))
  <1> DEFINE C == DOMAIN g.comments
  <1>1. Seen(g, b, C, {}) /\ Seen(b, h, C, {}) /\ Settled(g, b, C \ Y) /\ Settled(b, h, C \ Z)
    BY DEF Continues
  <1>2. SameThreads(g, h)
    BY DEF Continues, SameThreads
  <1> HIDE DEF C
  <1>3. SameWay(g, b, C) /\ SameWay(b, h, C)
    BY <1>1 DEF Seen
  <1>4. SameWay(g, h, C)
    BY <1>3 DEF SameWay
  <1>5. /\ \A d \in C : Root(h, d) = Root(g, d) /\ h.comments[d].author = g.comments[d].author
        /\ \A d \in C : h.comments[d].text = g.comments[d].text
    BY <1>1 DEF Seen
  <1>6. Seen(g, h, C, {})
    BY <1>4, <1>5 DEF Seen
  <1>7. Settled(g, h, C \ (Y \cup Z))
    BY <1>1 DEF Settled
  <1> QED
    BY <1>2, <1>6, <1>7 DEF C

\* All messages stay.
LEMMA ContinuesLocal ==
  ASSUME NEW g, NEW h, NEW doc, NEW out, NEW N, SameWords(doc, out, N), DOMAIN g.comments \cap N = {},
         DOMAIN g.comments \subseteq DOMAIN h.comments,
         NEW X, Seen(g, h, DOMAIN g.comments, X),
         NEW op, X = {} \/ (X = {op.comment} /\ op.kind = "update"), X = {} => op.kind # "update",
         \A c \in DOMAIN g.comments : StillResolved(g, h, op, c)
  PROVE  Local(g, doc, h, out, op)
  <1>1. ASSUME NEW c \in DOMAIN g.comments PROVE Unchanged(g, doc, h, out, op, c)
    <2>1. /\ Message(h, out, c) = [Message(g, doc, c) EXCEPT !.text = h.comments[c].text]
          /\ c \notin X => Message(h, out, c) = Message(g, doc, c)
      BY SeenMessage
    <2>2. (op.kind = "update" /\ op.comment = c) <=> c \in X
      OBVIOUS
    <2>3. (op.kind = "update" /\ op.comment = c) =>
            Message(h, out, c) = [Message(g, doc, c) EXCEPT !.text = h.comments[c].text]
      BY <2>1
    <2>4. ~(op.kind = "update" /\ op.comment = c) => Message(h, out, c) = Message(g, doc, c)
      BY <2>1, <2>2
    <2> QED
      BY <2>3, <2>4 DEF Unchanged
  <1>2. DOMAIN g.comments \ DOMAIN h.comments = {} /\ DOMAIN g.comments \cap DOMAIN h.comments = DOMAIN g.comments
    OBVIOUS
  <1> QED
    BY <1>1, <1>2 DEF Local, SameWords

\* Some are gone, and everything of them.
LEMMA RemovedLocal ==
  ASSUME NEW g, NEW h, NEW doc, NEW out, NEW S, SameWords(doc, out, S),
         DOMAIN h.comments = DOMAIN g.comments \ S,
         Seen(g, h, DOMAIN h.comments, {}), Settled(g, h, DOMAIN h.comments), h.parts = g.parts,
         \A c \in DOMAIN h.comments : Root(g, c) \in DOMAIN h.comments,
         NEW op, op.kind = "delete", \A c \in S : g.comments[c].author = op.author
  PROVE  Local(g, doc, h, out, op)
  <1> DEFINE D == DOMAIN h.comments
  <1>1. DOMAIN g.comments \cap D = D /\ DOMAIN g.comments \ D \subseteq S
    OBVIOUS
  <1>2. ASSUME NEW c \in D PROVE Unchanged(g, doc, h, out, op, c)
    <2>1. c \notin S /\ op.kind # "update"
      OBVIOUS
    <2>2. Message(h, out, c) = Message(g, doc, c)
      BY <2>1, SeenMessage
    <2> QED
      BY <2>1, <2>2 DEF Unchanged
  <1>3. ASSUME NEW c \in D PROVE StillResolved(g, h, op, c)
    <2>1. Root(h, c) = Root(g, c) /\ Root(g, c) \in D
      BY DEF Seen
    <2>2. Resolved(h, c) = Resolved(g, c) \/ ("extended" \notin g.parts /\ Resolved(h, c) = None)
      BY <2>1, StaysResolved
    <2> QED
      BY <2>2 DEF StillResolved
  <1> HIDE DEF D
  <1> QED
    BY <1>1, <1>2, <1>3 DEF Local, SameWords, D

-----------------------------------------------------------------------------
(* The operations.                                                          *)

\* What an operation leaves is whole and differs where it may.
Safe(r, g, doc, left, op) ==
    Whole(r, left.package, left.document) /\ Local(g, doc, left.package, left.document, op)

\* Anchors of N come or go: the words are the same.
LEMMA CarriedWords ==
  ASSUME NEW doc, IsDocument(doc), NEW out, IsDocument(out), NEW e, NEW K, NEW N, Carries(e, K, doc, out, N)
  PROVE  SameWords(doc, out, N)
  BY SameText DEF SameWords

\* add_comment
LEMMA AddSafe ==
  ASSUME NEW r, NEW g, NEW doc, Whole(r, g, doc), NEW quote, Len(quote) \in Nat \ {0},
         NEW author, NEW text, NEW left \in AddComment(g, doc, quote, author, text),
         NEW op, op.kind = "add"
  PROVE  Safe(r, g, doc, left, op)
  <1> DEFINE hits == Occurrences(Reading(doc), quote)
             c == NewId(g, doc)
             span(k) == <<Shown(doc)[k], Shown(doc)[k + Len(quote) - 1]>>
             bodies == With(g.comments, c, Body(author, text, None))
  <1>0. IsPackage(g) /\ Readable(g) /\ IsDocument(doc) /\ Anchored(doc) \subseteq Nat
    BY DEF Whole, IsDocument
  <1>1. PICK k \in hits : left = Left([g EXCEPT !.comments = With(@, c, Body(author, text, None))],
                                      Marked(doc, span(k)[1], span(k)[2], c))
    BY DEF AddComment
  <1>2. [g EXCEPT !.comments = With(@, c, Body(author, text, None))] = WithComments(g, bodies)
    <2>1. [g EXCEPT !.comments = With(@, c, Body(author, text, None))] = [g EXCEPT !.comments = bodies]
      OBVIOUS
    <2> HIDE DEF bodies
    <2>2. [g EXCEPT !.comments = bodies] = WithComments(g, bodies)
      BY <1>0, CommentsReplaced
    <2> QED
      BY <2>1, <2>2
  <1> DEFINE lo == Shown(doc)[k]
             hi == Shown(doc)[k + Len(quote) - 1]
             h == WithComments(g, bodies)
             out == Marked(doc, lo, hi, c)
  <1>3. left.package = h /\ left.document = out
    BY <1>1, <1>2 DEF Left
  <1>4. lo \in DOMAIN doc /\ hi \in DOMAIN doc /\ lo <= hi
    <2> DEFINE m == k + Len(quote) - 1
    <2>1. k \in 1 .. (Len(Reading(doc)) + 1 - Len(quote))
      BY DEF Occurrences
    <2>2. /\ IsSequence(Shown(doc)) /\ Len(Reading(doc)) = Len(Shown(doc))
          /\ Len(Shown(doc)) \in Nat /\ DOMAIN Shown(doc) = 1 .. Len(Shown(doc))
      BY <1>0, ShownFacts, SequenceFacts
    <2>3. k \in Nat /\ m \in Nat /\ k \in DOMAIN Shown(doc) /\ m \in DOMAIN Shown(doc) /\ k <= m
      BY <2>1, <2>2
    <2> HIDE DEF m
    <2>4. lo \in DOMAIN doc /\ Shown(doc)[m] \in DOMAIN doc /\ lo <= Shown(doc)[m]
      BY <1>0, <2>3, ShownFacts
    <2> QED
      BY <2>4 DEF m
  <1> HIDE DEF lo, hi, c, bodies
  <1>5. c \in Nat /\ c \notin DOMAIN g.comments /\ c \notin Anchored(doc)
    BY <1>0, NewIdFacts DEF c
  <1>6. /\ IsPackage(h) /\ Readable(h)
        /\ DOMAIN h.comments = DOMAIN g.comments \cup {c}
        /\ Root(h, c) = c
        /\ SameThreads(g, h) /\ Continues(g, h, {}, {}) /\ h.parts = g.parts
    <2>1. h = WithComments(g, With(g.comments, c, Body(author, text, None)))
      BY DEF bodies
    <2> HIDE DEF h
    <2> QED
      BY <1>0, <1>5, <2>1, AddedPackage DEF Continues
  <1> HIDE DEF h
  <1>7. IsDocument(out) /\ \E e, s, t : Carries(e, DOMAIN doc, doc, out, {c}) /\ MarksAt(s, t, e, doc, out, lo, hi, c)
    BY <1>0, <1>4, <1>5, MarkedCarries
  <1>8. PICK e, s, t : Carries(e, DOMAIN doc, doc, out, {c}) /\ MarksAt(s, t, e, doc, out, lo, hi, c)
    BY <1>7
  <1> HIDE DEF out
  <1>9. Counted(out, c) /\ Ordered(out, c)
    BY <1>0, <1>4, <1>5, <1>7, <1>8, MarkedStory
  <1>10. Quoted(h, out, c)
    BY <1>6, <1>9 DEF Quoted
  <1>11. Whole(r, h, out)
    BY <1>6, <1>7, <1>8, <1>10, WholeWithOneMore DEF c
  <1>12. Local(g, doc, h, out, op)
    <2>1. SameWords(doc, out, {c})
      BY <1>0, <1>7, <1>8, CarriedWords
    <2>2. Seen(g, h, DOMAIN g.comments, {}) /\ Settled(g, h, DOMAIN g.comments)
      BY <1>6 DEF Continues
    <2>3. ASSUME NEW d \in DOMAIN g.comments PROVE StillResolved(g, h, op, d)
      <3>1. Root(h, d) = Root(g, d) /\ Root(g, d) \in DOMAIN g.comments
        BY <1>6 DEF SameThreads
      <3>2. Resolved(h, d) = Resolved(g, d) \/ ("extended" \notin g.parts /\ Resolved(h, d) = None)
        BY <1>6, <2>2, <3>1, StaysResolved
      <3> QED
        BY <3>2 DEF StillResolved
    <2>4. DOMAIN g.comments \cap {c} = {} /\ op.kind # "update"
      BY <1>5
    <2> QED
      BY <1>6, <2>1, <2>2, <2>3, <2>4, ContinuesLocal
  <1> QED
    BY <1>3, <1>11, <1>12 DEF Safe

\* update_comment changes a body.
LEMMA UpdateSafe ==
  ASSUME NEW r, NEW g, NEW doc, Whole(r, g, doc), NEW c \in DOMAIN g.comments,
         NEW author, NEW text, NEW left \in UpdateComment(g, doc, c, author, text),
         NEW op, op.kind = "update", op.comment = c
  PROVE  Safe(r, g, doc, left, op)
  <1> DEFINE bodies == With(g.comments, c, [g.comments[c] EXCEPT !.text = text])
             h == WithComments(g, bodies)
  <1>0. IsPackage(g) /\ Readable(g)
    BY DEF Whole
  <1>1. left = Left([g EXCEPT !.comments = With(@, c, [g.comments[c] EXCEPT !.text = text])], doc)
    BY DEF UpdateComment
  <1>2. [g EXCEPT !.comments = With(@, c, [g.comments[c] EXCEPT !.text = text])] = h
    <2>1. [g EXCEPT !.comments = With(@, c, [g.comments[c] EXCEPT !.text = text])] = [g EXCEPT !.comments = bodies]
      OBVIOUS
    <2> HIDE DEF bodies
    <2>2. [g EXCEPT !.comments = bodies] = WithComments(g, bodies)
      BY <1>0, CommentsReplaced
    <2> QED
      BY <2>1, <2>2
  <1>3. left.package = h /\ left.document = doc
    BY <1>1, <1>2 DEF Left
  <1>4. DOMAIN h.comments = DOMAIN g.comments /\ Continues(g, h, {c}, {}) /\ h.parts = g.parts
    <2>1. h = WithComments(g, With(g.comments, c, [g.comments[c] EXCEPT !.text = text]))
      OBVIOUS
    <2> HIDE DEF h
    <2> QED
      BY <1>0, <2>1, UpdatedPackage
  <1> HIDE DEF h
  <1>5. Whole(r, h, doc)
    BY <1>4, WholeSameText DEF Continues
  <1>6. Local(g, doc, h, doc, op)
    <2>1. SameWords(doc, doc, {})
      BY DEF SameWords
    <2>2. Seen(g, h, DOMAIN g.comments, {c}) /\ Settled(g, h, DOMAIN g.comments)
      BY <1>4 DEF Continues
    <2>3. ASSUME NEW d \in DOMAIN g.comments PROVE StillResolved(g, h, op, d)
      <3>1. Root(h, d) = Root(g, d) /\ Root(g, d) \in DOMAIN g.comments
        BY <1>4 DEF Continues, SameThreads
      <3>2. Resolved(h, d) = Resolved(g, d) \/ ("extended" \notin g.parts /\ Resolved(h, d) = None)
        BY <1>4, <2>2, <3>1, StaysResolved
      <3> QED
        BY <3>2 DEF StillResolved
    <2>4. {c} # {}
      OBVIOUS
    <2> QED
      BY <1>4, <2>1, <2>2, <2>3, <2>4, ContinuesLocal
  <1> QED
    BY <1>3, <1>5, <1>6 DEF Safe

\* As the operations prepare the root of a message.
LEMMA RootEnsured ==
  ASSUME NEW g, IsPackage(g), Readable(g), NEW c \in DOMAIN g.comments,
         NEW root, root = Root(g, c), NEW base, base = EnsureThreadEntry(g, root)
  PROVE  Prepared(g, base, root)
  <1>1. root \in DOMAIN g.comments /\ ~IsReply(g, root)
    BY RootIn
  <1> QED
    BY <1>1, EnsuredPackage

\* reply_comment mirrors the root's anchors.
LEMMA ReplySafe ==
  ASSUME NEW r, NEW g, NEW doc, Whole(r, g, doc), NEW c \in DOMAIN g.comments,
         NEW author, NEW text, NEW left \in ReplyComment(g, doc, c, author, text),
         NEW op, op.kind = "reply", op.comment = c
  PROVE  Safe(r, g, doc, left, op)
  <1> DEFINE root == Root(g, c)
             base == EnsureThreadEntry(g, root)
             para == Unused(ParaPool(base))
             durable == Unused(DurablePool(base))
             reply == NewId(g, doc)
             known == "identities" \in g.parts
             cs == With(base.comments, reply, Body(author, text, para))
             ex == With(base.extended, para, [parent |-> base.comments[root].para, done |-> FALSE])
             ids == IF known THEN With(g.identities, para, durable) ELSE g.identities
             exs == IF known /\ "extensible" \in g.parts THEN With(g.extensible, durable, FALSE)
                    ELSE g.extensible
             h == AsPackage(base.parts, cs, ex, ids, exs, base.elsewhere)
             out == Mirrored(doc, root, reply)
  <1>0. IsPackage(g) /\ Readable(g) /\ IsDocument(doc) /\ Anchored(doc) \subseteq Nat
    BY DEF Whole, IsDocument
  <1>1. left.package = h /\ left.document = out /\ Sound(doc, root, {author})
    <2>1. Sound(doc, root, {author}) /\ left = Left(h, out)
      BY DEF ReplyComment, AsPackage
    <2> HIDE DEF h, out, root
    <2> QED
      BY <2>1 DEF Left
  <1>2. /\ Continues(g, base, {}, {root}) /\ IsPackage(base) /\ Readable(base) /\ Rooted(base, root)
        /\ root \in DOMAIN g.comments
        /\ DOMAIN base.comments = DOMAIN g.comments /\ base.parts = g.parts \cup {"extended"}
        /\ base.identities = g.identities /\ base.extensible = g.extensible
        /\ Entry(base, root).done = IF Entered(g, root) THEN Entry(g, root).done ELSE FALSE
    <2> HIDE DEF root, base
    <2>1. root = Root(g, c) /\ base = EnsureThreadEntry(g, root)
      BY DEF root, base
    <2>2. Prepared(g, base, root)
      BY <1>0, <2>1, RootEnsured
    <2> QED
      BY <2>2 DEF Prepared, Continues
  <1>3. reply \in Nat /\ reply \notin DOMAIN g.comments /\ reply \notin Anchored(doc)
    BY <1>0, NewIdFacts
  <1>4. /\ IsWith(cs, base.comments, reply, Body(author, text, para))
        /\ IsWith(ex, base.extended, para, [parent |-> base.comments[root].para, done |-> FALSE])
        /\ IsWith(With(g.identities, para, durable), g.identities, para, durable)
        /\ IsWith(With(g.extensible, durable, FALSE), g.extensible, durable, FALSE)
    BY WithFacts
  <1>5. /\ ids = base.identities \/ IsWith(ids, base.identities, para, durable)
        /\ exs = base.extensible \/ IsWith(exs, base.extensible, durable, FALSE)
    <2>1. ids = g.identities \/ ids = With(g.identities, para, durable)
      OBVIOUS
    <2>2. exs = g.extensible \/ exs = With(g.extensible, durable, FALSE)
      OBVIOUS
    <2> HIDE DEF ids, exs, base, para, durable
    <2> QED
      BY <1>2, <1>4, <2>1, <2>2
  <1>6. para = Unused(ParaPool(base)) /\ durable = Unused(DurablePool(base))
    OBVIOUS
  <1>7. h = AsPackage(base.parts, cs, ex, ids, exs, base.elsewhere)
    OBVIOUS
  <1> HIDE DEF h, ids, exs, cs, ex, para, durable, base, root
  <1>8. /\ Continues(base, h, {}, {}) /\ h.parts = base.parts
        /\ DOMAIN h.comments = DOMAIN base.comments \cup {reply}
        /\ Root(h, reply) = root
    <2>1. reply \notin DOMAIN base.comments
      BY <1>2, <1>3
    <2>2. Replies(base, root, reply, para, cs, ex, ids, exs)
      BY <1>4, <1>5, <1>6 DEF Replies
    <2> HIDE DEF reply
    <2> QED
      BY <1>2, <1>3, <1>7, <2>1, <2>2, RepliedPackage
  <1>9. /\ SameThreads(g, h) /\ Seen(g, h, DOMAIN g.comments, {})
        /\ Settled(g, h, DOMAIN g.comments \ ({root} \cup {}))
        /\ IsPackage(h) /\ Readable(h)
    BY <1>2, <1>8, SeenCompose DEF Continues
  <1> HIDE DEF reply
  <1>10. IsDocument(out) /\ \E e, f : Carries(e, DOMAIN doc, doc, out, {reply}) /\ Copies(f, e, doc, out, root, reply)
    BY <1>0, <1>3, MirroredCarries
  <1>11. PICK e, f : Carries(e, DOMAIN doc, doc, out, {reply}) /\ Copies(f, e, doc, out, root, reply)
    BY <1>10
  <1> HIDE DEF out
  <1>12. Matches(f, doc, root, out, reply)
    BY <1>0, <1>3, <1>10, <1>11, MirroredMatches
  <1>13. Quotation(out, root) = Quotation(doc, root)
    <2>1. root \notin {reply}
      BY <1>2, <1>3
    <2>2. Matches(e, doc, root, out, root)
      BY <1>0, <1>10, <1>11, <2>1, CarriedMatches
    <2> QED
      BY <1>0, <2>2, MatchedStory
  <1>14. Counted(out, reply) /\ Ordered(out, reply) /\ Quotation(out, reply) = Quotation(doc, root)
    BY <1>0, <1>1, <1>12, MatchedStory DEF Sound
  <1>15. Quoted(h, out, reply)
    BY <1>8, <1>13, <1>14 DEF Quoted
  <1>16. Whole(r, h, out)
    <2>1. DOMAIN h.comments = DOMAIN g.comments \cup {reply}
      BY <1>2, <1>8
    <2> QED
      BY <2>1, <1>8, <1>9, <1>10, <1>11, <1>15, WholeWithOneMore DEF reply
  <1>17. Local(g, doc, h, out, op)
    <2>1. SameWords(doc, out, {reply})
      BY <1>0, <1>10, <1>11, CarriedWords
    <2>2. DOMAIN g.comments \cap {reply} = {} /\ DOMAIN g.comments \subseteq DOMAIN h.comments
      BY <1>2, <1>3, <1>8
    <2>3. ASSUME NEW d \in DOMAIN g.comments PROVE StillResolved(g, h, op, d)
      <3>1. Root(h, d) = Root(g, d) /\ Root(g, d) \in DOMAIN g.comments
        BY <1>9 DEF SameThreads
      <3>2. CASE Root(g, d) = root
        <4>1. Entered(base, root) /\ Settled(base, h, DOMAIN base.comments) /\ root \in DOMAIN base.comments
          BY <1>2, <1>8 DEF Rooted, Continues
        <4>2. Entered(h, root) /\ Entry(h, root).done = Entry(base, root).done
          BY <4>1 DEF Settled
        <4>3. /\ Resolved(h, d) = Entry(base, root).done
              /\ Resolved(g, d) = IF Entered(g, root) THEN Entry(g, root).done
                                  ELSE IF "extended" \in g.parts THEN None ELSE FALSE
          BY <3>1, <3>2, <4>2 DEF Resolved
        <4>4. Root(g, op.comment) = Root(g, d)
          BY <3>2 DEF root
        <4> QED
          BY <1>2, <4>3, <4>4 DEF StillResolved
      <3>3. CASE Root(g, d) # root
        <4>1. Root(g, d) \in DOMAIN g.comments \ ({root} \cup {})
          BY <3>1, <3>3
        <4>2. h.parts = g.parts \cup {"extended"}
          BY <1>2, <1>8
        <4>3. Resolved(h, d) = Resolved(g, d) \/ ("extended" \notin g.parts /\ Resolved(h, d) = None)
          BY <1>9, <3>1, <4>1, <4>2, StaysResolved
        <4> QED
          BY <4>3 DEF StillResolved
      <3> QED
        BY <3>2, <3>3
    <2>4. op.kind # "update"
      OBVIOUS
    <2> QED
      BY <1>9, <2>1, <2>2, <2>3, <2>4, ContinuesLocal
  <1> QED
    BY <1>1, <1>16, <1>17 DEF Safe

\* set_comment_resolved changes an entry of the root.
LEMMA ResolveSafe ==
  ASSUME NEW r, NEW g, NEW doc, Whole(r, g, doc), NEW c \in DOMAIN g.comments,
         NEW done, NEW left \in SetResolved(g, doc, c, done),
         NEW op, op.kind = "resolve", op.comment = c
  PROVE  Safe(r, g, doc, left, op)
  <1> DEFINE root == Root(g, c)
             base == EnsureThreadEntry(g, root)
             p == base.comments[root].para
             entry == [base.extended[p] EXCEPT !.done = done]
             ex == With(base.extended, p, entry)
             h == AsPackage(base.parts, base.comments, ex, base.identities, base.extensible, base.elsewhere)
  <1>0. IsPackage(g) /\ Readable(g)
    BY DEF Whole
  <1>1. left = Left([base EXCEPT !.extended = With(@, p, [@[p] EXCEPT !.done = done])], doc)
    BY DEF SetResolved
  <1>2. /\ Continues(g, base, {}, {root}) /\ IsPackage(base) /\ Readable(base) /\ Rooted(base, root)
        /\ root \in DOMAIN g.comments
        /\ DOMAIN base.comments = DOMAIN g.comments /\ base.parts = g.parts \cup {"extended"}
    <2> HIDE DEF root, base
    <2>1. root = Root(g, c) /\ base = EnsureThreadEntry(g, root)
      BY DEF root, base
    <2>2. Prepared(g, base, root)
      BY <1>0, <2>1, RootEnsured
    <2> QED
      BY <2>2 DEF Prepared, Continues
  <1> HIDE DEF root, base, p
  <1>3. left = Left([base EXCEPT !.extended = ex], doc)
    BY <1>1
  <1>4. IsWith(ex, base.extended, p, entry)
    BY WithFacts
  <1>5. left.package = h /\ left.document = doc
    <2> HIDE DEF ex
    <2>a. base = [parts |-> base.parts, comments |-> base.comments, extended |-> base.extended,
                  identities |-> base.identities, extensible |-> base.extensible, elsewhere |-> base.elsewhere]
      BY <1>2 DEF IsPackage
    <2>1. [base EXCEPT !.extended = ex] = h
      BY <2>a DEF AsPackage
    <2> HIDE DEF h
    <2> QED
      BY <1>3, <2>1 DEF Left
  <1>6. p = base.comments[root].para
    BY DEF p
  <1>7. h = AsPackage(base.parts, base.comments, ex, base.identities, base.extensible, base.elsewhere)
    OBVIOUS
  <1> HIDE DEF h, ex
  <1>8. Continues(base, h, {}, {root}) /\ DOMAIN h.comments = DOMAIN base.comments /\ h.parts = base.parts
    <2>1. Redone(ex, base.extended, p, done)
      BY <1>4 DEF Redone
    <2>2. IsPackage(base) /\ Readable(base) /\ Rooted(base, root)
      BY <1>2
    <2>3. Reflagged(base, h, root)
      BY <1>6, <1>7, <2>1, <2>2, ResolvedPackage
    <2> QED
      BY <2>3 DEF Reflagged
  <1>9. /\ DOMAIN h.comments = DOMAIN g.comments /\ IsPackage(h) /\ Readable(h)
        /\ SameThreads(g, h) /\ Seen(g, h, DOMAIN g.comments, {})
        /\ Settled(g, h, DOMAIN g.comments \ ({root} \cup {root}))
    BY <1>2, <1>8, SeenCompose DEF Continues
  <1>10. Whole(r, h, doc)
    BY <1>8, <1>9, WholeSameText
  <1>11. Local(g, doc, h, doc, op)
    <2>1. SameWords(doc, doc, {})
      BY DEF SameWords
    <2>2. ASSUME NEW d \in DOMAIN g.comments PROVE StillResolved(g, h, op, d)
      <3>1. Root(h, d) = Root(g, d) /\ Root(g, d) \in DOMAIN g.comments
        BY <1>9 DEF SameThreads
      <3>2. CASE Root(g, d) = root
        BY <3>2 DEF root, StillResolved
      <3>3. CASE Root(g, d) # root
        <4>1. Root(g, d) \in DOMAIN g.comments \ ({root} \cup {root})
          BY <3>1, <3>3
        <4>2. h.parts = g.parts \cup {"extended"}
          BY <1>2, <1>8
        <4>3. Resolved(h, d) = Resolved(g, d) \/ ("extended" \notin g.parts /\ Resolved(h, d) = None)
          BY <1>9, <3>1, <4>1, <4>2, StaysResolved
        <4> QED
          BY <4>3 DEF StillResolved
      <3> QED
        BY <3>2, <3>3
    <2>3. op.kind # "update"
      OBVIOUS
    <2> QED
      BY <1>9, <2>1, <2>2, <2>3, ContinuesLocal
  <1> QED
    BY <1>5, <1>10, <1>11 DEF Safe

\* A deletion that leaves nothing hanging: anchors of others stay.
LEMMA RemovedSafe ==
  ASSUME NEW r, NEW g, NEW doc, Whole(r, g, doc), NEW S, Detached(g, S),
         NEW op, op.kind = "delete", \A c \in S : g.comments[c].author = op.author,
         NEW left, left = Left(Removed(g, S), Unanchored(doc, S))
  PROVE  Safe(r, g, doc, left, op)
  <1> DEFINE h == Removed(g, S)
             out == Unanchored(doc, S)
             K == {i \in DOMAIN doc : ~IsAnchor(doc[i], S)}
             C == DOMAIN g.comments
  <1>0. IsPackage(g) /\ Readable(g) /\ IsDocument(doc) /\ S \subseteq C
    BY DEF Whole, Detached
  <1>1. /\ IsPackage(h) /\ Readable(h) /\ DOMAIN h.comments = C \ S
        /\ \A c \in DOMAIN h.comments : Root(h, c) = Root(g, c) /\ Root(g, c) \in DOMAIN h.comments
        /\ Seen(g, h, DOMAIN h.comments, {}) /\ Settled(g, h, DOMAIN h.comments) /\ h.parts = g.parts
    <2> HIDE DEF h
    <2>1. h = Removed(g, S)
      BY DEF h
    <2> QED
      BY <1>0, <2>1, RemovedPackage
  <1>2. /\ IsDocument(out) /\ \E e : Carries(e, K, doc, out, S)
        /\ \A q \in DOMAIN out : ~IsAnchor(out[q], S)
    BY <1>0, UnanchoredCarries
  <1>3. PICK e : Carries(e, K, doc, out, S)
    BY <1>2
  <1> HIDE DEF h, out, K
  <1>4. Anchored(out) \subseteq Anchored(doc) \cup S /\ Anchored(doc) \subseteq Anchored(out) \cup S
    BY <1>3, CarriedRest
  <1>5. Anchored(out) \cap S = {}
    BY <1>2 DEF Anchored, IsAnchor
  <1>6. ASSUME NEW c \in DOMAIN h.comments \ Strange(r) PROVE Quoted(h, out, c)
    <2>1. c \in C /\ c \notin S /\ Root(h, c) = Root(g, c) /\ Root(g, c) \notin S
      BY <1>1
    <2>2. Quoted(g, doc, c)
      BY <2>1 DEF Whole
    <2> QED
      BY <1>0, <1>2, <1>3, <2>1, <2>2, QuotedKept
  <1>7. Whole(r, h, out)
    BY <1>0, <1>1, <1>2, <1>4, <1>5, <1>6 DEF Whole
  <1>8. Local(g, doc, h, out, op)
    <2>1. SameWords(doc, out, S)
      BY <1>0, <1>2, <1>3, CarriedWords
    <2> QED
      BY <1>1, <2>1, RemovedLocal
  <1>9. left.package = h /\ left.document = out
    BY DEF h, out, Left
  <1> QED
    BY <1>7, <1>8, <1>9 DEF Safe

\* _delete_selected_messages refuses every other one, and messages of others.
LEMMA DeleteMessagesSafe ==
  ASSUME NEW r, NEW g, NEW doc, Whole(r, g, doc), NEW S, S \subseteq DOMAIN g.comments,
         NEW op, op.kind = "delete", NEW left \in DeleteMessages(g, doc, S, {op.author})
  PROVE  Safe(r, g, doc, left, op)
  <1>1. left = Left(Removed(g, S), Unanchored(doc, S)) /\ Detached(g, S)
    BY DEF DeleteMessages, Detached
  <1>2. \A c \in S : g.comments[c].author = op.author
    BY DEF DeleteMessages
  <1> QED
    BY <1>1, <1>2, RemovedSafe

\* So the three deletions are safe.
LEMMA DeleteSafe ==
  ASSUME NEW r, NEW g, NEW doc, Whole(r, g, doc), NEW c \in DOMAIN g.comments, NEW author,
         NEW left \in DeleteComment(g, doc, c, author) \cup DeleteReply(g, doc, c, author)
                        \cup DeleteThread(g, doc, c, author),
         NEW op, op.kind = "delete", op.author = author
  PROVE  Safe(r, g, doc, left, op)
  <1>1. CASE left \in DeleteComment(g, doc, c, author)
    <2>1. left = Left(Removed(g, {c}), Unanchored(doc, {c})) /\ Detached(g, {c})
      BY <1>1 DEF DeleteComment, Detached
    <2>2. \A d \in {c} : g.comments[d].author = op.author
      BY <1>1 DEF DeleteComment
    <2> QED
      BY <2>1, <2>2, RemovedSafe
  <1>2. CASE left \in DeleteReply(g, doc, c, author)
    <2>1. left \in DeleteMessages(g, doc, {c}, {op.author}) /\ {c} \subseteq DOMAIN g.comments
      BY <1>2 DEF DeleteReply
    <2> QED
      BY <2>1, DeleteMessagesSafe
  <1>3. CASE left \in DeleteThread(g, doc, c, author)
    <2>1. /\ left \in DeleteMessages(g, doc, Thread(g, c), {op.author})
          /\ Thread(g, c) \subseteq DOMAIN g.comments
      BY <1>3 DEF DeleteThread, Thread
    <2> QED
      BY <2>1, DeleteMessagesSafe
  <1> QED
    BY <1>1, <1>2, <1>3

\* The inductive invariant.
StillWhole == Whole(received, package, document)

\* A quote is of some text.
LEMMA QuotesHaveText ==
  ASSUME IsDocument(document), NEW quote \in Quotes
  PROVE  Len(quote) \in Nat \ {0}
  <1> DEFINE text == Reading(document)
             V == {text[k] : k \in DOMAIN text}
  <1>1. text \in Seq(V)
    BY ShownFacts DEF IsSequence
  <1>2. PICK i, j \in DOMAIN text : quote = SubSeq(text, i, j) /\ quote # <<>>
    BY DEF Quotes
  <1> HIDE DEF text, V
  <1>3. i \in 1 .. Len(text) /\ j \in 1 .. Len(text) /\ Len(text) \in Nat
    BY <1>1
  <1>4. quote \in Seq(V)
    BY <1>1, <1>2, <1>3
  <1> QED
    BY <1>2, <1>4

\* The invariant holds at first,
LEMMA StartsWhole == Init => StillWhole
  <1> SUFFICES ASSUME Init PROVE StillWhole
    OBVIOUS
  <1>1. /\ IsPackage(received.package) /\ IsDocument(received.document) /\ Readable(received.package)
        /\ received \in Received
    BY ContractsAssumption DEF Init
  <1> QED
    BY <1>1 DEF Init, StillWhole, Whole, Orphaned, Strange

\* and every operation leaves it, being local.
LEMMA OperationsAreSafe ==
  ASSUME StillWhole, Next
  PROVE  StillWhole' /\ Local(package, document, package', document', last')
  <1> DEFINE asked(kind, author, c) == [kind |-> kind, author |-> author, comment |-> c]
  <1>0. Whole(received, package, document) /\ IsDocument(document)
    BY DEF StillWhole, Whole
  <1>a. ASSUME NEW kind, NEW author, NEW c
        PROVE  /\ asked(kind, author, c).kind = kind /\ asked(kind, author, c).author = author
               /\ asked(kind, author, c).comment = c
    OBVIOUS
  <1>1. ASSUME NEW kind, NEW author, NEW c, NEW outcomes, Perform(kind, author, c, outcomes),
               \A left \in outcomes : Safe(received, package, document, left, asked(kind, author, c))
        PROVE  StillWhole' /\ Local(package, document, package', document', last')
    <2>1. PICK left \in outcomes : package' = left.package /\ document' = left.document
      BY <1>1 DEF Perform
    <2>2. last' = asked(kind, author, c) /\ received' = received
      BY <1>1 DEF Perform
    <2> HIDE DEF asked
    <2>3. /\ Whole(received, left.package, left.document)
          /\ Local(package, document, left.package, left.document, asked(kind, author, c))
      BY <1>1 DEF Safe
    <2> QED
      BY <2>1, <2>2, <2>3 DEF StillWhole
  <1> HIDE DEF asked
  <1>2. ASSUME NEW author \in Authors, Add(author)
        PROVE  StillWhole' /\ Local(package, document, package', document', last')
    <2>1. PICK quote \in Quotes, text \in Texts :
            Perform("add", author, NewId(package, document), AddComment(package, document, quote, author, text))
      BY <1>2 DEF Add
    <2>2. Len(quote) \in Nat \ {0}
      BY <1>0, QuotesHaveText
    <2>3. \A left \in AddComment(package, document, quote, author, text) :
            Safe(received, package, document, left, asked("add", author, NewId(package, document)))
      BY <1>0, <1>a, <2>2, AddSafe
    <2> QED
      BY <1>1, <2>1, <2>3
  <1>3. ASSUME NEW author \in Authors, Update(author)
        PROVE  StillWhole' /\ Local(package, document, package', document', last')
    <2>1. PICK c \in DOMAIN package.comments, text \in Texts :
            Perform("update", author, c, UpdateComment(package, document, c, author, text))
      BY <1>3 DEF Update
    <2>2. \A left \in UpdateComment(package, document, c, author, text) :
            Safe(received, package, document, left, asked("update", author, c))
      BY <1>0, <1>a, UpdateSafe
    <2> QED
      BY <1>1, <2>1, <2>2
  <1>4. ASSUME NEW author \in Authors, Reply(author)
        PROVE  StillWhole' /\ Local(package, document, package', document', last')
    <2>1. PICK c \in DOMAIN package.comments, text \in Texts :
            Perform("reply", author, c, ReplyComment(package, document, c, author, text))
      BY <1>4 DEF Reply
    <2>2. \A left \in ReplyComment(package, document, c, author, text) :
            Safe(received, package, document, left, asked("reply", author, c))
      BY <1>0, <1>a, ReplySafe
    <2> QED
      BY <1>1, <2>1, <2>2
  <1>5. ASSUME NEW author \in Authors, Resolve(author)
        PROVE  StillWhole' /\ Local(package, document, package', document', last')
    <2>1. PICK c \in DOMAIN package.comments, done \in BOOLEAN :
            Perform("resolve", author, c, SetResolved(package, document, c, done))
      BY <1>5 DEF Resolve
    <2>2. \A left \in SetResolved(package, document, c, done) :
            Safe(received, package, document, left, asked("resolve", author, c))
      BY <1>0, <1>a, ResolveSafe
    <2> QED
      BY <1>1, <2>1, <2>2
  <1>6. ASSUME NEW author \in Authors, Delete(author)
        PROVE  StillWhole' /\ Local(package, document, package', document', last')
    <2>1. PICK c \in DOMAIN package.comments :
            \/ Perform("delete", author, c, DeleteComment(package, document, c, author))
            \/ Perform("delete", author, c, DeleteReply(package, document, c, author))
            \/ Perform("delete", author, c, DeleteThread(package, document, c, author))
      BY <1>6 DEF Delete
    <2>2. \A left \in DeleteComment(package, document, c, author)
                        \cup DeleteReply(package, document, c, author)
                        \cup DeleteThread(package, document, c, author) :
            Safe(received, package, document, left, asked("delete", author, c))
      BY <1>0, <1>a, DeleteSafe
    <2> QED
      BY <1>1, <2>1, <2>2
  <1> QED
    BY <1>2, <1>3, <1>4, <1>5, <1>6 DEF Next

\* A step that is none leaves it, too.
LEMMA StaysWhole == StillWhole /\ [Next]_vars => StillWhole'
  <1>1. CASE UNCHANGED vars
    BY <1>1 DEF vars, StillWhole
  <1>2. CASE Next
    BY <1>2, OperationsAreSafe
  <1> QED
    BY <1>1, <1>2

\* The four places keep telling one story: every operation of the comment tools
\* leaves a graph that can be read, every anchored message quoting what its root
\* quotes, no anchor of a message taken away, and no message with the anchors of
\* another that Word left behind.
THEOREM ThreadsAreWhole == Spec => []ThreadsStayWhole
  <1>1. StillWhole => ThreadsStayWhole
    BY DEF StillWhole, Whole, ThreadsStayWhole, Orphaned, Orphans, Strange, Unlike
  <1> QED
    BY <1>1, StartsWhole, StaysWhole, PTL DEF Spec

\* An operation changes the message it names and no other: nobody's words, thread
\* or quotation move, no other thread is resolved or reopened, what disappears was
\* written by the author of the session, the text of the contract stays.
THEOREM OperationsStayLocal == Spec => OperationsAreLocal
  <1>1. StillWhole /\ [Next]_vars => [Local(package, document, package', document', last')]_vars
    BY OperationsAreSafe
  <1> QED
    BY <1>1, StartsWhole, StaysWhole, PTL DEF Spec, OperationsAreLocal

=============================================================================
