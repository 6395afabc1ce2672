--------------------------- MODULE DealRoundsProofs ---------------------------
(***************************************************************************)
(* Proofs about DealRounds, for any deal.                                  *)
(*                                                                         *)
(* DealInv is the inductive invariant: a row rests on the rows before it   *)
(* and what it took from them is there still, and what a command that was  *)
(* accepted has seen of the stores stands until it ends, since it holds    *)
(* their lock.  Rows are only ever appended, so what is said of a row      *)
(* stays true when another one follows; the lemmas below say so of the     *)
(* operators one by one, then each command keeps the invariant, and the    *)
(* properties and the abstract FinalAgreement follow from it.              *)
(***************************************************************************)
EXTENDS DealRounds, WellFoundedInduction, TLAPS

--------------------------------------------------------------------------------
(* Indices and sequences.                                                  *)

\* A set of indices has a greatest one.
LEMMA Greatest ==
    ASSUME NEW n \in Nat, NEW S \in SUBSET (1..n), S # {}
    PROVE  Max(S) \in S /\ \A y \in S : Max(S) >= y
<1> DEFINE T == {k \in Nat : \A y \in S : k >= y}
           R == OpToRel(<, Nat)
<1>1. T \subseteq Nat /\ n \in T
  OBVIOUS
<1>2. \A T0 : (T0 \subseteq Nat /\ T0 # {}) => \E x \in T0 : \A y \in T0 : <<y, x>> \notin R
  BY NatLessThanWellFounded, WFMin
<1>3. PICK k \in T : \A y \in T : <<y, k>> \notin R
  BY <1>1, <1>2, Zenon
<1>4. \A y \in T : ~ (y < k)
  <2> SUFFICES ASSUME NEW y \in T, y < k PROVE FALSE
    OBVIOUS
  <2>1. <<y, k>> \in Nat \X Nat
    OBVIOUS
  <2>. QED
    BY <1>3, <2>1 DEF OpToRel
<1>5. k \in S
  <2> SUFFICES ASSUME k \notin S PROVE FALSE
    OBVIOUS
  <2>1. \A y \in S : k > y
    OBVIOUS
  <2>2. PICK y \in S : y \in 1..n
    OBVIOUS
  <2>3. k - 1 \in Nat /\ k - 1 < k
    BY <2>1, <2>2
  <2>4. k - 1 \in T
    BY <2>1, <2>3
  <2>. QED
    BY <1>4, <2>3, <2>4
<1>. QED
  BY <1>5 DEF Max

\* The members of a sequence.
LEMMA Member == ASSUME NEW S, NEW s \in Seq(S), NEW i \in DOMAIN s PROVE s[i] \in S
OBVIOUS

\* A sequence with one more member.
LEMMA Longer ==
    ASSUME NEW S, NEW s \in Seq(S), NEW r \in S
    PROVE  LET t == Append(s, r)
               n == Len(s) + 1
           IN /\ t \in Seq(S) /\ Len(t) = n /\ DOMAIN t = 1..n /\ t[n] = r
              /\ DOMAIN s = 1..Len(s) /\ n \notin DOMAIN s /\ n \in 1..n
              /\ DOMAIN t = DOMAIN s \cup {n}
              /\ \A i \in DOMAIN s : t[i] = s[i]
              /\ SubSeq(t, 1, n - 1) = s
              /\ \A i \in DOMAIN s : SubSeq(t, 1, i - 1) = SubSeq(s, 1, i - 1)
OBVIOUS

\* What is a prefix.
LEMMA PrefixIs ==
    ASSUME NEW S, NEW s \in Seq(S), NEW t \in Seq(S)
    PROVE  IsPrefix(s, t) <=> /\ Len(s) <= Len(t)
                              /\ \A i \in 1..Len(s) : s[i] = t[i]
BY DEF IsPrefix

LEMMA PrefixTransitive ==
    ASSUME NEW S, NEW s \in Seq(S), NEW t \in Seq(S), NEW u \in Seq(S),
           IsPrefix(s, t), IsPrefix(t, u)
    PROVE  IsPrefix(s, u)
BY PrefixIs

LEMMA PrefixSelf == ASSUME NEW S, NEW s \in Seq(S) PROVE IsPrefix(s, s)
BY PrefixIs

--------------------------------------------------------------------------------
(* A store with one more row.                                              *)

LEMMA RowsOfOneMore ==
    ASSUME NEW s \in Seq(RowType), NEW r \in RowType, NEW A
    PROVE  /\ Rows(Append(s, r), A)
                  = Rows(s, A) \cup (IF r.action \in A THEN {Len(s) + 1} ELSE {})
           /\ \A rid : RowsOf(Append(s, r), A, rid)
                  = RowsOf(s, A, rid)
                    \cup (IF r.action \in A /\ r.round = rid THEN {Len(s) + 1} ELSE {})
<1>1. Rows(Append(s, r), A) = Rows(s, A) \cup (IF r.action \in A THEN {Len(s) + 1} ELSE {})
  BY Longer DEF Rows
<1>. QED
  BY <1>1, Longer DEF RowsOf, Rows

\* The rows of a store are indices of it.
LEMMA RowsAreIndices ==
    ASSUME NEW s \in Seq(RowType), NEW A
    PROVE  /\ DOMAIN s = 1..Len(s) /\ Len(s) \in Nat
           /\ Rows(s, A) \in SUBSET (1..Len(s))
           /\ \A rid : RowsOf(s, A, rid) \in SUBSET (1..Len(s))
           /\ \A rid : RowsOf(s, A, rid) # {} =>
                 /\ Max(RowsOf(s, A, rid)) \in RowsOf(s, A, rid)
                 /\ \A i \in RowsOf(s, A, rid) : Max(RowsOf(s, A, rid)) >= i
<1>1. /\ DOMAIN s = 1..Len(s) /\ Len(s) \in Nat
      /\ Rows(s, A) \in SUBSET (1..Len(s))
      /\ \A rid : RowsOf(s, A, rid) \in SUBSET (1..Len(s))
  BY DEF RowsOf, Rows
<1>. QED
  BY <1>1, Greatest

\* A round that has started has its row.
LEMMA StartIs ==
    ASSUME NEW s \in Seq(RowType), NEW rid \in Started(s)
    PROVE  \E i \in DOMAIN s : /\ i = Max(RowsOf(s, {"start_round"}, rid))
                               /\ Start(s, rid) = s[i]
                               /\ s[i].action = "start_round" /\ s[i].round = rid
<1>1. RowsOf(s, {"start_round"}, rid) # {}
  BY DEF Started, RowsOf
<1>2. LET k == Max(RowsOf(s, {"start_round"}, rid))
      IN k \in RowsOf(s, {"start_round"}, rid)
  BY <1>1, RowsAreIndices
<1>. QED
  BY <1>2 DEF Start, RowsOf, Rows

\* What is said of a store stays true when a row is added.
LEMMA MoreStarted ==
    ASSUME NEW s \in Seq(RowType), NEW r \in RowType
    PROVE  /\ Started(Append(s, r))
                 = Started(s) \cup (IF r.action = "start_round" THEN {r.round} ELSE {})
           /\ \A rid : Linked(s, rid) \subseteq Linked(Append(s, r), rid)
           /\ \A rid : WorkingFiles(s, rid) \subseteq WorkingFiles(Append(s, r), rid)
<1> DEFINE t == Append(s, r)
<1>1. ASSUME NEW A, NEW rid, NEW i \in RowsOf(s, A, rid)
      PROVE  i \in RowsOf(t, A, rid) /\ t[i] = s[i]
  BY Longer DEF RowsOf, Rows
<1>2. \A rid : Linked(s, rid) \subseteq Linked(Append(s, r), rid)
  <2> SUFFICES ASSUME NEW rid, NEW o \in Linked(s, rid) PROVE o \in Linked(t, rid)
    OBVIOUS
  <2>1. PICK i \in RowsOf(s, {"link_operation"}, rid) : o = s[i].operation
    BY DEF Linked
  <2>2. i \in RowsOf(t, {"link_operation"}, rid) /\ t[i] = s[i]
    BY <1>1
  <2>. QED
    BY <2>1, <2>2 DEF Linked
<1>3. \A rid : WorkingFiles(s, rid) \subseteq WorkingFiles(Append(s, r), rid)
  BY <1>1 DEF WorkingFiles, Working
<1>4. Rows(t, {"start_round"})
         = Rows(s, {"start_round"}) \cup (IF r.action = "start_round" THEN {Len(s) + 1} ELSE {})
  BY RowsOfOneMore
<1>5. \A i \in Rows(s, {"start_round"}) : t[i] = s[i]
  BY Longer DEF Rows
<1>6. t[Len(s) + 1] = r
  BY Longer
<1>7. Started(t) = Started(s) \cup (IF r.action = "start_round" THEN {r.round} ELSE {})
  BY <1>4, <1>5, <1>6 DEF Started
<1>. QED
  BY <1>2, <1>3, <1>7

\* A row never starts a round again.
Fresh(s, r) == r.action = "start_round" => r.round \notin Started(s)

LEMMA StartStays ==
    ASSUME NEW s \in Seq(RowType), NEW r \in RowType, Fresh(s, r), NEW rid \in Started(s)
    PROVE  Start(Append(s, r), rid) = Start(s, rid)
<1>1. RowsOf(Append(s, r), {"start_round"}, rid) = RowsOf(s, {"start_round"}, rid)
  <2>1. RowsOf(Append(s, r), {"start_round"}, rid)
           = RowsOf(s, {"start_round"}, rid)
             \cup (IF r.action \in {"start_round"} /\ r.round = rid THEN {Len(s) + 1} ELSE {})
    BY RowsOfOneMore
  <2>. QED
    BY <2>1 DEF Fresh
<1>2. PICK i \in DOMAIN s : i = Max(RowsOf(s, {"start_round"}, rid)) /\ Start(s, rid) = s[i]
  BY StartIs
<1>. QED
  BY <1>1, <1>2, Longer DEF Start

\* Requests refer to earlier ones.
Earlier(s) == \A i \in DOMAIN s : s[i].ref \in 0..(i - 1)

LEMMA SentBasisStays ==
    ASSUME NEW s \in Seq(RowType), NEW r \in RowType, Fresh(s, r), Earlier(s),
           NEW rid \in Started(s)
    PROVE  SentBasis(Append(s, r), rid) = SentBasis(s, rid)
<1>1. Start(Append(s, r), rid) = Start(s, rid)
  BY StartStays
<1>2. PICK i \in DOMAIN s : Start(s, rid) = s[i]
  BY StartIs
<1>3. Start(s, rid).ref = 0 \/ Start(s, rid).ref \in DOMAIN s
  BY <1>2 DEF Earlier
<1>. QED
  BY <1>1, <1>3, Longer DEF SentBasis

LEMMA ContentStays ==
    ASSUME NEW s \in Seq(RowType), NEW r \in RowType, Fresh(s, r), Earlier(s),
           NEW rid \in Started(s), NEW c, ContentMatches(s, rid, c)
    PROVE  ContentMatches(Append(s, r), rid, c)
BY StartStays, SentBasisStays, MoreStarted DEF ContentMatches

\* The rows of a store rest on earlier ones.
AllGrounded(s) == \A i \in DOMAIN s : Grounded(s, i - 1, s[i])

LEMMA GroundedIsEarlier == ASSUME NEW s, AllGrounded(s) PROVE Earlier(s)
BY DEF AllGrounded, Earlier, Grounded

LEMMA GroundedStays ==
    ASSUME NEW s \in Seq(RowType), NEW r \in RowType, Fresh(s, r), AllGrounded(s),
           NEW n \in 0..Len(s), NEW q \in RowType, Grounded(s, n, q)
    PROVE  Grounded(Append(s, r), n, q)
<1> DEFINE t == Append(s, r)
<1>1. Earlier(s)
  BY GroundedIsEarlier
<1>2. \A A, rid : \A i \in RowsOf(s, A, rid) : i \in RowsOf(t, A, rid) /\ i \in DOMAIN s /\ t[i] = s[i]
  BY Longer DEF RowsOf, Rows
<1>3. /\ q.ref \in 0..n /\ q.basis.rows \subseteq 1..n /\ NamesItsDocument(q)
      /\ q.action \in WorkActions \cup {"prepare_working_copy"} => q.path \in Path
      /\ q.action = "link_operation" => q.operation \in Operation
  BY DEF Grounded
<1>4. q.action # "start_round" => q.round \in Started(t)
  BY MoreStarted DEF Grounded
<1>5. Refers(q) # {} => q.ref \in RowsOf(t, Refers(q), q.round)
  BY <1>2 DEF Grounded
<1>6. q.action = "prepare_working_copy" => q.file = Start(t, q.round).file
  BY StartStays DEF Grounded
<1>7. ASSUME q.action \in IssueActions
      PROVE  /\ q.content.issue \in Issue
             /\ ContentMatches(t, q.round, q.content)
             /\ \A i \in (1..n) \cap IssueRows(t, q.content.issue) :
                    t[i].round = q.round /\ Keeps(t[i].content, q.content)
  <2>1. q.round \in Started(s) /\ ContentMatches(s, q.round, q.content) /\ q.content.issue \in Issue
    BY <1>7 DEF Grounded, IssueActions
  <2>2. ContentMatches(t, q.round, q.content)
    BY <2>1, <1>1, ContentStays
  <2>3. ASSUME NEW i \in (1..n) \cap IssueRows(t, q.content.issue)
        PROVE  i \in IssueRows(s, q.content.issue) /\ t[i] = s[i]
    BY Longer DEF IssueRows, Rows
  <2>. QED
    BY <1>7, <2>1, <2>2, <2>3 DEF Grounded
<1>8. ASSUME q.action = "prepare_final_saved_review"
      PROVE  /\ q.basis = t[t[q.ref].ref].basis
             /\ \E i \in Rows(t, FinalEvents) : t[i].ref = q.ref
  <2>1. /\ q.ref \in RowsOf(s, {"prepare_final_document"}, q.round)
        /\ q.basis = s[s[q.ref].ref].basis
        /\ \E i \in Rows(s, FinalEvents) : s[i].ref = q.ref
    BY <1>8 DEF Grounded, Refers, CopyActions, KitEvents, FinalEvents
  <2>2. q.ref \in DOMAIN s /\ s[q.ref].action = "prepare_final_document"
    BY <2>1 DEF RowsOf, Rows
  <2>3. Grounded(s, q.ref - 1, s[q.ref])
    BY <2>2 DEF AllGrounded
  <2>4. s[q.ref].ref \in RowsOf(s, {"record_final_basis_agreement"}, s[q.ref].round)
    BY <2>2, <2>3 DEF Grounded, Refers, CopyActions, KitEvents, FinalEvents
  <2>5. t[q.ref] = s[q.ref] /\ t[s[q.ref].ref] = s[s[q.ref].ref]
    BY <2>2, <2>4, Longer DEF RowsOf, Rows
  <2>6. PICK i \in Rows(s, FinalEvents) : s[i].ref = q.ref
    BY <2>1
  <2>7. i \in Rows(t, FinalEvents) /\ t[i] = s[i]
    BY Longer DEF Rows
  <2>. QED
    BY <2>1, <2>5, <2>6, <2>7
<1>. QED
  BY <1>3, <1>4, <1>5, <1>6, <1>7, <1>8 DEF Grounded

LEMMA AllGroundedStays ==
    ASSUME NEW s \in Seq(RowType), NEW r \in RowType, Fresh(s, r), AllGrounded(s),
           Grounded(s, Len(s), r)
    PROVE  AllGrounded(Append(s, r))
<1> DEFINE t == Append(s, r)
<1>1. DOMAIN t = DOMAIN s \cup {Len(s) + 1} /\ t[Len(s) + 1] = r /\ DOMAIN s = 1..Len(s)
  BY Longer
<1>2. Grounded(t, Len(s), r)
  BY GroundedStays
<1>3. ASSUME NEW i \in DOMAIN s PROVE Grounded(t, i - 1, t[i])
  <2>1. i - 1 \in 0..Len(s) /\ s[i] \in RowType /\ t[i] = s[i]
    BY Longer, Member
  <2>2. Grounded(s, i - 1, s[i])
    BY DEF AllGrounded
  <2>. QED
    BY <2>1, <2>2, GroundedStays
<1>4. (Len(s) + 1) - 1 = Len(s)
  OBVIOUS
<1>. QED
  BY <1>1, <1>2, <1>3, <1>4 DEF AllGrounded

--------------------------------------------------------------------------------
(* The schema of a store, and its validity.                                *)

\* An outgoing plan raises the version to what its table and its cleanup need.
LEMMA OutgoingUpgradeIs ==
    ASSUME NEW v \in 1..9, NEW cleanup \in BOOLEAN, NEW table \in BOOLEAN
    PROVE  LET u == OutgoingUpgrade(v, cleanup, table)
           IN u \in 4..9 /\ v <= u /\ (cleanup => u >= 6) /\ (table => u >= 7)
<1>1. CASE table = TRUE
  BY <1>1 DEF OutgoingUpgrade
<1>2. CASE table = FALSE /\ cleanup = TRUE
  BY <1>2 DEF OutgoingUpgrade
<1>3. CASE table = FALSE /\ cleanup = FALSE
  BY <1>3 DEF OutgoingUpgrade
<1>. QED
  BY <1>1, <1>2, <1>3

\* A command never lowers the version of a store, and raises it to what its row needs.
LEMMA UpgradeSuffices ==
    ASSUME NEW v \in 1..9, NEW r \in RowType
    PROVE  Upgraded(v, r) \in 1..9 /\ v <= Upgraded(v, r) /\ Level(r) <= Upgraded(v, r)
<1>1. r.cleanup \in BOOLEAN /\ r.action \in Action
  BY DEF RowType
<1> DEFINE A == r.action
<1> USE DEF WorkActions, IssueActions, PlanActions, KitEvents, CopyActions, FinalEvents
<1>2. CASE A \in {"start_round", "record_sent"}
  BY <1>2 DEF Upgraded, Level
<1>3. CASE A \in PlanActions \cup KitEvents
  <2> DEFINE u == OutgoingUpgrade(v, r.cleanup, A = "prepare_outgoing_package_with_table")
  <2>1. /\ u \in 4..9 /\ v <= u /\ (r.cleanup => u >= 6)
        /\ A = "prepare_outgoing_package_with_table" => u >= 7
    BY <1>1, OutgoingUpgradeIs
  <2>2. Upgraded(v, r) = u
    BY <1>3 DEF Upgraded
  <2>3. Level(r) \in {4, 6, 7} /\ (Level(r) = 6 => r.cleanup)
    BY <1>3 DEF Level
  <2>4. Level(r) = 7 => A = "prepare_outgoing_package_with_table"
    BY <1>3 DEF Level
  <2> HIDE DEF u
  <2>. QED
    BY <2>1, <2>2, <2>3, <2>4
<1>4. CASE A \in CopyActions \cup {"prepare_working_copy"}
  BY <1>4 DEF Upgraded, Level, CopyUpgrade
<1>5. CASE A \in {"record_final_basis_agreement", "prepare_final_document"} \cup FinalEvents
  BY <1>5 DEF Upgraded, Level, FinalUpgrade
<1>6. CASE A \in {"prepare_final_saved_review", "confirm_final_saved_document"}
  BY <1>6 DEF Upgraded, Level
<1>7. CASE A \in {"link_operation", "import_working_document", "link_working_document",
                  "record_working_version"} \cup IssueActions
  BY <1>7 DEF Upgraded, Level, WorkflowUpgrade
<1>. QED
  BY <1>1, <1>2, <1>3, <1>4, <1>5, <1>6, <1>7 DEF Action

LEMMA LevelIs == ASSUME NEW r \in RowType PROVE Level(r) \in 1..9
<1>1. r.cleanup \in BOOLEAN
  BY DEF RowType
<1>. QED
  BY <1>1 DEF Level

\* Change and validate agree: a row that follows keeps the store valid.
LEMMA ValidWithRow ==
    ASSUME NEW s \in Seq(RowType), NEW r \in RowType, NEW v \in 1..9, Valid(s, v), Follows(s, r)
    PROVE  Valid(Append(s, r), Upgraded(v, r))
<1> DEFINE t == Append(s, r)
           n == Len(s) + 1
           u == Upgraded(v, r)
<1>1. u \in 1..9 /\ v <= u /\ Level(r) <= u
  BY UpgradeSuffices
<1>2. DOMAIN t = DOMAIN s \cup {n} /\ t[n] = r /\ SubSeq(t, 1, n - 1) = s
  BY Longer
<1>3. ASSUME NEW i \in DOMAIN s
      PROVE  Level(t[i]) <= u /\ Follows(SubSeq(t, 1, i - 1), t[i])
  <2>1. t[i] = s[i] /\ SubSeq(t, 1, i - 1) = SubSeq(s, 1, i - 1) /\ s[i] \in RowType
    BY Longer, Member
  <2>2. Level(s[i]) \in 1..9
    BY <2>1, LevelIs
  <2>3. Level(s[i]) <= v /\ Follows(SubSeq(s, 1, i - 1), s[i])
    BY DEF Valid
  <2>4. u \in 1..9 /\ v \in 1..9 /\ v <= u
    BY <1>1
  <2> HIDE DEF t, u
  <2>5. Level(s[i]) <= u
    BY <2>2, <2>3, <2>4
  <2>. QED
    BY <2>1, <2>3, <2>5
<1>4. Level(t[n]) <= u /\ Follows(SubSeq(t, 1, n - 1), t[n])
  BY <1>1, <1>2
<1> HIDE DEF t, n, u
<1>5. Valid(t, u)
  BY <1>2, <1>3, <1>4 DEF Valid
<1>. QED
  BY <1>5 DEF t, u

LEMMA FollowsIsFresh == ASSUME NEW s, NEW r, Follows(s, r) PROVE Fresh(s, r)
BY DEF Follows, Fresh

\* In a valid store with one more row, that row follows.
LEMMA LastFollows ==
    ASSUME NEW s \in Seq(RowType), NEW r \in RowType, NEW v, Valid(Append(s, r), v)
    PROVE  Follows(s, r)
<1>1. LET t == Append(s, r)
          n == Len(s) + 1
      IN n \in DOMAIN t /\ t[n] = r /\ SubSeq(t, 1, n - 1) = s
  BY Longer
<1>. QED
  BY <1>1 DEF Valid

--------------------------------------------------------------------------------
(* A command that passes its checks is accepted.                           *)

LEMMA InvHas ==
    DealInv => /\ requests \in Seq(RowType) /\ Len(requests) <= session.length
               /\ session \in Session /\ session.length \in 0..MaxRequests
               /\ pending \in RowType \cup {Nothing} /\ version \in 1..9
               /\ history \in Seq(Event) /\ journal \in [Operation -> Outcome]
               /\ file \in [Path \cup Folder -> Doc \cup {NoDoc}]
               /\ AllGrounded(requests) /\ Earlier(requests)
               /\ Valid(requests, version) /\ HistoryValid(history) /\ sound = TRUE
               /\ Len(requests) \in Nat /\ DOMAIN requests = 1..Len(requests)
<1> SUFFICES ASSUME DealInv PROVE InvHas!2
  OBVIOUS
<1>1. AllGrounded(requests)
  BY DEF DealInv, RowsGrounded, AllGrounded
<1>. QED
  BY <1>1, GroundedIsEarlier, SessionsOK DEF DealInv, Typed

LEMMA NothingIsNoRow == Nothing \notin RowType
BY DEF Nothing, Row, RowType, Action, WorkActions, IssueActions, PlanActions, KitEvents, FinalEvents

\* What a command must have seen of its agreement.
Seen(r) ==
    /\ r.action = "record_final_basis_agreement" => r.basis.positions = history
    /\ r.action = "prepare_final_document" => Stands(r.ref)
    /\ r.action = "prepare_final_saved_review" => Stands(requests[r.ref].ref)

LEMMA ProposeInv ==
    ASSUME DealInv, NEW r \in RowType, Len(requests) < session.length, Propose(r),
           Follows(requests, r), Grounded(requests, Len(requests), r), Found(r), Seen(r)
    PROVE  DealInv'
<1>0. /\ requests \in Seq(RowType) /\ version \in 1..9 /\ Valid(requests, version)
  BY InvHas
<1>1. Valid(Append(requests, r), Upgraded(version, r))
  BY <1>0, ValidWithRow
<1>2. /\ sound' = TRUE /\ pending' = r
      /\ UNCHANGED <<requests, version, history, journal, file, session>>
  BY <1>1, Zenon DEF Propose
<1>3. Typed'
  BY <1>2 DEF Typed, DealInv
<1>4. PendingStands'
  BY <1>1, <1>2 DEF PendingStands, Seen, Found, Stands
<1>5. RowsGrounded' /\ PositionLinksResolve' /\ Valid(requests, version)' /\ HistoryValid(history)'
  BY <1>2 DEF DealInv, RowsGrounded, PositionLinksResolve, Found
<1>. QED
  BY <1>2, <1>3, <1>4, <1>5 DEF DealInv

\* What a row starts from.
LEMMA RowFields ==
    /\ NoContent \in Contents /\ NoContent.link = NoLink
    /\ NoBasis \in Bases /\ NoBasis.rows = {} /\ NoBasis.positions = <<>>
    /\ \A action \in Action, rid \in Round :
          LET r == Row(action, rid)
          IN /\ r \in RowType /\ r.action = action /\ r.round = rid /\ r.ref = 0
             /\ r.content = NoContent /\ r.basis = NoBasis /\ r.cleanup = FALSE
<1>1. NoContent \in Contents /\ NoContent.link = NoLink
  BY DEF NoContent, Contents, NoDecision, NoLink
<1>2. NoBasis \in Bases /\ NoBasis.rows = {} /\ NoBasis.positions = <<>>
  BY DEF NoBasis, Bases
<1>. QED
  BY <1>1, <1>2, RequestLimit DEF Row, RowType

\* A row whose content has no link is found if its basis is.
LEMMA FoundPlainly ==
    ASSUME NEW r, r.content = NoContent, IsPrefix(r.basis.positions, history)
    PROVE  Found(r)
BY RowFields DEF Found

LEMMA PresentPrefixes ==
    ASSUME DealInv
    PROVE  IsPrefix(<<>>, history) /\ IsPrefix(history, history)
<1>1. history \in Seq(Event) /\ <<>> \in Seq(Event)
  BY InvHas
<1>2. IsPrefix(history, history) /\ IsPrefix(<<>>, history)
  <2>1. IsPrefix(history, history)
    BY <1>1, PrefixSelf
  <2>2. IsPrefix(<<>>, history)
    BY <1>1 DEF IsPrefix
  <2>. QED
    BY <2>1, <2>2
<1>. QED
  BY <1>2

\* The documents of rounds and of their working versions.
LEMMA WorkingIs ==
    ASSUME NEW s \in Seq(RowType), AllGrounded(s), NEW rid, Working(s, rid) # {}
    PROVE  \E k \in DOMAIN s : /\ k = Max(Working(s, rid)) /\ Selected(s, rid) = s[k]
                               /\ s[k].round = rid /\ s[k].action \in WorkActions
                               /\ s[k].file \in Doc /\ s[k].path \in Path
                               /\ \A i \in Working(s, rid) : k >= i
<1>1. LET k == Max(Working(s, rid)) IN k \in Working(s, rid) /\ \A i \in Working(s, rid) : k >= i
  BY RowsAreIndices DEF Working
<1>2. PICK k \in Working(s, rid) : k = Max(Working(s, rid)) /\ \A i \in Working(s, rid) : k >= i
  BY <1>1
<1>3. k \in DOMAIN s /\ s[k].action \in WorkActions /\ s[k].round = rid
  BY DEF Working, RowsOf, Rows
<1>4. s[k].file \in Doc /\ s[k].path \in Path
  BY <1>3 DEF AllGrounded, Grounded, NamesItsDocument, Documented
<1>. QED
  BY <1>2, <1>3, <1>4 DEF Selected

LEMMA StartFile ==
    ASSUME NEW s \in Seq(RowType), AllGrounded(s), NEW rid \in Started(s)
    PROVE  Start(s, rid).file \in Doc
BY StartIs DEF AllGrounded, Grounded, NamesItsDocument, Documented

LEMMA BasisIs ==
    ASSUME NEW s \in Seq(RowType), AllGrounded(s), NEW rid \in Started(s)
    PROVE  Basis(s, rid) \in Doc
<1>1. CASE Working(s, rid) = {}
  BY <1>1, StartFile DEF Basis
<1>2. CASE Working(s, rid) # {}
  BY <1>2, WorkingIs DEF Basis
<1>. QED
  BY <1>1, <1>2

--------------------------------------------------------------------------------
(* Rounds and working documents.                                           *)

USE DEF WorkActions, IssueActions, PlanActions, KitEvents, CopyActions, FinalEvents

\* start_round
LEMMA StartRoundInv ==
    ASSUME DealInv, NEW rid \in Round, NEW prev \in Round \cup {NoRound}, NEW d \in Doc,
           StartRound(rid, prev, d)
    PROVE  DealInv'
<1> DEFINE n == Max(Sent(requests, prev))
           r == [Row("start_round", rid) EXCEPT
                   !.file = d, !.ref = IF prev = NoRound THEN 0 ELSE n,
                   !.basis = [NoBasis EXCEPT !.positions = history]]
<1>1. /\ rid \notin Started(requests) /\ Len(requests) < session.length /\ Propose(r)
      /\ prev # NoRound => Sent(requests, prev) # {}
  BY DEF StartRound, Asked
<1>2. /\ requests \in Seq(RowType) /\ Len(requests) \in Nat /\ DOMAIN requests = 1..Len(requests)
      /\ history \in Seq(Event) /\ session.length \in 0..MaxRequests
  BY InvHas
<1>3. ASSUME prev # NoRound
      PROVE  n \in DOMAIN requests /\ n \in Rows(requests, {"record_sent"}) /\ requests[n].round = prev
  <2>1. n \in RowsOf(requests, {"record_sent"}, prev)
    BY <1>1, <1>2, <1>3, RowsAreIndices DEF Sent
  <2>. QED
    BY <2>1 DEF RowsOf, Rows
<1>4. /\ r \in RowType /\ r.action = "start_round" /\ r.round = rid /\ r.content = NoContent
      /\ r.ref = (IF prev = NoRound THEN 0 ELSE n) /\ r.file = d
      /\ r.basis.rows = {} /\ r.basis.positions = history
  <2>1. Row("start_round", rid) \in RowType /\ [NoBasis EXCEPT !.positions = history] \in Bases
    BY <1>2, RowFields DEF Action, Bases
  <2>2. (IF prev = NoRound THEN 0 ELSE n) \in 0..MaxRequests
    BY <1>1, <1>2, <1>3, RequestLimit
  <2>3. "start_round" \in Action
    BY DEF Action
  <2> DEFINE ref == IF prev = NoRound THEN 0 ELSE n
             basis == [NoBasis EXCEPT !.positions = history]
  <2>4. ref \in 0..MaxRequests /\ basis \in Bases /\ basis.rows = {} /\ basis.positions = history
    BY <2>1, <2>2, RowFields DEF Bases
  <2>5. r = [Row("start_round", rid) EXCEPT !.file = d, !.ref = ref, !.basis = basis]
    OBVIOUS
  <2> HIDE DEF n, ref, basis, r
  <2>6. /\ r \in RowType /\ r.action = "start_round" /\ r.round = rid /\ r.content = NoContent
        /\ r.ref = ref /\ r.file = d /\ r.basis = basis
    BY <2>3, <2>4, <2>5, RowFields DEF Row, RowType
  <2>. QED
    BY <2>4, <2>6 DEF ref
<1> HIDE DEF r
<1>5. Follows(requests, r)
  <2>1. ASSUME prev # NoRound
        PROVE  n \in Rows(requests, {"record_sent"}) /\ n = Max(Sent(requests, requests[n].round))
    BY <1>3, <2>1
  <2> HIDE DEF n
  <2>. QED
    BY <1>1, <1>4, <2>1 DEF Follows
<1>6. Grounded(requests, Len(requests), r)
  BY <1>2, <1>3, <1>4 DEF Grounded, Refers, NamesItsDocument
<1>7. Found(r)
  BY <1>4, FoundPlainly, PresentPrefixes
<1>8. Seen(r)
  BY <1>4 DEF Seen
<1>. QED
  BY <1>1, <1>4, <1>5, <1>6, <1>7, <1>8, ProposeInv

\* record_sent
LEMMA RecordSentInv ==
    ASSUME DealInv, NEW rid \in Round, NEW d \in Doc, RecordSent(rid, d)
    PROVE  DealInv'
<1> DEFINE r == [Row("record_sent", rid) EXCEPT !.file = d]
<1>1. rid \in Started(requests) /\ Len(requests) < session.length /\ Propose(r)
  BY DEF RecordSent, Asked
<1>2. /\ r \in RowType /\ r.action = "record_sent" /\ r.round = rid /\ r.content = NoContent
      /\ r.ref = 0 /\ r.basis.rows = {} /\ r.basis.positions = <<>>
  BY RowFields DEF RowType, Action
<1> HIDE DEF r
<1>3. Follows(requests, r)
  BY <1>1, <1>2 DEF Follows
<1>4. Grounded(requests, Len(requests), r)
  BY <1>1, <1>2, InvHas DEF Grounded, Refers, NamesItsDocument, Documented
<1>5. Found(r)
  BY <1>2, FoundPlainly, PresentPrefixes
<1>6. Seen(r)
  BY <1>2 DEF Seen
<1>. QED
  BY <1>1, <1>2, <1>3, <1>4, <1>5, <1>6, ProposeInv

\* import_working_document
LEMMA ImportInv ==
    ASSUME DealInv, NEW rid \in Round, NEW path \in Path, ImportWorkingDocument(rid, path)
    PROVE  DealInv'
<1> DEFINE r == [Row("import_working_document", rid) EXCEPT !.file = file[path], !.path = path]
<1>1. /\ rid \in Started(requests) /\ Len(requests) < session.length /\ Propose(r)
      /\ Working(requests, rid) = {} /\ file[path] # NoDoc
  BY DEF ImportWorkingDocument, Asked, Readable
<1>2. file[path] \in Doc
  BY <1>1, InvHas
<1>3. /\ r \in RowType /\ r.action = "import_working_document" /\ r.round = rid
      /\ r.content = NoContent /\ r.ref = 0 /\ r.file \in Doc /\ r.path \in Path
      /\ r.basis.rows = {} /\ r.basis.positions = <<>>
  <2>1. "import_working_document" \in Action
    BY DEF Action
  <2>. QED
    BY <1>2, <2>1, RowFields, RequestLimit DEF Row, RowType
<1> HIDE DEF r
<1>4. Follows(requests, r)
  BY <1>1, <1>3 DEF Follows, WorkFollows
<1>5. Grounded(requests, Len(requests), r)
  BY <1>1, <1>3, InvHas DEF Grounded, Refers, NamesItsDocument
<1>6. Found(r)
  BY <1>3, FoundPlainly, PresentPrefixes
<1>7. Seen(r)
  BY <1>3 DEF Seen
<1>. QED
  BY <1>1, <1>3, <1>4, <1>5, <1>6, <1>7, ProposeInv

\* link_operation
LEMMA LinkOperationInv ==
    ASSUME DealInv, NEW rid \in Round, NEW o \in Operation, LinkOperation(rid, o)
    PROVE  DealInv'
<1> DEFINE r == [Row("link_operation", rid) EXCEPT
                   !.operation = o, !.file = Intent[o].candidate, !.path = Intent[o].path]
<1>1. /\ rid \in Started(requests) /\ Len(requests) < session.length /\ Propose(r)
      /\ o \notin AllLinked(requests)
      /\ IF Intent[o].mode = "create_new"
         THEN Intent[o].source \in Roles(requests, rid) \cup WorkingFiles(requests, rid)
         ELSE /\ Working(requests, rid) # {}
              /\ Selected(requests, rid).file = Intent[o].source
              /\ Selected(requests, rid).path = Intent[o].path
  BY DEF LinkOperation, Asked
<1>2. Intent[o].candidate \in Doc /\ Intent[o].path \in Path
  BY IntentsOK
<1>3. /\ r \in RowType /\ r.action = "link_operation" /\ r.round = rid /\ r.operation = o
      /\ r.content = NoContent /\ r.ref = 0
      /\ r.basis.rows = {} /\ r.basis.positions = <<>>
  <2>1. "link_operation" \in Action
    BY DEF Action
  <2>. QED
    BY <1>2, <2>1, RowFields, RequestLimit DEF Row, RowType
<1> HIDE DEF r
<1>4. Follows(requests, r)
  BY <1>1, <1>3 DEF Follows
<1>5. Grounded(requests, Len(requests), r)
  BY <1>1, <1>3, InvHas DEF Grounded, Refers, NamesItsDocument, Documented
<1>6. Found(r)
  BY <1>3, FoundPlainly, PresentPrefixes
<1>7. Seen(r)
  BY <1>3 DEF Seen
<1>. QED
  BY <1>1, <1>3, <1>4, <1>5, <1>6, <1>7, ProposeInv

\* link_working_document
LEMMA LinkWorkingInv ==
    ASSUME DealInv, NEW rid \in Round, NEW o \in Operation, LinkWorkingDocument(rid, o)
    PROVE  DealInv'
<1> DEFINE ref == IF Working(requests, rid) = {} THEN 0 ELSE Max(Working(requests, rid))
           r == [Row("link_working_document", rid) EXCEPT
                   !.operation = o, !.file = Intent[o].candidate, !.path = Intent[o].path,
                   !.ref = ref]
<1>1. /\ rid \in Started(requests) /\ Len(requests) < session.length /\ Propose(r)
      /\ o \in Linked(requests, rid) /\ o \notin Applied(requests)
      /\ ExtendsSelected(requests, rid, o)
  BY DEF LinkWorkingDocument, Asked
<1>2. Intent[o].candidate \in Doc /\ Intent[o].path \in Path
  BY IntentsOK
<1>3. /\ requests \in Seq(RowType) /\ Len(requests) \in Nat /\ DOMAIN requests = 1..Len(requests)
      /\ session.length \in 0..MaxRequests /\ AllGrounded(requests)
  BY InvHas
<1>4. ref \in 0..Len(requests)
  BY <1>3, WorkingIs
<1>5. ref \in 0..MaxRequests
  BY <1>1, <1>3, <1>4, RequestLimit
<1> HIDE DEF ref
<1>6. /\ r \in RowType /\ r.action = "link_working_document" /\ r.round = rid /\ r.operation = o
      /\ r.file = Intent[o].candidate /\ r.path = Intent[o].path
      /\ r.content = NoContent /\ r.ref = ref
      /\ r.basis.rows = {} /\ r.basis.positions = <<>>
  <2>1. "link_working_document" \in Action
    BY DEF Action
  <2>. QED
    BY <1>2, <1>5, <2>1, RowFields DEF Row, RowType
<1> HIDE DEF r
<1>7. Follows(requests, r)
  <2>1. WorkFollows(requests, r)
    BY <1>1, <1>6 DEF WorkFollows, ref, ExtendsSelected
  <2>. QED
    BY <1>1, <1>6, <2>1 DEF Follows
<1>8. Grounded(requests, Len(requests), r)
  BY <1>1, <1>2, <1>4, <1>6 DEF Grounded, Refers, NamesItsDocument
<1>9. Found(r)
  BY <1>6, FoundPlainly, PresentPrefixes
<1>10. Seen(r)
  BY <1>6 DEF Seen
<1>. QED
  BY <1>1, <1>6, <1>7, <1>8, <1>9, <1>10, ProposeInv

\* record_working_version
LEMMA RecordVersionInv ==
    ASSUME DealInv, NEW rid \in Round, RecordWorkingVersion(rid)
    PROVE  DealInv'
<1>1. /\ rid \in Started(requests) /\ Len(requests) < session.length
      /\ Working(requests, rid) # {}
  BY DEF RecordWorkingVersion, Asked
<1>2. /\ requests \in Seq(RowType) /\ Len(requests) \in Nat /\ DOMAIN requests = 1..Len(requests)
      /\ session.length \in 0..MaxRequests /\ AllGrounded(requests)
      /\ file \in [Path \cup Folder -> Doc \cup {NoDoc}]
  BY InvHas
<1>3. PICK k \in DOMAIN requests :
         /\ k = Max(Working(requests, rid)) /\ Selected(requests, rid) = requests[k]
         /\ requests[k].path \in Path
  BY <1>1, <1>2, WorkingIs
<1> DEFINE d == file[requests[k].path]
           r == [Row("record_working_version", rid) EXCEPT
                   !.file = d, !.path = requests[k].path, !.ref = k]
<1>4. d \notin {NoDoc, requests[k].file} /\ Propose(r)
  BY <1>3 DEF RecordWorkingVersion
<1>5. d \in Doc
  BY <1>2, <1>3, <1>4
<1> HIDE DEF d
<1>6. /\ r \in RowType /\ r.action = "record_working_version" /\ r.round = rid
      /\ r.file = d /\ r.path = requests[k].path /\ r.content = NoContent /\ r.ref = k
      /\ r.basis.rows = {} /\ r.basis.positions = <<>>
  <2>1. "record_working_version" \in Action
    BY DEF Action
  <2>2. k \in 0..MaxRequests
    BY <1>1, <1>2, <1>3, RequestLimit
  <2>. QED
    BY <1>3, <1>5, <2>1, <2>2, RowFields DEF Row, RowType
<1> HIDE DEF r
<1>7. Follows(requests, r)
  <2>1. WorkFollows(requests, r)
    BY <1>1, <1>3, <1>4, <1>6 DEF WorkFollows
  <2>. QED
    BY <1>1, <1>6, <2>1 DEF Follows
<1>8. Grounded(requests, Len(requests), r)
  BY <1>1, <1>2, <1>3, <1>5, <1>6 DEF Grounded, Refers, NamesItsDocument
<1>9. Found(r)
  BY <1>6, FoundPlainly, PresentPrefixes
<1>10. Seen(r)
  BY <1>6 DEF Seen
<1>. QED
  BY <1>1, <1>4, <1>6, <1>7, <1>8, <1>9, <1>10, ProposeInv

--------------------------------------------------------------------------------
(* Issues.                                                                 *)

\* What the latest event of a position left, if it has any.
LEMMA LatestIs ==
    ASSUME NEW h \in Seq(Event), NEW p
    PROVE  /\ Latest(h, p) \in State \cup {Unknown} /\ Latest(h, p).version \in Nat
           /\ Events(h, p) # {} =>
                 /\ Max(Events(h, p)) \in Events(h, p)
                 /\ Max(Events(h, p)) \in DOMAIN h
                 /\ \A i \in Events(h, p) : Max(Events(h, p)) >= i
                 /\ Latest(h, p) \in State
<1>1. Len(h) \in Nat /\ DOMAIN h = 1..Len(h) /\ Events(h, p) \in SUBSET (1..Len(h))
  BY DEF Events
<1>2. ASSUME Events(h, p) # {}
      PROVE  /\ Max(Events(h, p)) \in Events(h, p)
             /\ \A i \in Events(h, p) : Max(Events(h, p)) >= i
  BY <1>1, <1>2, Greatest
<1>3. ASSUME NEW i \in DOMAIN h PROVE h[i].state \in State /\ h[i].position \in Position
  <2>1. h[i] \in Event
    BY Member
  <2>. QED
    BY <2>1 DEF Event
<1>4. Events(h, p) # {} => Latest(h, p) \in State
  BY <1>1, <1>2, <1>3 DEF Latest
<1>5. Events(h, p) = {} => Latest(h, p) = Unknown
  BY DEF Latest
<1>. QED
  BY <1>1, <1>2, <1>4, <1>5 DEF State, Unknown

LEMMA LinkIs ==
    ASSUME NEW h \in Seq(Event), NEW n \in 1..Len(h), NEW p \in Known(h)
    PROVE  LinkTo(SubSeq(h, 1, n), p) \in Link
<1>1. SubSeq(h, 1, n) \in Seq(Event)
  OBVIOUS
<1>2. p \in Position
  <2>1. PICK i \in DOMAIN h : p = h[i].position
    BY DEF Known
  <2>2. h[i] \in Event
    BY Member
  <2>. QED
    BY <2>1, <2>2 DEF Event
<1>. QED
  BY <1>1, <1>2, LatestIs DEF LinkTo, Link

\* What an event keeps, later events keep.
LEMMA KeepsSelf == ASSUME NEW c \in Contents PROVE Keeps(c, c)
BY PrefixSelf DEF Keeps, Contents

LEMMA KeepsOn ==
    ASSUME NEW a \in Contents, NEW b \in Contents, NEW c \in Contents, Keeps(a, b), Keeps(b, c)
    PROVE  Keeps(a, c)
<1>1. a.version \in Nat /\ b.version \in Nat /\ c.version \in Nat
  BY DEF Contents
<1>2. /\ a.operations \in Seq(Operation) /\ b.operations \in Seq(Operation)
      /\ c.operations \in Seq(Operation)
  BY DEF Contents
<1>3. a.version <= c.version
  BY <1>1 DEF Keeps
<1>4. ASSUME a.version = c.version
      PROVE  /\ c.proposal = a.proposal /\ c.link = a.link
             /\ IsPrefix(a.operations, c.operations)
             /\ a.decision # NoDecision => c.decision = a.decision
  <2>1. a.version = b.version /\ b.version = c.version
    BY <1>1, <1>4 DEF Keeps
  <2>2. IsPrefix(a.operations, b.operations) /\ IsPrefix(b.operations, c.operations)
    BY <2>1 DEF Keeps
  <2>3. IsPrefix(a.operations, c.operations)
    BY <1>2, <2>2, PrefixTransitive
  <2>4. /\ c.proposal = b.proposal /\ c.link = b.link
        /\ b.decision # NoDecision => c.decision = b.decision
    BY <2>1 DEF Keeps
  <2>5. /\ b.proposal = a.proposal /\ b.link = a.link
        /\ a.decision # NoDecision => b.decision = a.decision
    BY <2>1 DEF Keeps
  <2>. QED
    BY <2>3, <2>4, <2>5
<1>. QED
  BY <1>3, <1>4 DEF Keeps

\* The latest event of an issue keeps what all of its events say.
LEMMA IssueIs ==
    ASSUME NEW s \in Seq(RowType), AllGrounded(s), NEW issue
    PROVE  /\ LatestIssue(s, issue) = 0 => IssueRows(s, issue) = {}
           /\ LatestIssue(s, issue) # 0 =>
                 LET last == LatestIssue(s, issue)
                 IN /\ last \in IssueRows(s, issue) /\ last \in DOMAIN s
                    /\ s[last].content \in Contents
                    /\ s[last].content.issue = issue
                    /\ ContentMatches(s, s[last].round, s[last].content)
                    /\ \A i \in IssueRows(s, issue) :
                          /\ last >= i /\ s[i].content \in Contents
                          /\ s[i].round = s[last].round
                          /\ Keeps(s[i].content, s[last].content)
<1> DEFINE last == LatestIssue(s, issue)
<1>1. IssueRows(s, issue) \in SUBSET (1..Len(s)) /\ Len(s) \in Nat /\ DOMAIN s = 1..Len(s)
  BY DEF IssueRows, Rows
<1>2. CASE IssueRows(s, issue) = {}
  BY <1>2 DEF LatestIssue
<1>3. CASE IssueRows(s, issue) # {}
  <2>1. last \in IssueRows(s, issue) /\ \A i \in IssueRows(s, issue) : last >= i
    BY <1>1, <1>3, Greatest DEF LatestIssue
  <2> HIDE DEF last
  <2>2. ASSUME NEW i \in IssueRows(s, issue)
        PROVE  /\ i \in 1..Len(s) /\ s[i].content \in Contents
               /\ s[i].action \in IssueActions /\ s[i].content.issue = issue
    <3>1. i \in DOMAIN s /\ s[i].action \in IssueActions /\ s[i].content.issue = issue
      BY DEF IssueRows, Rows
    <3>2. s[i] \in RowType
      BY <3>1, Member
    <3>. QED
      BY <1>1, <3>1, <3>2 DEF RowType
  <2>3. last \in 1..Len(s) /\ s[last].content.issue = issue /\ s[last].content \in Contents
    BY <2>1, <2>2
  <2>4. Grounded(s, last - 1, s[last])
    BY <1>1, <2>3 DEF AllGrounded
  <2>5. /\ ContentMatches(s, s[last].round, s[last].content)
        /\ \A i \in (1..(last - 1)) \cap IssueRows(s, issue) :
              s[i].round = s[last].round /\ Keeps(s[i].content, s[last].content)
    BY <2>1, <2>2, <2>4 DEF Grounded
  <2>6. ASSUME NEW i \in IssueRows(s, issue)
        PROVE  s[i].round = s[last].round /\ Keeps(s[i].content, s[last].content)
    <3>1. CASE i = last
      BY <2>3, <3>1, KeepsSelf
    <3>2. CASE i # last
      <4>1. i \in 1..(last - 1)
        <5>1. last >= i /\ i \in 1..Len(s) /\ last \in 1..Len(s)
          BY <2>1, <2>2, <2>3
        <5>. QED
          BY <1>1, <3>2, <5>1
      <4>. QED
        BY <2>5, <4>1
    <3>. QED
      BY <3>1, <3>2
  <2>7. last # 0
    BY <2>3
  <2>. QED
    BY <1>1, <1>3, <2>1, <2>2, <2>3, <2>5, <2>6, <2>7 DEF last
<1>. QED
  BY <1>2, <1>3

\* An issue event that follows the latest one and keeps what it says.
LEMMA IssueInv ==
    ASSUME DealInv, NEW rid \in Started(requests) \cap Round, NEW action \in IssueActions,
           NEW c \in Contents, c.issue \in Issue,
           Len(requests) < session.length,
           LET r == [Row(action, rid) EXCEPT !.content = c] IN Propose(r) /\ IssueFollows(requests, r),
           ContentMatches(requests, rid, c),
           LET last == LatestIssue(requests, c.issue)
           IN last # 0 => requests[last].round = rid /\ Keeps(requests[last].content, c),
           c.link # NoLink => LinkStatus(c.link, history) # "unavailable"
    PROVE  DealInv'
<1> DEFINE r == [Row(action, rid) EXCEPT !.content = c]
           last == LatestIssue(requests, c.issue)
<1>1. /\ requests \in Seq(RowType) /\ Len(requests) \in Nat /\ DOMAIN requests = 1..Len(requests)
      /\ AllGrounded(requests)
  BY InvHas
<1>2. /\ r \in RowType /\ r.action = action /\ r.round = rid /\ r.content = c /\ r.ref = 0
      /\ r.basis.rows = {} /\ r.basis.positions = <<>>
  <2>1. action \in Action
    BY DEF Action
  <2>. QED
    BY <2>1, RowFields, RequestLimit DEF Row, RowType
<1>3. Propose(r) /\ IssueFollows(requests, r)
  OBVIOUS
<1> HIDE DEF r
<1>4. Follows(requests, r)
  BY <1>2, <1>3 DEF Follows
<1>5. ASSUME NEW i \in (1..Len(requests)) \cap IssueRows(requests, c.issue)
      PROVE  requests[i].round = rid /\ Keeps(requests[i].content, c)
  <2>1. last # 0 /\ i \in IssueRows(requests, c.issue)
    BY <1>1, IssueIs
  <2>2. /\ requests[last].content \in Contents /\ requests[i].content \in Contents
        /\ requests[i].round = requests[last].round
        /\ Keeps(requests[i].content, requests[last].content)
    BY <1>1, <2>1, IssueIs
  <2>3. requests[last].round = rid /\ Keeps(requests[last].content, c)
    BY <2>1
  <2>. QED
    BY <2>2, <2>3, KeepsOn
<1>6. Grounded(requests, Len(requests), r)
  BY <1>1, <1>2, <1>5 DEF Grounded, Refers, NamesItsDocument, Documented
<1>7. Found(r)
  BY <1>2, PresentPrefixes DEF Found
<1>8. Seen(r)
  BY <1>2 DEF Seen
<1>. QED
  BY <1>2, <1>3, <1>4, <1>6, <1>7, <1>8, ProposeInv

\* save_issue
LEMMA SaveIssueInv ==
    ASSUME DealInv, NEW rid \in Round, NEW issue \in Issue, NEW proposal \in Proposal,
           NEW link \in {NoLink} \cup {LinkTo(SubSeq(history, 1, n), p) :
                                          n \in 1..Len(history), p \in Known(history)},
           NEW operations \in {<<>>} \cup {<<o>> : o \in Operation},
           SaveIssue(rid, issue, proposal, link, operations)
    PROVE  DealInv'
<1> DEFINE last == LatestIssue(requests, issue)
           version0 == IF last = 0 THEN 1 ELSE Issued(issue).version + 1
           c == [issue |-> issue, decision |-> NoDecision, link |-> link,
                 version |-> version0, operations |-> operations, proposal |-> proposal]
           r == [Row("save_issue", rid) EXCEPT !.content = c]
<1>1. /\ rid \in Started(requests) /\ Len(requests) < session.length /\ Propose(r)
      /\ last # 0 => requests[last].round = rid
      /\ ContentMatches(requests, rid, c)
      /\ link # NoLink => CurrentPosition(link, history)
  BY DEF SaveIssue, Asked, IssueOpen
<1>2. /\ requests \in Seq(RowType) /\ AllGrounded(requests) /\ history \in Seq(Event)
  BY InvHas
<1>3. last # 0 => Issued(issue) = requests[last].content /\ Issued(issue) \in Contents
  BY <1>2, IssueIs DEF Issued
<1>4. version0 \in Nat
  BY <1>3 DEF Contents
<1>5. c \in Contents
  <2>1. link \in Link \cup {NoLink}
    BY <1>2, LinkIs
  <2>2. operations \in Seq(Operation)
    <3>1. CASE operations = <<>>
      BY <3>1
    <3>2. ASSUME NEW o \in Operation, operations = <<o>> PROVE operations \in Seq(Operation)
      BY <3>2
    <3>. QED
      BY <3>1, <3>2
  <2>3. NoDecision \in [choice : Choice \cup {"none"}, basis : Doc \cup {NoDoc}]
    BY DEF NoDecision
  <2> HIDE DEF version0
  <2>. QED
    BY <1>4, <2>1, <2>2, <2>3 DEF Contents
<1>6. last # 0 => Keeps(requests[last].content, c)
  <2>1. ASSUME last # 0 PROVE version0 = requests[last].content.version + 1
                              /\ requests[last].content.version \in Nat
    BY <1>3, <2>1 DEF Contents
  <2>. QED
    BY <2>1 DEF Keeps
<1>7. IssueFollows(requests, r)
  <2>1. r.content = c /\ r.action = "save_issue" /\ r.round = rid
    BY DEF Row
  <2>2. NoContent.version = 0
    BY DEF NoContent
  <2>. QED
    BY <1>1, <1>3, <2>1, <2>2 DEF IssueFollows
<1>8. c.link # NoLink => LinkStatus(c.link, history) # "unavailable"
  BY <1>1 DEF CurrentPosition
<1>9. c.issue = issue
  OBVIOUS
<1> HIDE DEF c
<1>. QED
  BY <1>1, <1>5, <1>6, <1>7, <1>8, <1>9, IssueInv

\* What is known of an issue that is open.
LEMMA OpenIssue ==
    ASSUME DealInv, NEW rid \in Round, NEW issue \in Issue, IssueOpen(rid, issue),
           LatestIssue(requests, issue) # 0
    PROVE  LET last == LatestIssue(requests, issue)
               old == requests[last].content
           IN /\ rid \in Started(requests) /\ requests[last].round = rid
              /\ old = Issued(issue) /\ old \in Contents /\ old.issue = issue
              /\ ContentMatches(requests, rid, old)
              /\ old.link # NoLink => LinkStatus(old.link, history) # "unavailable"
<1>1. requests \in Seq(RowType) /\ AllGrounded(requests)
  BY InvHas
<1>2. LET last == LatestIssue(requests, issue)
      IN /\ last \in DOMAIN requests /\ requests[last].content \in Contents
         /\ requests[last].content.issue = issue
         /\ ContentMatches(requests, requests[last].round, requests[last].content)
  BY <1>1, IssueIs
<1>3. Found(requests[LatestIssue(requests, issue)])
  BY <1>2 DEF DealInv, PositionLinksResolve
<1>. QED
  BY <1>2, <1>3 DEF IssueOpen, Issued, Found

\* link_issue_operation
LEMMA LinkIssueInv ==
    ASSUME DealInv, NEW rid \in Round, NEW issue \in Issue, NEW o \in Operation,
           LinkIssueOperation(rid, issue, o)
    PROVE  DealInv'
<1> DEFINE last == LatestIssue(requests, issue)
           old == requests[last].content
           c == [Issued(issue) EXCEPT !.operations = Append(@, o)]
           r == [Row("link_issue_operation", rid) EXCEPT !.content = c]
<1>1. /\ IssueOpen(rid, issue) /\ Len(requests) < session.length /\ Propose(r)
      /\ last # 0 /\ o \in Linked(requests, rid)
  BY DEF LinkIssueOperation, Asked
<1>2. /\ rid \in Started(requests) /\ requests[last].round = rid
      /\ old = Issued(issue) /\ old \in Contents /\ old.issue = issue
      /\ ContentMatches(requests, rid, old)
      /\ old.link # NoLink => LinkStatus(old.link, history) # "unavailable"
  BY <1>1, OpenIssue
<1> HIDE DEF old
<1>3. old.operations \in Seq(Operation)
  BY <1>2 DEF Contents
<1> DEFINE ops == Append(old.operations, o)
<1>4. /\ ops \in Seq(Operation) /\ ops # <<>> /\ Last(ops) = o
      /\ ToSet(ops) \subseteq ToSet(old.operations) \cup {o}
      /\ IsPrefix(old.operations, ops)
  <2>1. ops \in Seq(Operation) /\ Len(ops) = Len(old.operations) + 1 /\ ops[Len(ops)] = o
        /\ DOMAIN ops = DOMAIN old.operations \cup {Len(ops)}
        /\ \A i \in DOMAIN old.operations : ops[i] = old.operations[i]
    BY <1>3
  <2>2. IsPrefix(old.operations, ops)
    <3> HIDE DEF ops
    <3>. QED
      BY <1>3, <2>1, PrefixIs
  <2>3. ops # <<>>
    BY <1>3, <2>1
  <2> HIDE DEF ops
  <2>. QED
    BY <2>1, <2>2, <2>3 DEF Last, ToSet
<1>5. c = [old EXCEPT !.operations = ops]
  BY <1>2
<1>6. /\ c \in Contents /\ c.issue = issue /\ c.version = old.version /\ c.link = old.link
      /\ c.decision = old.decision /\ c.proposal = old.proposal /\ c.operations = ops
  <2> HIDE DEF c, ops
  <2>. QED
    BY <1>2, <1>4, <1>5 DEF Contents
<1> HIDE DEF ops, c
<1>7. Keeps(old, c)
  BY <1>2, <1>4, <1>6 DEF Keeps, Contents
<1>8. ContentMatches(requests, rid, c)
  BY <1>1, <1>2, <1>4, <1>6 DEF ContentMatches
<1>9. IssueFollows(requests, r)
  <2>1. r.content = c /\ r.action = "link_issue_operation" /\ r.round = rid
    BY DEF Row
  <2>2. c = [old EXCEPT !.operations = Append(@, Last(c.operations))]
    BY <1>4, <1>5, <1>6 DEF ops
  <2> HIDE DEF r
  <2>. QED
    BY <1>1, <1>2, <1>4, <1>6, <1>8, <2>1, <2>2 DEF IssueFollows, old
<1>. QED
  BY <1>1, <1>2, <1>6, <1>7, <1>8, <1>9, IssueInv DEF old

\* decide_issue
LEMMA DecideIssueInv ==
    ASSUME DealInv, NEW rid \in Round, NEW issue \in Issue, NEW choice \in Choice,
           DecideIssue(rid, issue, choice)
    PROVE  DealInv'
<1> DEFINE last == LatestIssue(requests, issue)
           old == requests[last].content
           decision == [choice |-> choice, basis |-> Basis(requests, rid)]
           c == [Issued(issue) EXCEPT !.decision = decision]
           r == [Row("decide_issue", rid) EXCEPT !.content = c]
<1>1. /\ IssueOpen(rid, issue) /\ Len(requests) < session.length /\ Propose(r)
      /\ last # 0 /\ Issued(issue).decision = NoDecision
  BY DEF DecideIssue, Asked
<1>2. /\ rid \in Started(requests) /\ requests[last].round = rid
      /\ old = Issued(issue) /\ old \in Contents /\ old.issue = issue
      /\ ContentMatches(requests, rid, old)
      /\ old.link # NoLink => LinkStatus(old.link, history) # "unavailable"
  BY <1>1, OpenIssue
<1> HIDE DEF old
<1>3. /\ decision \in [choice : Choice \cup {"none"}, basis : Doc \cup {NoDoc}]
      /\ decision # NoDecision /\ decision.basis = Basis(requests, rid)
  <2>1. Basis(requests, rid) \in Doc
    BY <1>2, InvHas, BasisIs
  <2>. QED
    BY <2>1, DistinctNothings DEF NoDecision
<1> HIDE DEF decision
<1>4. c = [old EXCEPT !.decision = decision]
  BY <1>2
<1>5. /\ c \in Contents /\ c.issue = issue /\ c.version = old.version /\ c.link = old.link
      /\ c.decision = decision /\ c.proposal = old.proposal /\ c.operations = old.operations
  <2> HIDE DEF c
  <2>. QED
    BY <1>2, <1>3, <1>4 DEF Contents
<1> HIDE DEF c
<1>6. Keeps(old, c)
  <2>1. IsPrefix(old.operations, old.operations) /\ old.version \in Nat
    BY <1>2, PrefixSelf DEF Contents
  <2>. QED
    BY <1>1, <1>2, <1>5, <2>1 DEF Keeps
<1>7. ContentMatches(requests, rid, c)
  BY <1>2, <1>5 DEF ContentMatches
<1>8. IssueFollows(requests, r)
  <2>1. r.content = c /\ r.action = "decide_issue" /\ r.round = rid
    BY DEF Row
  <2> HIDE DEF r
  <2>. QED
    BY <1>1, <1>2, <1>3, <1>4, <1>5, <1>7, <2>1 DEF IssueFollows, old
<1>. QED
  BY <1>1, <1>2, <1>5, <1>6, <1>7, <1>8, IssueInv DEF old

--------------------------------------------------------------------------------
(* Working copies and kits.                                                *)

\* prepare_working_copy
LEMMA PrepareCopyInv ==
    ASSUME DealInv, NEW rid \in Round, NEW path \in Path, PrepareWorkingCopy(rid, path)
    PROVE  DealInv'
<1> DEFINE d == Start(requests, rid).file
           r == [Row("prepare_working_copy", rid) EXCEPT !.file = d, !.path = path]
<1>1. /\ rid \in Started(requests) /\ Len(requests) < session.length /\ Propose(r)
      /\ CopyAllowed(requests, rid)
      /\ \A i \in Rows(requests, {"prepare_working_copy"}) : requests[i].path # path
  BY DEF PrepareWorkingCopy, Asked
<1>2. d \in Doc
  BY <1>1, InvHas, StartFile
<1> HIDE DEF d
<1>3. /\ r \in RowType /\ r.action = "prepare_working_copy" /\ r.round = rid
      /\ r.file = d /\ r.path = path /\ r.content = NoContent /\ r.ref = 0
      /\ r.basis.rows = {} /\ r.basis.positions = <<>>
  <2>1. "prepare_working_copy" \in Action
    BY DEF Action
  <2>. QED
    BY <1>2, <2>1, RowFields, RequestLimit DEF Row, RowType
<1> HIDE DEF r
<1>4. Follows(requests, r)
  <2>1. CopyFollows(requests, r)
    BY <1>1, <1>3 DEF CopyFollows, CopyAllowed, d
  <2>. QED
    BY <1>1, <1>3, <2>1 DEF Follows
<1>5. Grounded(requests, Len(requests), r)
  BY <1>1, <1>2, <1>3, InvHas DEF Grounded, Refers, NamesItsDocument, d
<1>6. Found(r)
  BY <1>3, FoundPlainly, PresentPrefixes
<1>7. Seen(r)
  BY <1>3 DEF Seen
<1>. QED
  BY <1>1, <1>3, <1>4, <1>5, <1>6, <1>7, ProposeInv

\* The rows of plans, and what they name.
LEMMA PlanIs ==
    ASSUME DealInv, NEW action, NEW plan \in Rows(requests, action)
    PROVE  /\ plan \in 1..Len(requests) /\ plan \in DOMAIN requests /\ Len(requests) <= MaxRequests
           /\ plan \in 0..MaxRequests /\ Len(requests) \in Nat
           /\ requests[plan] \in RowType /\ requests[plan].action \in action
           /\ requests[plan].round \in Round
           /\ plan \in RowsOf(requests, action, requests[plan].round)
           /\ Grounded(requests, plan - 1, requests[plan]) /\ Found(requests[plan])
           /\ requests[plan].round \in Started(requests)
<1>1. /\ requests \in Seq(RowType) /\ DOMAIN requests = 1..Len(requests) /\ AllGrounded(requests)
      /\ Len(requests) <= session.length /\ session.length \in 0..MaxRequests
      /\ Len(requests) \in Nat
  BY InvHas
<1>2. plan \in DOMAIN requests /\ requests[plan].action \in action
  BY DEF Rows
<1>3. requests[plan] \in RowType
  BY <1>1, <1>2, Member
<1>4. Grounded(requests, plan - 1, requests[plan]) /\ Found(requests[plan])
  BY <1>1, <1>2 DEF AllGrounded, DealInv, PositionLinksResolve
<1>5. requests[plan].round \in Started(requests)
  BY <1>2, <1>4 DEF Grounded, Started, Rows
<1>6. Len(requests) <= MaxRequests /\ plan \in 1..Len(requests) /\ plan \in 0..MaxRequests
  BY <1>1, <1>2, RequestLimit
<1>. QED
  BY <1>1, <1>2, <1>3, <1>4, <1>5, <1>6 DEF RowsOf, RowType

\* publish_working_copy, record_working_copy_verification
LEMMA SelectCopyInv ==
    ASSUME DealInv, NEW action \in CopyActions, NEW plan, SelectWorkingCopy(action, plan)
    PROVE  DealInv'
<1> DEFINE p == requests[plan]
           r == [Row(action, p.round) EXCEPT !.file = p.file, !.path = p.path, !.ref = plan]
<1>1. /\ plan \in Rows(requests, {"prepare_working_copy"}) /\ Len(requests) < session.length
      /\ Propose(r) /\ CopyAllowed(requests, p.round)
  BY DEF SelectWorkingCopy, Asked
<1>2. /\ plan \in 1..Len(requests) /\ plan \in 0..MaxRequests
      /\ plan \in RowsOf(requests, {"prepare_working_copy"}, p.round)
      /\ p \in RowType /\ p.action = "prepare_working_copy" /\ p.round \in Round
      /\ p.round \in Started(requests) /\ Grounded(requests, plan - 1, p)
      /\ Len(requests) \in Nat
  BY <1>1, PlanIs
<1>3. p.file \in Doc /\ p.path \in Path /\ p.file = Start(requests, p.round).file
  BY <1>2 DEF Grounded, NamesItsDocument, Documented
<1> HIDE DEF p
<1>4. /\ r \in RowType /\ r.action = action /\ r.round = p.round
      /\ r.file = p.file /\ r.path = p.path /\ r.content = NoContent /\ r.ref = plan
      /\ r.basis.rows = {} /\ r.basis.positions = <<>>
  <2>1. action \in Action
    BY DEF Action
  <2>. QED
    BY <1>2, <1>3, <2>1, RowFields DEF Row, RowType
<1> HIDE DEF r
<1>5. Follows(requests, r)
  <2>1. CopyFollows(requests, r)
    BY <1>1, <1>2, <1>4 DEF CopyFollows, CopyAllowed, p
  <2>2. WorkFollows(requests, r)
    BY <1>1, <1>3, <1>4 DEF WorkFollows, CopyAllowed
  <2>. QED
    BY <1>2, <1>4, <2>1, <2>2 DEF Follows
<1>6. Grounded(requests, Len(requests), r)
  BY <1>2, <1>3, <1>4 DEF Grounded, Refers, NamesItsDocument, Documented
<1>7. Found(r)
  BY <1>4, FoundPlainly, PresentPrefixes
<1>8. Seen(r)
  BY <1>4 DEF Seen
<1>. QED
  BY <1>1, <1>4, <1>5, <1>6, <1>7, <1>8, ProposeInv

\* What a kit is bound to are rows and the positions of the store.
LEMMA KitBasisIs ==
    ASSUME DealInv, NEW rid, Working(requests, rid) # {}
    PROVE  LET basis == KitBasis(requests, rid, history)
           IN /\ basis \in Bases /\ basis.rows \subseteq 1..Len(requests)
              /\ basis.positions = history
<1>1. /\ requests \in Seq(RowType) /\ DOMAIN requests = 1..Len(requests) /\ AllGrounded(requests)
      /\ Len(requests) <= session.length /\ session.length \in 0..MaxRequests
      /\ Len(requests) \in Nat /\ history \in Seq(Event)
  BY InvHas
<1>2. Max(Working(requests, rid)) \in 1..Len(requests)
  BY <1>1, WorkingIs
<1>3. LatestIssues(requests) \subseteq 1..Len(requests)
  BY <1>1, IssueIs DEF LatestIssues
<1>4. 1..Len(requests) \subseteq 1..MaxRequests
  BY <1>1, RequestLimit
<1> DEFINE rows == {Max(Working(requests, rid))}
                   \cup {i \in LatestIssues(requests) : requests[i].round = rid}
<1>5. rows \subseteq 1..Len(requests) /\ rows \in SUBSET (1..MaxRequests)
  BY <1>2, <1>3, <1>4
<1>6. KitBasis(requests, rid, history) = [NoBasis EXCEPT !.rows = rows, !.positions = history]
  BY Zenon DEF KitBasis
<1> HIDE DEF rows
<1>. QED
  BY <1>1, <1>5, <1>6 DEF Bases, NoBasis

\* prepare_outgoing_package, prepare_outgoing_package_with_table
LEMMA PrepareKitInv ==
    ASSUME DealInv, NEW rid \in Round, NEW path \in Folder, NEW action \in PlanActions,
           NEW cleanup \in BOOLEAN, PrepareOutgoingPackage(rid, path, action, cleanup)
    PROVE  DealInv'
<1> DEFINE k == Max(Working(requests, rid))
           d == Selected(requests, rid).file
           basis == KitBasis(requests, rid, history)
           r == [Row(action, rid) EXCEPT !.file = d, !.path = path, !.cleanup = cleanup,
                                         !.ref = k, !.basis = basis]
<1>1. /\ rid \in Started(requests) /\ Len(requests) < session.length /\ Propose(r)
      /\ Working(requests, rid) # {}
  BY DEF PrepareOutgoingPackage, Asked
<1>2. /\ requests \in Seq(RowType) /\ DOMAIN requests = 1..Len(requests) /\ AllGrounded(requests)
      /\ Len(requests) <= session.length /\ session.length \in 0..MaxRequests
      /\ Len(requests) \in Nat
  BY InvHas
<1>3. k \in 1..Len(requests) /\ d = requests[k].file /\ d \in Doc
  BY <1>1, <1>2, WorkingIs
<1>4. basis \in Bases /\ basis.rows \subseteq 1..Len(requests) /\ basis.positions = history
  BY <1>1, KitBasisIs
<1>5. k \in 0..MaxRequests
  BY <1>2, <1>3, RequestLimit
<1> HIDE DEF k, d, basis
<1>6. /\ r \in RowType /\ r.action = action /\ r.round = rid /\ r.file = d
      /\ r.content = NoContent /\ r.ref = k /\ r.basis = basis
  <2>1. action \in Action
    BY DEF Action
  <2>. QED
    BY <1>3, <1>4, <1>5, <2>1, RowFields DEF Row, RowType
<1> HIDE DEF r
<1>7. Follows(requests, r)
  <2>1. OutgoingFollows(requests, r)
    <3>1. r.basis = KitBasis(requests, r.round, r.basis.positions)
      BY <1>4, <1>6 DEF basis
    <3>. QED
      BY <1>1, <1>3, <1>6, <3>1 DEF OutgoingFollows, k
  <2>. QED
    BY <1>1, <1>6, <2>1 DEF Follows
<1>8. Grounded(requests, Len(requests), r)
  BY <1>1, <1>2, <1>3, <1>4, <1>6 DEF Grounded, Refers, NamesItsDocument
<1>9. Found(r)
  BY <1>4, <1>6, FoundPlainly, PresentPrefixes
<1>10. Seen(r)
  BY <1>6 DEF Seen
<1>. QED
  BY <1>1, <1>6, <1>7, <1>8, <1>9, <1>10, ProposeInv

\* An event of a plan refers to it and says nothing else.
LEMMA EventIs ==
    ASSUME DealInv, NEW A, NEW plan \in Rows(requests, A), NEW action \in Action,
           action \notin Documented \cup IssueActions \cup CopyActions,
           action \notin {"link_operation", "start_round", "prepare_final_saved_review"}
    PROVE  LET r == [Row(action, requests[plan].round) EXCEPT !.ref = plan]
           IN /\ r \in RowType /\ r.action = action /\ r.round = requests[plan].round
              /\ r.ref = plan /\ r.content = NoContent
              /\ Refers(r) \in {{}, A} => Grounded(requests, Len(requests), r)
              /\ Found(r)
<1> DEFINE p == requests[plan]
           r == [Row(action, p.round) EXCEPT !.ref = plan]
<1>1. /\ plan \in 1..Len(requests) /\ plan \in 0..MaxRequests /\ Len(requests) \in Nat
      /\ plan \in RowsOf(requests, A, p.round) /\ p.round \in Round
      /\ p.round \in Started(requests)
  BY PlanIs
<1> HIDE DEF p
<1>2. /\ r \in RowType /\ r.action = action /\ r.round = p.round /\ r.content = NoContent
      /\ r.ref = plan /\ r.basis.rows = {} /\ r.basis.positions = <<>>
  BY <1>1, RowFields DEF Row, RowType
<1> HIDE DEF r
<1>3. Refers(r) \in {{}, A} => Grounded(requests, Len(requests), r)
  BY <1>1, <1>2 DEF Grounded, NamesItsDocument, Documented
<1>4. Found(r)
  BY <1>2, FoundPlainly, PresentPrefixes
<1>. QED
  BY <1>2, <1>3, <1>4 DEF r, p

\* publish_outgoing_package
LEMMA PublishKitInv ==
    ASSUME DealInv, NEW plan, PublishOutgoingPackage(plan)
    PROVE  DealInv'
<1> DEFINE r == [Row("publish_outgoing_package", requests[plan].round) EXCEPT !.ref = plan]
<1>1. /\ plan \in Rows(requests, PlanActions) /\ KitCurrent(requests, plan)
      /\ \A i \in Rows(requests, KitEvents) : requests[i].ref # plan
      /\ Len(requests) < session.length /\ Propose(r)
  BY DEF PublishOutgoingPackage, Asked
<1>2. /\ r \in RowType /\ r.action = "publish_outgoing_package"
      /\ r.round = requests[plan].round /\ r.ref = plan /\ r.content = NoContent
      /\ Refers(r) \in {{}, PlanActions} => Grounded(requests, Len(requests), r)
      /\ Found(r)
  <2> DEFINE action == "publish_outgoing_package"
  <2>1. /\ action \in Action /\ action \notin Documented \cup IssueActions \cup CopyActions
        /\ action \notin {"link_operation", "start_round", "prepare_final_saved_review"}
    BY DEF Action, Documented
  <2>2. plan \in Rows(requests, PlanActions)
    BY <1>1
  <2> HIDE DEF PlanActions, IssueActions, CopyActions, action
  <2>3. LET e == [Row(action, requests[plan].round) EXCEPT !.ref = plan]
        IN /\ e \in RowType /\ e.action = action /\ e.round = requests[plan].round
           /\ e.ref = plan /\ e.content = NoContent
           /\ Refers(e) \in {{}, PlanActions} => Grounded(requests, Len(requests), e)
           /\ Found(e)
    BY <2>1, <2>2, EventIs
  <2>. QED
    BY <2>3 DEF action
<1>3. /\ plan \in RowsOf(requests, PlanActions, requests[plan].round)
      /\ requests[plan].round \in Started(requests)
  BY <1>1, PlanIs
<1> HIDE DEF r
<1>4. Grounded(requests, Len(requests), r)
  BY <1>2 DEF Refers
<1>5. OutgoingFollows(requests, r)
  <2>1. requests[plan].basis = KitBasis(requests, requests[plan].round, requests[plan].basis.positions)
    BY <1>1 DEF KitCurrent, KitBasis, NoBasis
  <2>. QED
    BY <1>1, <1>2, <1>3, <2>1 DEF OutgoingFollows
<1>6. Follows(requests, r)
  BY <1>2, <1>3, <1>5 DEF Follows
<1>7. Seen(r)
  BY <1>2 DEF Seen
<1>. QED
  BY <1>1, <1>2, <1>4, <1>6, <1>7, ProposeInv

\* record_outgoing_verification
LEMMA VerifyKitInv ==
    ASSUME DealInv, NEW plan, RecordOutgoingVerification(plan)
    PROVE  DealInv'
<1> DEFINE r == [Row("record_outgoing_verification", requests[plan].round) EXCEPT !.ref = plan]
<1>1. plan \in Rows(requests, PlanActions) /\ Len(requests) < session.length /\ Propose(r)
  BY DEF RecordOutgoingVerification, Asked
<1>2. /\ r \in RowType /\ r.action = "record_outgoing_verification"
      /\ r.round = requests[plan].round /\ r.ref = plan /\ r.content = NoContent
      /\ Refers(r) \in {{}, PlanActions} => Grounded(requests, Len(requests), r)
      /\ Found(r)
  <2> DEFINE action == "record_outgoing_verification"
  <2>1. /\ action \in Action /\ action \notin Documented \cup IssueActions \cup CopyActions
        /\ action \notin {"link_operation", "start_round", "prepare_final_saved_review"}
    BY DEF Action, Documented
  <2>2. plan \in Rows(requests, PlanActions)
    BY <1>1
  <2> HIDE DEF PlanActions, IssueActions, CopyActions, action
  <2>3. LET e == [Row(action, requests[plan].round) EXCEPT !.ref = plan]
        IN /\ e \in RowType /\ e.action = action /\ e.round = requests[plan].round
           /\ e.ref = plan /\ e.content = NoContent
           /\ Refers(e) \in {{}, PlanActions} => Grounded(requests, Len(requests), e)
           /\ Found(e)
    BY <2>1, <2>2, EventIs
  <2>. QED
    BY <2>3 DEF action
<1>3. /\ plan \in RowsOf(requests, PlanActions, requests[plan].round)
      /\ requests[plan].round \in Started(requests)
  BY <1>1, PlanIs
<1> HIDE DEF r
<1>4. Grounded(requests, Len(requests), r)
  BY <1>2 DEF Refers
<1>5. OutgoingFollows(requests, r)
  BY <1>2, <1>3 DEF OutgoingFollows
<1>6. Follows(requests, r)
  BY <1>2, <1>3, <1>5 DEF Follows
<1>7. Seen(r)
  BY <1>2 DEF Seen
<1>. QED
  BY <1>1, <1>2, <1>4, <1>6, <1>7, ProposeInv

--------------------------------------------------------------------------------
(* The agreement and the final document.                                   *)

\* What a review shows has its type.
LEMMA LiveIs == ASSUME DealInv, NEW rid PROVE Live(requests, rid) \in Review
<1>1. /\ requests \in Seq(RowType) /\ AllGrounded(requests)
      /\ journal \in [Operation -> Outcome] /\ file \in [Path \cup Folder -> Doc \cup {NoDoc}]
  BY InvHas
<1>2. WorkingStatus(requests, rid) \in {"not_selected", "same_bytes", "unavailable", "changed"}
  BY DEF WorkingStatus
<1>3. AllLinked(requests) \subseteq Operation
  BY DEF AllLinked, Rows, DealInv, RowsGrounded, Grounded
<1>4. ASSUME NEW o \in AllLinked(requests) PROVE Observed(o) \in Observation
  <2>1. Intent[o].path \in Path
    BY <1>3, IntentsOK
  <2>. QED
    BY <1>1, <1>3, <2>1 DEF Observed, Observation
<1> DEFINE seen == [o \in AllLinked(requests) |-> Observed(o)]
<1>5. seen \in [AllLinked(requests) -> Observation]
  BY <1>4
<1> HIDE DEF seen
<1>6. seen \in UNION {[os -> Observation] : os \in SUBSET Operation}
  BY <1>3, <1>5
<1>. QED
  BY <1>2, <1>6 DEF Live, Review, seen

\* record_final_basis_agreement
LEMMA AgreeInv ==
    ASSUME DealInv, NEW rid \in Round, RecordFinalBasisAgreement(rid)
    PROVE  DealInv'
<1> DEFINE d == Basis(requests, rid)
           basis == [Scope(requests, history) EXCEPT !.live = Live(requests, rid)]
           r == [Row("record_final_basis_agreement", rid) EXCEPT !.file = d, !.basis = basis]
<1>1. rid \in Started(requests) /\ Len(requests) < session.length /\ Propose(r)
  BY DEF RecordFinalBasisAgreement, Asked
<1>2. /\ requests \in Seq(RowType) /\ DOMAIN requests = 1..Len(requests) /\ AllGrounded(requests)
      /\ Len(requests) <= session.length /\ session.length \in 0..MaxRequests
      /\ Len(requests) \in Nat /\ history \in Seq(Event)
  BY InvHas
<1>3. d \in Doc
  BY <1>1, <1>2, BasisIs
<1>4. Negotiated(requests) \subseteq 1..Len(requests)
  BY <1>2 DEF Negotiated, Rows
<1>5. Negotiated(requests) \in SUBSET (1..MaxRequests)
  BY <1>2, <1>4, RequestLimit
<1>6. /\ basis \in Bases /\ basis.rows = Negotiated(requests) /\ basis.positions = history
  <2>1. Live(requests, rid) \in Review
    BY LiveIs
  <2>. QED
    BY <1>2, <1>5, <2>1 DEF Scope, NoBasis, Bases
<1> HIDE DEF d, basis
<1>7. /\ r \in RowType /\ r.action = "record_final_basis_agreement" /\ r.round = rid
      /\ r.file = d /\ r.content = NoContent /\ r.ref = 0 /\ r.basis = basis
  <2>1. "record_final_basis_agreement" \in Action
    BY DEF Action
  <2>. QED
    BY <1>3, <1>6, <2>1, RowFields, RequestLimit DEF Row, RowType
<1> HIDE DEF r
<1>8. FinalFollows(requests, r)
  BY <1>6, <1>7 DEF FinalFollows, ScopeHolds, Scope, NoBasis, d
<1>9. Follows(requests, r)
  BY <1>1, <1>7, <1>8 DEF Follows
<1>10. Grounded(requests, Len(requests), r)
  BY <1>1, <1>2, <1>3, <1>4, <1>6, <1>7 DEF Grounded, Refers, NamesItsDocument
<1>11. Found(r)
  BY <1>6, <1>7, FoundPlainly, PresentPrefixes
<1>12. Seen(r)
  BY <1>6, <1>7 DEF Seen
<1>. QED
  BY <1>1, <1>7, <1>9, <1>10, <1>11, <1>12, ProposeInv

\* An agreement that is current stands.
LEMMA CurrentStands ==
    ASSUME NEW a, AgreementCurrent(requests, a)
    PROVE  Stands(a) /\ ScopeHolds(requests, requests[a].basis)
BY DEF AgreementCurrent, Stands, ScopeHolds, Scope, NoBasis

\* prepare_final_document
LEMMA PrepareFinalInv ==
    ASSUME DealInv, NEW agreement, NEW path \in Folder, PrepareFinalDocument(agreement, path)
    PROVE  DealInv'
<1> DEFINE a == requests[agreement]
           d == Rendered[a.file]
           r == [Row("prepare_final_document", a.round) EXCEPT
                   !.file = d, !.path = path, !.ref = agreement]
<1>1. /\ agreement \in Rows(requests, {"record_final_basis_agreement"})
      /\ AgreementCurrent(requests, agreement)
      /\ Len(requests) < session.length /\ Propose(r)
  BY DEF PrepareFinalDocument, Asked
<1>2. /\ agreement \in 1..Len(requests) /\ agreement \in 0..MaxRequests /\ Len(requests) \in Nat
      /\ agreement \in RowsOf(requests, {"record_final_basis_agreement"}, a.round)
      /\ a.action = "record_final_basis_agreement" /\ a.round \in Round
      /\ a.round \in Started(requests) /\ Grounded(requests, agreement - 1, a)
  BY <1>1, PlanIs
<1>3. d \in Doc
  BY <1>2, DocumentsOK DEF Grounded, NamesItsDocument, Documented
<1>4. Stands(agreement) /\ ScopeHolds(requests, a.basis)
  BY <1>1, CurrentStands
<1> HIDE DEF a, d
<1>5. /\ r \in RowType /\ r.action = "prepare_final_document" /\ r.round = a.round
      /\ r.file = d /\ r.content = NoContent /\ r.ref = agreement
      /\ r.basis.rows = {} /\ r.basis.positions = <<>>
  <2>1. "prepare_final_document" \in Action
    BY DEF Action
  <2>. QED
    BY <1>2, <1>3, <2>1, RowFields DEF Row, RowType
<1> HIDE DEF r
<1>6. FinalFollows(requests, r)
  BY <1>2, <1>4, <1>5 DEF FinalFollows, a, d
<1>7. Follows(requests, r)
  BY <1>2, <1>5, <1>6 DEF Follows
<1>8. Grounded(requests, Len(requests), r)
  BY <1>2, <1>5 DEF Grounded, Refers, NamesItsDocument, Documented
<1>9. Found(r)
  BY <1>5, FoundPlainly, PresentPrefixes
<1>10. Seen(r)
  BY <1>4, <1>5 DEF Seen
<1>. QED
  BY <1>1, <1>5, <1>7, <1>8, <1>9, <1>10, ProposeInv

\* publish_final_document
LEMMA PublishFinalInv ==
    ASSUME DealInv, NEW plan, PublishFinalDocument(plan)
    PROVE  DealInv'
<1> DEFINE action == "publish_final_document"
           r == [Row(action, requests[plan].round) EXCEPT !.ref = plan]
<1>1. /\ plan \in Rows(requests, {"prepare_final_document"})
      /\ AgreementCurrent(requests, requests[plan].ref)
      /\ \A i \in Rows(requests, FinalEvents) : requests[i].ref # plan
      /\ Len(requests) < session.length /\ Propose(r)
  BY DEF PublishFinalDocument, Asked
<1>2. /\ r \in RowType /\ r.action = action /\ r.round = requests[plan].round /\ r.ref = plan
      /\ r.content = NoContent
      /\ Refers(r) \in {{}, {"prepare_final_document"}} => Grounded(requests, Len(requests), r)
      /\ Found(r)
  <2>1. /\ action \in Action /\ action \notin Documented \cup IssueActions \cup CopyActions
        /\ action \notin {"link_operation", "start_round", "prepare_final_saved_review"}
    BY DEF Action, Documented
  <2>2. plan \in Rows(requests, {"prepare_final_document"})
    BY <1>1
  <2> HIDE DEF IssueActions, CopyActions, action
  <2>3. LET e == [Row(action, requests[plan].round) EXCEPT !.ref = plan]
        IN /\ e \in RowType /\ e.action = action /\ e.round = requests[plan].round
           /\ e.ref = plan /\ e.content = NoContent
           /\ Refers(e) \in {{}, {"prepare_final_document"}} => Grounded(requests, Len(requests), e)
           /\ Found(e)
    BY <2>1, <2>2, EventIs
  <2>. QED
    BY <2>3 DEF action
<1>3. /\ plan \in RowsOf(requests, {"prepare_final_document"}, requests[plan].round)
      /\ requests[plan].round \in Started(requests)
  BY <1>1, PlanIs
<1>4. ScopeHolds(requests, requests[requests[plan].ref].basis)
  BY <1>1, CurrentStands
<1> HIDE DEF r
<1>5. Grounded(requests, Len(requests), r)
  BY <1>2 DEF Refers
<1>6. FinalFollows(requests, r)
  BY <1>1, <1>2, <1>3, <1>4 DEF FinalFollows
<1>7. Follows(requests, r)
  BY <1>2, <1>3, <1>6 DEF Follows
<1>8. Seen(r)
  BY <1>2 DEF Seen
<1>. QED
  BY <1>1, <1>2, <1>5, <1>7, <1>8, ProposeInv

\* record_final_document_verification
LEMMA VerifyFinalInv ==
    ASSUME DealInv, NEW plan, RecordFinalDocumentVerification(plan)
    PROVE  DealInv'
<1> DEFINE action == "record_final_document_verification"
           r == [Row(action, requests[plan].round) EXCEPT !.ref = plan]
<1>1. /\ plan \in Rows(requests, {"prepare_final_document"})
      /\ Len(requests) < session.length /\ Propose(r)
  BY DEF RecordFinalDocumentVerification, Asked
<1>2. /\ r \in RowType /\ r.action = action /\ r.round = requests[plan].round /\ r.ref = plan
      /\ r.content = NoContent
      /\ Refers(r) \in {{}, {"prepare_final_document"}} => Grounded(requests, Len(requests), r)
      /\ Found(r)
  <2>1. /\ action \in Action /\ action \notin Documented \cup IssueActions \cup CopyActions
        /\ action \notin {"link_operation", "start_round", "prepare_final_saved_review"}
    BY DEF Action, Documented
  <2>2. plan \in Rows(requests, {"prepare_final_document"})
    BY <1>1
  <2> HIDE DEF IssueActions, CopyActions, action
  <2>3. LET e == [Row(action, requests[plan].round) EXCEPT !.ref = plan]
        IN /\ e \in RowType /\ e.action = action /\ e.round = requests[plan].round
           /\ e.ref = plan /\ e.content = NoContent
           /\ Refers(e) \in {{}, {"prepare_final_document"}} => Grounded(requests, Len(requests), e)
           /\ Found(e)
    BY <2>1, <2>2, EventIs
  <2>. QED
    BY <2>3 DEF action
<1>3. /\ plan \in RowsOf(requests, {"prepare_final_document"}, requests[plan].round)
      /\ requests[plan].round \in Started(requests)
  BY <1>1, PlanIs
<1> HIDE DEF r
<1>4. Grounded(requests, Len(requests), r)
  BY <1>2 DEF Refers
<1>5. FinalFollows(requests, r)
  BY <1>2, <1>3 DEF FinalFollows
<1>6. Follows(requests, r)
  BY <1>2, <1>3, <1>5 DEF Follows
<1>7. Seen(r)
  BY <1>2 DEF Seen
<1>. QED
  BY <1>1, <1>2, <1>4, <1>6, <1>7, ProposeInv

\* prepare_final_saved_review
LEMMA PrepareReviewInv ==
    ASSUME DealInv, NEW plan, NEW path \in Path, PrepareFinalSavedReview(plan, path)
    PROVE  DealInv'
<1> DEFINE p == requests[plan]
           basis == requests[p.ref].basis
           d == file[path]
           r == [Row("prepare_final_saved_review", p.round) EXCEPT
                   !.file = d, !.path = path, !.ref = plan, !.basis = basis]
<1>1. /\ plan \in Rows(requests, {"prepare_final_document"})
      /\ Len(requests) < session.length /\ Propose(r)
      /\ \E i \in Rows(requests, FinalEvents) : requests[i].ref = plan
      /\ AgreementCurrent(requests, p.ref)
  BY DEF PrepareFinalSavedReview, Asked, SavedChecked
<1>2. /\ plan \in 1..Len(requests) /\ plan \in 0..MaxRequests /\ Len(requests) \in Nat
      /\ plan \in RowsOf(requests, {"prepare_final_document"}, p.round)
      /\ p.action = "prepare_final_document" /\ p.round \in Round
      /\ p.round \in Started(requests) /\ Grounded(requests, plan - 1, p)
  BY <1>1, PlanIs
<1>3. p.ref \in Rows(requests, {"record_final_basis_agreement"})
  BY <1>2 DEF Grounded, Refers, RowsOf
<1>4. /\ p.ref \in 1..Len(requests) /\ requests[p.ref] \in RowType
      /\ Grounded(requests, p.ref - 1, requests[p.ref]) /\ Found(requests[p.ref])
  BY <1>3, PlanIs
<1>5. /\ basis \in Bases /\ basis.rows \subseteq 1..Len(requests)
      /\ IsPrefix(basis.positions, history)
  <2>1. basis \in Bases
    BY <1>4 DEF RowType
  <2>2. basis.rows \subseteq 1..(p.ref - 1)
    BY <1>4 DEF Grounded
  <2>3. IsPrefix(basis.positions, history)
    BY <1>4 DEF Found
  <2> HIDE DEF basis
  <2>. QED
    BY <1>4, <2>1, <2>2, <2>3
<1>6. Stands(p.ref) /\ ScopeHolds(requests, basis)
  BY <1>1, CurrentStands
<1>7. d \in Doc \cup {NoDoc}
  BY InvHas
<1> HIDE DEF p, basis, d
<1>8. /\ r \in RowType /\ r.action = "prepare_final_saved_review" /\ r.round = p.round
      /\ r.content = NoContent /\ r.ref = plan /\ r.basis = basis
  <2>1. "prepare_final_saved_review" \in Action
    BY DEF Action
  <2>. QED
    BY <1>2, <1>5, <1>7, <2>1, RowFields DEF Row, RowType
<1> HIDE DEF r
<1>9. SavedFollows(requests, r)
  BY <1>1, <1>2, <1>6, <1>8 DEF SavedFollows, p, basis
<1>10. Follows(requests, r)
  BY <1>2, <1>8, <1>9 DEF Follows
<1>11. Grounded(requests, Len(requests), r)
  BY <1>1, <1>2, <1>5, <1>8 DEF Grounded, Refers, NamesItsDocument, Documented, p, basis
<1>12. Found(r)
  BY <1>5, <1>8, FoundPlainly
<1>13. Seen(r)
  BY <1>6, <1>8 DEF Seen, p
<1>. QED
  BY <1>1, <1>8, <1>10, <1>11, <1>12, <1>13, ProposeInv

\* confirm_final_saved_document
LEMMA ConfirmInv ==
    ASSUME DealInv, NEW review, ConfirmFinalSavedDocument(review)
    PROVE  DealInv'
<1> DEFINE p == requests[review]
           r == [Row("confirm_final_saved_document", p.round) EXCEPT !.file = p.file, !.ref = review]
<1>1. /\ review \in Rows(requests, {"prepare_final_saved_review"})
      /\ Len(requests) < session.length /\ Propose(r)
      /\ AgreementCurrent(requests, requests[p.ref].ref) /\ p.file \in RevisionFree
  BY DEF ConfirmFinalSavedDocument, Asked, SavedChecked
<1>2. /\ review \in 1..Len(requests) /\ review \in 0..MaxRequests /\ Len(requests) \in Nat
      /\ review \in RowsOf(requests, {"prepare_final_saved_review"}, p.round)
      /\ p.action = "prepare_final_saved_review" /\ p.round \in Round
      /\ p.round \in Started(requests) /\ Grounded(requests, review - 1, p)
  BY <1>1, PlanIs
<1>3. p.basis = requests[requests[p.ref].ref].basis /\ p.file \in Doc
  BY <1>1, <1>2, DocumentsOK DEF Grounded
<1>4. ScopeHolds(requests, p.basis)
  BY <1>1, <1>3, CurrentStands
<1> HIDE DEF p
<1>5. /\ r \in RowType /\ r.action = "confirm_final_saved_document" /\ r.round = p.round
      /\ r.file = p.file /\ r.content = NoContent /\ r.ref = review
      /\ r.basis.rows = {} /\ r.basis.positions = <<>>
  <2>1. "confirm_final_saved_document" \in Action
    BY DEF Action
  <2>. QED
    BY <1>2, <1>3, <2>1, RowFields DEF Row, RowType
<1> HIDE DEF r
<1>6. SavedFollows(requests, r)
  BY <1>1, <1>2, <1>4, <1>5 DEF SavedFollows, p
<1>7. Follows(requests, r)
  BY <1>2, <1>5, <1>6 DEF Follows
<1>8. Grounded(requests, Len(requests), r)
  BY <1>2, <1>5 DEF Grounded, Refers, NamesItsDocument, Documented
<1>9. Found(r)
  BY <1>5, FoundPlainly, PresentPrefixes
<1>10. Seen(r)
  BY <1>5 DEF Seen
<1>. QED
  BY <1>1, <1>5, <1>7, <1>8, <1>9, <1>10, ProposeInv

--------------------------------------------------------------------------------
(* A batch of changes extends a valid history to a valid one.              *)

\* What a batch appends.
LEMMA ExtendedIs ==
    ASSUME NEW h \in Seq(Event), NEW batch \in Seq(Change), Applies(h, batch)
    PROVE  LET e == Extended(h, batch)
           IN /\ e \in Seq(Event) /\ Len(e) = Len(h) + Len(batch)
              /\ \A i \in 1..Len(h) : e[i] = h[i]
              /\ \A k \in 1..Len(batch) :
                    /\ e[Len(h) + k].operation = batch[k].op
                    /\ e[Len(h) + k].position = batch[k].position
                    /\ e[Len(h) + k].state = Result(Latest(h, batch[k].position), batch[k])
              /\ IsPrefix(h, e)
<1> DEFINE event(k) == [operation |-> batch[k].op, position |-> batch[k].position,
                        state |-> Result(Latest(h, batch[k].position), batch[k])]
           b == [k \in DOMAIN batch |-> event(k)]
           e == h \o b
<1>1. ASSUME NEW k \in DOMAIN batch PROVE event(k) \in Event
  <2> DEFINE old == Latest(h, batch[k].position)
  <2>1. batch[k] \in Change
    BY Member
  <2>2. old \in State \cup {Unknown}
    BY LatestIs
  <2>3. Accepted(h, batch[k])
    BY DEF Applies
  <2>4. old \in State \/ batch[k].op = "create"
    BY <2>2, <2>3 DEF Accepted, Unknown
  <2>5. Result(old, batch[k]) \in State
    <3> HIDE DEF old
    <3>1. CASE batch[k].op = "create"
      BY <2>1, <3>1 DEF Result, State, Change
    <3>2. CASE batch[k].op = "update" /\ old \in State
      <4> DEFINE v == old.version + 1
                 related == batch[k].related
      <4>1. related \in SUBSET Position /\ v \in Nat
        BY <2>1, <3>2 DEF State, Change
      <4>2. Result(old, batch[k])
               = [old EXCEPT !.version = v, !.confirmed = 0, !.related = related]
        BY <3>2 DEF Result
      <4> HIDE DEF v, related
      <4>3. [old EXCEPT !.version = v, !.confirmed = 0, !.related = related] \in State
        BY <3>2, <4>1 DEF State
      <4>. QED
        BY <4>2, <4>3
    <3>3. CASE batch[k].op = "confirm" /\ old \in State
      BY <2>1, <3>3 DEF Result, State, Change
    <3>4. CASE batch[k].op = "withdraw" /\ old \in State
      BY <2>1, <3>4 DEF Result, State, Change
    <3>. QED
      BY <2>1, <2>4, <3>1, <3>2, <3>3, <3>4 DEF Change
  <2>. QED
    BY <2>1, <2>5 DEF Event, Change
<1> HIDE DEF event
<1>2. b \in Seq(Event) /\ Len(b) = Len(batch) /\ \A k \in 1..Len(batch) : b[k] = event(k)
  BY <1>1
<1> HIDE DEF b
<1>3. /\ e \in Seq(Event) /\ Len(e) = Len(h) + Len(batch)
      /\ \A i \in 1..Len(h) : e[i] = h[i]
      /\ \A k \in 1..Len(batch) : e[Len(h) + k] = event(k)
  BY <1>2
<1>4. Extended(h, batch) = e
  BY DEF Extended, b, event
<1> HIDE DEF e
<1>5. IsPrefix(h, e)
  BY <1>3, PrefixIs
<1>6. \A k : /\ event(k).operation = batch[k].op /\ event(k).position = batch[k].position
             /\ event(k).state = Result(Latest(h, batch[k].position), batch[k])
  BY DEF event
<1>. QED
  BY <1>3, <1>4, <1>5, <1>6

\* A batch that applies leaves a valid history.
LEMMA ChangesAreValid ==
    ASSUME NEW h \in Seq(Event), NEW batch \in Seq(Change), Applies(h, batch), HistoryValid(h)
    PROVE  HistoryValid(Extended(h, batch))
<1> DEFINE e == Extended(h, batch)
           n == Len(h)
<1>1. /\ e \in Seq(Event) /\ Len(e) = n + Len(batch) /\ n \in Nat /\ Len(batch) \in Nat
      /\ \A i \in 1..n : e[i] = h[i]
      /\ \A k \in 1..Len(batch) :
            /\ e[n + k].operation = batch[k].op
            /\ e[n + k].position = batch[k].position
            /\ e[n + k].state = Result(Latest(h, batch[k].position), batch[k])
  BY ExtendedIs
<1>2. /\ \A i, j \in DOMAIN batch : batch[i].position = batch[j].position => i = j
      /\ \A i \in DOMAIN batch : Accepted(h, batch[i])
      /\ \A p \in Known(e) : Latest(e, p).related \subseteq Known(e)
  BY DEF Applies
<1> HIDE DEF e
<1>3. DOMAIN e = 1..(n + Len(batch)) /\ DOMAIN h = 1..n /\ DOMAIN batch = 1..Len(batch)
  BY <1>1
<1>4. ASSUME NEW i \in DOMAIN e PROVE i \in 1..n \/ \E k \in 1..Len(batch) : i = n + k
  <2>1. i \in 1..n \/ (i - n \in 1..Len(batch) /\ i = n + (i - n))
    BY <1>1, <1>3
  <2>. QED
    BY <2>1
<1>5. Known(h) \subseteq Known(e)
  BY <1>1, <1>3 DEF Known
<1>6. ASSUME NEW i \in 1..n
      PROVE  EventFollows(SubSeq(e, 1, i - 1), e[i]) /\ e[i].state.related \subseteq Known(e)
  <2>1. SubSeq(e, 1, i - 1) = SubSeq(h, 1, i - 1)
    BY <1>1, <1>3
  <2>2. EventFollows(SubSeq(h, 1, i - 1), h[i]) /\ h[i].state.related \subseteq Known(h)
    BY <1>3 DEF HistoryValid
  <2>. QED
    BY <1>1, <1>5, <2>1, <2>2
<1>7. ASSUME NEW k \in 1..Len(batch)
      PROVE  /\ EventFollows(SubSeq(e, 1, n + k - 1), e[n + k])
             /\ e[n + k].state.related \subseteq Known(e)
  <2> DEFINE q == SubSeq(e, 1, n + k - 1)
             p == batch[k].position
             old == Latest(h, p)
  <2>1. q \in Seq(Event) /\ Len(q) = n + k - 1 /\ \A j \in 1..(n + k - 1) : q[j] = e[j]
    BY <1>1, <1>3
  <2>2. ASSUME NEW m \in 1..Len(batch), e[n + m].position = p PROVE m = k
    BY <1>1, <1>2, <1>3, <2>2
  <2>3. Events(q, p) = Events(h, p)
    <3>1. DOMAIN q = 1..(n + k - 1)
      BY <1>1, <2>1
    <3>2. ASSUME NEW j \in Events(q, p) PROVE j \in Events(h, p)
      <4>1. j \in 1..(n + k - 1) /\ e[j].position = p
        BY <2>1, <3>1 DEF Events
      <4>2. j \in DOMAIN e /\ j # n + k
        BY <1>1, <1>3, <4>1
      <4>3. j \in 1..n
        BY <1>4, <2>2, <4>1, <4>2
      <4>. QED
        BY <1>1, <1>3, <4>1, <4>3 DEF Events
    <3>3. ASSUME NEW j \in Events(h, p) PROVE j \in Events(q, p)
      <4>1. j \in 1..n /\ h[j].position = p
        BY <1>3 DEF Events
      <4>2. j \in 1..(n + k - 1)
        BY <1>1, <4>1
      <4>. QED
        BY <1>1, <2>1, <3>1, <4>1, <4>2 DEF Events
    <3>. QED
      BY <3>2, <3>3
  <2>4. Latest(q, p) = old
    <3>1. CASE Events(h, p) = {}
      BY <2>3, <3>1 DEF Latest
    <3>2. CASE Events(h, p) # {}
      <4> DEFINE x == Max(Events(h, p))
      <4>1. x \in 1..n
        BY <1>3, <3>2, LatestIs
      <4>2. x \in 1..(n + k - 1)
        BY <1>1, <4>1
      <4> HIDE DEF x
      <4>3. q[x] = h[x]
        BY <1>1, <2>1, <4>1, <4>2
      <4>. QED
        BY <2>3, <3>2, <4>3 DEF Latest, x
    <3>. QED
      BY <3>1, <3>2
  <2>5. batch[k] \in Change /\ Accepted(h, batch[k])
    BY <1>2, <1>3, Member
  <2>6. old \in State \cup {Unknown}
    BY LatestIs
  <2>7. EventFollows(q, e[n + k])
    <3>1. /\ e[n + k].operation = batch[k].op /\ e[n + k].position = p
          /\ e[n + k].state = Result(old, batch[k])
      BY <1>1
    <3>2. /\ batch[k].op = "create" => old = Unknown
          /\ batch[k].op # "create" => old.lifecycle = "active"
          /\ batch[k].op = "confirm" => old.confirmed = 0
      BY <2>5 DEF Accepted
    <3> HIDE DEF q, old, p
    <3>3. batch[k].op \in {"create", "update", "confirm", "withdraw"}
      BY <2>5 DEF Change
    <3>4. old.lifecycle = "active" => old \in State
      BY <2>6 DEF Unknown
    <3>5. CASE batch[k].op = "create"
      BY <2>4, <3>1, <3>2, <3>5 DEF EventFollows, Result
    <3>6. CASE batch[k].op = "update"
      BY <2>4, <3>1, <3>2, <3>4, <3>6 DEF EventFollows, Result, State
    <3>7. CASE batch[k].op = "confirm"
      BY <2>4, <3>1, <3>2, <3>4, <3>7 DEF EventFollows, Result, State
    <3>8. CASE batch[k].op = "withdraw"
      BY <2>4, <3>1, <3>2, <3>4, <3>8 DEF EventFollows, Result, State
    <3>. QED
      BY <3>3, <3>5, <3>6, <3>7, <3>8
  <2>8. e[n + k].state.related \subseteq Known(e)
    <3>1. n + k \in DOMAIN e /\ e[n + k].position = p
      BY <1>1, <1>3
    <3>2. n + k \in Events(e, p) /\ p \in Known(e)
      BY <3>1 DEF Events, Known
    <3> DEFINE x == Max(Events(e, p))
    <3>3. x \in Events(e, p) /\ x >= n + k
      BY <1>1, <3>2, LatestIs
    <3> HIDE DEF x
    <3>4. x \in DOMAIN e /\ e[x].position = p
      BY <3>3 DEF Events
    <3>5. x = n + k
      <4>1. x \notin 1..n
        BY <1>1, <3>3
      <4>. QED
        BY <1>4, <2>2, <3>4, <4>1
    <3>6. Latest(e, p) = e[n + k].state
      BY <3>2, <3>5 DEF Latest, x
    <3>. QED
      BY <1>2, <3>2, <3>6
  <2>. QED
    BY <2>7, <2>8
<1>8. ASSUME NEW i \in DOMAIN e
      PROVE  EventFollows(SubSeq(e, 1, i - 1), e[i]) /\ e[i].state.related \subseteq Known(e)
  BY <1>4, <1>6, <1>7
<1>. QED
  BY <1>8 DEF HistoryValid, e

--------------------------------------------------------------------------------
(* The end of a command, and what runs beside it.                          *)

\* What a command that was accepted brings to its end.
LEMMA PendingIs ==
    ASSUME DealInv, pending # Nothing
    PROVE  /\ pending \in RowType /\ Len(requests) < session.length
           /\ Grounded(requests, Len(requests), pending) /\ Found(pending)
           /\ Follows(requests, pending) /\ Fresh(requests, pending)
           /\ Valid(Append(requests, pending), Upgraded(version, pending))
           /\ Upgraded(version, pending) \in 1..9
<1>1. pending \in RowType /\ requests \in Seq(RowType) /\ version \in 1..9
  BY InvHas
<1>2. /\ Len(requests) < session.length
      /\ Grounded(requests, Len(requests), pending) /\ Found(pending)
      /\ Valid(Append(requests, pending), Upgraded(version, pending))
  BY DEF DealInv, PendingStands
<1>3. Follows(requests, pending)
  BY <1>1, <1>2, LastFollows
<1>. QED
  BY <1>1, <1>2, <1>3, FollowsIsFresh, UpgradeSuffices

\* A committed row keeps the invariant: it was grounded when it was proposed.
LEMMA CommitInv ==
    ASSUME DealInv, pending # Nothing, Commit,
           file' \in [Path \cup Folder -> Doc \cup {NoDoc}]
    PROVE  DealInv'
<1>1. /\ requests \in Seq(RowType) /\ Len(requests) \in Nat /\ session \in Session
      /\ AllGrounded(requests) /\ history \in Seq(Event) /\ journal \in [Operation -> Outcome]
      /\ HistoryValid(history) /\ sound = TRUE /\ DOMAIN requests = 1..Len(requests)
      /\ session.length \in 0..MaxRequests
  BY InvHas
<1>2. /\ pending \in RowType /\ Len(requests) < session.length
      /\ Grounded(requests, Len(requests), pending) /\ Found(pending)
      /\ Follows(requests, pending) /\ Fresh(requests, pending)
      /\ Valid(Append(requests, pending), Upgraded(version, pending))
      /\ Upgraded(version, pending) \in 1..9
  BY PendingIs
<1>3. /\ requests' = Append(requests, pending) /\ version' = Upgraded(version, pending)
      /\ pending' = Nothing /\ UNCHANGED <<history, journal, sound, session>>
  BY DEF Commit
<1>4. /\ requests' \in Seq(RowType) /\ Len(requests') = Len(requests) + 1
      /\ DOMAIN requests' = DOMAIN requests \cup {Len(requests) + 1}
      /\ requests'[Len(requests) + 1] = pending
      /\ \A i \in DOMAIN requests : requests'[i] = requests[i]
  BY <1>1, <1>2, <1>3, Longer
<1>5. Typed'
  <2>1. Len(requests') <= session.length
    BY <1>1, <1>2, <1>4
  <2>. QED
    BY <1>1, <1>2, <1>3, <1>4, <2>1 DEF Typed
<1>6. AllGrounded(requests')
  BY <1>1, <1>2, <1>3, AllGroundedStays
<1>7. PositionLinksResolve'
  <2>1. \A i \in DOMAIN requests : Found(requests[i])
    BY DEF DealInv, PositionLinksResolve
  <2>. QED
    BY <1>2, <1>3, <1>4, <2>1 DEF PositionLinksResolve, Found
<1>8. PendingStands'
  BY <1>3 DEF PendingStands
<1>9. RowsGrounded'
  BY <1>6 DEF AllGrounded, RowsGrounded
<1>. QED
  BY <1>1, <1>2, <1>3, <1>5, <1>7, <1>8, <1>9 DEF DealInv

LEMMA CommitRowInv == ASSUME DealInv, CommitRow PROVE DealInv'
<1>1. pending # Nothing /\ Commit /\ file' = file
  BY DEF CommitRow
<1>. QED
  BY <1>1, InvHas, CommitInv

\* Nothing that rows and commands rest on changes with the files and the journals.
LEMMA CalmInv ==
    ASSUME DealInv, UNCHANGED <<requests, version, history, sound, session>>,
           pending' \in {pending, Nothing}, journal' \in [Operation -> Outcome],
           file' \in [Path \cup Folder -> Doc \cup {NoDoc}]
    PROVE  DealInv'
<1>1. Typed'
  BY DEF DealInv, Typed
<1>2. RowsGrounded' /\ PositionLinksResolve' /\ Valid(requests, version)' /\ HistoryValid(history)'
      /\ sound'
  BY DEF DealInv, RowsGrounded, PositionLinksResolve, Found
<1>3. PendingStands'
  <2>1. CASE pending' = pending
    BY <2>1 DEF DealInv, PendingStands, Found, Stands
  <2>2. CASE pending' = Nothing
    BY <2>2 DEF PendingStands
  <2>. QED
    BY <2>1, <2>2
<1>. QED
  BY <1>1, <1>2, <1>3 DEF DealInv

\* What a publication writes is a document, if anything.
LEMMA OutputIs ==
    ASSUME DealInv, pending # Nothing, pending.action \in Publishing
    PROVE  Output(requests[pending.ref]) \in Doc \cup {NoDoc}
<1> DEFINE p == requests[pending.ref]
<1>1. pending.ref \in Rows(requests, Refers(pending))
  BY PendingIs DEF Grounded, Refers, Publishing, RowsOf
<1>2. p \in RowType /\ Grounded(requests, pending.ref - 1, p)
  BY <1>1, PlanIs
<1>3. p.file \in Doc \cup {NoDoc}
  BY <1>2 DEF RowType
<1>4. p.action \in PlanActions => p.file \in Doc
  BY <1>2 DEF Grounded, NamesItsDocument, Documented
<1>. QED
  BY <1>3, <1>4, DocumentsOK DEF Output

LEMMA PublishAndCommitInv == ASSUME DealInv, PublishAndCommit PROVE DealInv'
<1>1. pending.action \in Publishing
  BY DEF PublishAndCommit
<1>2. pending # Nothing
  BY <1>1 DEF Publishing, Nothing, Row
<1>3. file' \in [Path \cup Folder -> Doc \cup {NoDoc}]
  <2>1. file \in [Path \cup Folder -> Doc \cup {NoDoc}]
    BY InvHas
  <2>2. Output(requests[pending.ref]) \in Doc \cup {NoDoc}
    BY <1>1, <1>2, OutputIs
  <2>3. file' = [file EXCEPT ![requests[pending.ref].path] = Output(requests[pending.ref])]
    BY DEF PublishAndCommit
  <2>. QED
    BY <2>1, <2>2, <2>3
<1>4. Commit \/ (pending' = Nothing /\ UNCHANGED <<requests, version, history, journal, sound, session>>)
  BY DEF PublishAndCommit
<1>5. journal \in [Operation -> Outcome]
  BY InvHas
<1>. QED
  BY <1>2, <1>3, <1>4, <1>5, CommitInv, CalmInv

\* A change of the positions extends the history, and no command is under way.
LEMMA MutateInv ==
    ASSUME DealInv, NEW batch \in session.batches, MutateDealPositions(batch)
    PROVE  DealInv'
<1>1. /\ requests \in Seq(RowType) /\ session \in Session /\ history \in Seq(Event)
      /\ HistoryValid(history) /\ pending \in RowType \cup {Nothing}
  BY InvHas
<1>2. batch \in Seq(Change)
  BY <1>1, SessionsOK
<1>3. /\ pending = Nothing /\ Applies(history, batch)
      /\ UNCHANGED <<requests, version, journal, file, pending, session>>
      /\ sound' = HistoryValid(Extended(history, batch))
      /\ history' = IF sound' THEN Extended(history, batch) ELSE history
  BY DEF MutateDealPositions
<1>4. HistoryValid(Extended(history, batch))
  BY <1>1, <1>2, <1>3, ChangesAreValid
<1>5. history' = Extended(history, batch) /\ sound'
  BY <1>3, <1>4
<1>6. history' \in Seq(Event) /\ IsPrefix(history, history')
  BY <1>1, <1>2, <1>3, <1>5, ExtendedIs
<1>7. Typed'
  <2>1. sound' \in BOOLEAN
    BY <1>3, Zenon DEF HistoryValid
  <2>. QED
    BY <1>3, <1>6, <2>1 DEF DealInv, Typed
<1>8. ASSUME NEW i \in DOMAIN requests PROVE Found(requests[i])'
  <2> DEFINE r == requests[i]
  <2>1. r \in RowType /\ r.basis.positions \in Seq(Event) /\ r.content.link \in Link \cup {NoLink}
    <3>1. r \in RowType
      BY <1>1, Member
    <3> HIDE DEF r
    <3>2. r.basis \in Bases /\ r.content \in Contents
      BY <3>1 DEF RowType
    <3>. QED
      BY <3>1, <3>2 DEF Bases, Contents
  <2>2. Found(r)
    BY DEF DealInv, PositionLinksResolve
  <2> HIDE DEF r
  <2>3. IsPrefix(r.basis.positions, history')
    BY <1>1, <1>6, <2>1, <2>2, PrefixTransitive DEF Found
  <2>4. ASSUME r.content.link # NoLink
        PROVE  LinkStatus(r.content.link, history') # "unavailable"
    <3> DEFINE link == r.content.link
    <3>1. link.revision \in Seq(Event)
      BY <2>1, <2>4 DEF Link
    <3>2. IsPrefix(link.revision, history) /\ Latest(link.revision, link.position).version = link.version
      BY <2>2, <2>4 DEF Found, LinkStatus
    <3>3. IsPrefix(link.revision, history')
      BY <1>1, <1>6, <3>1, <3>2, PrefixTransitive
    <3>. QED
      BY <3>2, <3>3 DEF LinkStatus
  <2>5. r' = requests[i]
    BY <1>3 DEF r
  <2>. QED
    BY <1>3, <2>3, <2>4 DEF Found, r
<1>9. PositionLinksResolve'
  BY <1>3, <1>8 DEF PositionLinksResolve, Found
<1>10. PendingStands'
  BY <1>3 DEF PendingStands
<1>11. RowsGrounded' /\ Valid(requests, version)' /\ HistoryValid(history)'
  BY <1>3, <1>4, <1>5 DEF DealInv, RowsGrounded
<1>. QED
  BY <1>5, <1>7, <1>9, <1>10, <1>11 DEF DealInv

\* What runs beside the commands touches files and journals.
LEMMA OutsideInv ==
    ASSUME DealInv,
           Abandon \/ (\E path \in Path \cup Folder : UserSaves(path))
           \/ \E o \in session.operations : PrepareOperation(o) \/ EndOperation(o)
    PROVE  DealInv'
<1>1. /\ journal \in [Operation -> Outcome] /\ file \in [Path \cup Folder -> Doc \cup {NoDoc}]
      /\ session \in Session /\ session.operations \subseteq Operation
  BY InvHas, SessionsOK
<1>2. CASE Abandon
  BY <1>1, <1>2, CalmInv DEF Abandon
<1>3. ASSUME NEW path \in Path \cup Folder, UserSaves(path) PROVE DealInv'
  <2>1. PICK d \in Saved[path] : file' = [file EXCEPT ![path] = d]
    BY <1>3 DEF UserSaves
  <2>2. d \in Doc \cup {NoDoc}
    BY DocumentsOK
  <2>3. file' \in [Path \cup Folder -> Doc \cup {NoDoc}]
    BY <1>1, <2>1, <2>2
  <2>. QED
    BY <1>1, <1>3, <2>3, CalmInv DEF UserSaves
<1>4. ASSUME NEW o \in session.operations, PrepareOperation(o) PROVE DealInv'
  <2>1. journal' \in [Operation -> Outcome]
    BY <1>1, <1>4 DEF PrepareOperation, Outcome
  <2>. QED
    BY <1>1, <1>4, <2>1, CalmInv DEF PrepareOperation
<1>5. ASSUME NEW o \in session.operations, EndOperation(o) PROVE DealInv'
  <2>1. PICK outcome \in {"published", "not_published", "unknown"} :
           journal' = [journal EXCEPT ![o] = outcome]
    BY <1>5 DEF EndOperation
  <2>2. journal' \in [Operation -> Outcome]
    BY <1>1, <2>1 DEF Outcome
  <2>3. Intent[o].candidate \in Doc
    BY <1>1, IntentsOK
  <2>4. file' \in [Path \cup Folder -> Doc \cup {NoDoc}]
    BY <1>1, <1>5, <2>3 DEF EndOperation
  <2>. QED
    BY <1>5, <2>2, <2>4, CalmInv DEF EndOperation
<1>. QED
  BY <1>2, <1>3, <1>4, <1>5

--------------------------------------------------------------------------------
(* The invariant is inductive.                                             *)

LEMMA InitInv == Init => DealInv
<1> SUFFICES ASSUME Init PROVE DealInv
  OBVIOUS
<1>1. /\ requests = <<>> /\ version = 1 /\ history = <<>> /\ pending = Nothing /\ sound = TRUE
      /\ session \in Session /\ journal = [o \in Operation |-> "none"]
      /\ file \in [Path \cup Folder -> {NoDoc}]
  BY DEF Init
<1>2. session.length \in 0..MaxRequests
  BY <1>1, SessionsOK
<1>3. Typed
  BY <1>1, <1>2, RequestLimit DEF Typed, Outcome
<1>4. RowsGrounded /\ PositionLinksResolve /\ PendingStands
  BY <1>1 DEF RowsGrounded, PositionLinksResolve, PendingStands
<1>5. Valid(requests, version) /\ HistoryValid(history)
  BY <1>1 DEF Valid, HistoryValid
<1>. QED
  BY <1>1, <1>3, <1>4, <1>5 DEF DealInv

LEMMA CommandInv ==
    ASSUME DealInv, NEW rid \in Round,
           \/ RoundCommand(rid) \/ WorkingCommand(rid) \/ IssueCommand(rid)
           \/ KitCommand(rid) \/ FinalCommand(rid)
    PROVE  DealInv'
<1>1. CASE RoundCommand(rid)
  BY <1>1, StartRoundInv, RecordSentInv DEF RoundCommand
<1>2. CASE WorkingCommand(rid)
  BY <1>2, ImportInv, PrepareCopyInv, LinkOperationInv, LinkWorkingInv, RecordVersionInv, SelectCopyInv
     DEF WorkingCommand
<1>3. CASE IssueCommand(rid)
  BY <1>3, SaveIssueInv, LinkIssueInv, DecideIssueInv DEF IssueCommand
<1>4. CASE KitCommand(rid)
  BY <1>4, PrepareKitInv, PublishKitInv, VerifyKitInv DEF KitCommand
<1>5. CASE FinalCommand(rid)
  BY <1>5, AgreeInv, PrepareFinalInv, PublishFinalInv, VerifyFinalInv, PrepareReviewInv, ConfirmInv
     DEF FinalCommand
<1>. QED
  BY <1>1, <1>2, <1>3, <1>4, <1>5

LEMMA StepInv == DealInv /\ [Next]_vars => DealInv'
<1> SUFFICES ASSUME DealInv, [Next]_vars PROVE DealInv'
  OBVIOUS
<1>1. CASE \E rid \in Round : \/ RoundCommand(rid) \/ WorkingCommand(rid) \/ IssueCommand(rid)
                              \/ KitCommand(rid) \/ FinalCommand(rid)
  BY <1>1, CommandInv
<1>2. CASE CommitRow \/ PublishAndCommit
  BY <1>2, CommitRowInv, PublishAndCommitInv
<1>3. CASE \E batch \in session.batches : MutateDealPositions(batch)
  BY <1>3, MutateInv
<1>4. CASE Abandon \/ (\E path \in Path \cup Folder : UserSaves(path))
           \/ \E o \in session.operations : PrepareOperation(o) \/ EndOperation(o)
  BY <1>4, OutsideInv
<1>5. CASE UNCHANGED vars
  <2>1. journal' \in [Operation -> Outcome] /\ file' \in [Path \cup Folder -> Doc \cup {NoDoc}]
    BY <1>5, InvHas DEF vars
  <2>. QED
    BY <1>5, <2>1, CalmInv DEF vars
<1>. QED
  BY <1>1, <1>2, <1>3, <1>4, <1>5 DEF Next

\* What a deal's rows rest on, in every state.
THEOREM DealsAreGrounded == Spec => []DealInv
BY InitInv, StepInv, PTL DEF Spec

--------------------------------------------------------------------------------
(* What follows for the properties.                                        *)

\* Types, for any deal.
THEOREM RoundsTypeCorrect == Spec => []TypeOK
<1>1. DealInv => TypeOK
  <2> SUFFICES ASSUME DealInv PROVE TypeOK
    OBVIOUS
  <2>1. \A i \in DOMAIN requests : NamesItsDocument(requests[i])
    BY DEF DealInv, RowsGrounded, Grounded
  <2>2. NamesItsDocument(pending)
    <3>1. CASE pending = Nothing
      BY <3>1 DEF NamesItsDocument, Documented, Nothing, Row
    <3>2. CASE pending # Nothing
      BY <3>2 DEF DealInv, PendingStands, Grounded
    <3>. QED
      BY <3>1, <3>2
  <2>. QED
    BY <2>1, <2>2 DEF TypeOK, DealInv
<1>. QED
  BY <1>1, DealsAreGrounded, PTL

\* AcceptedCommandsAreValid: change and validate agree.
THEOREM ChangeAndValidateAgree == Spec => []AcceptedCommandsAreValid
<1>1. DealInv => AcceptedCommandsAreValid
  BY DEF DealInv, AcceptedCommandsAreValid
<1>. QED
  BY <1>1, DealsAreGrounded, PTL

\* Every issue event keeps what the earlier ones of its issue say.
LEMMA IssuesKeep == DealInv => DecisionsStayWithTheirText
<1> SUFFICES ASSUME DealInv, NEW i \in Rows(requests, IssueActions),
                    NEW j \in Rows(requests, IssueActions), i < j,
                    requests[i].content.issue = requests[j].content.issue
             PROVE  Keeps(requests[i].content, requests[j].content)
  BY DEF DecisionsStayWithTheirText
<1>1. /\ i \in 1..Len(requests) /\ j \in 1..Len(requests) /\ Len(requests) \in Nat
      /\ requests[j].action \in IssueActions /\ Grounded(requests, j - 1, requests[j])
  BY PlanIs
<1>2. i \in IssueRows(requests, requests[j].content.issue)
  BY DEF IssueRows
<1>3. i \in 1..(j - 1)
  BY <1>1
<1>. QED
  BY <1>1, <1>2, <1>3 DEF Grounded

\* RecordsStandLater: links to positions resolve, and decisions stay with their text.
THEOREM RecordsStand == Spec => []RecordsStandLater
<1>1. DealInv => RecordsStandLater
  BY IssuesKeep DEF DealInv, RecordsStandLater
<1>. QED
  BY <1>1, DealsAreGrounded, PTL

\* The basis of a kit names the last working version and the last event of
\* each issue of its round: a later row of either would be in it.
LEMMA NothingSincePreview ==
    ASSUME DealInv, NEW plan \in Rows(requests, PlanActions), KitCurrent(requests, plan),
           NEW j \in DOMAIN requests, j > plan, requests[j].round = requests[plan].round
    PROVE  requests[j].action \notin WorkActions \cup IssueActions
<1> DEFINE rid == requests[plan].round
           basis == requests[plan].basis
<1>1. /\ plan \in 1..Len(requests) /\ Grounded(requests, plan - 1, requests[plan])
      /\ requests \in Seq(RowType) /\ AllGrounded(requests) /\ DOMAIN requests = 1..Len(requests)
      /\ Len(requests) \in Nat
  BY PlanIs, InvHas
<1>2. basis.rows \subseteq 1..(plan - 1)
  BY <1>1 DEF Grounded
<1>3. basis.rows = {Max(Working(requests, rid))}
                   \cup {i \in LatestIssues(requests) : requests[i].round = rid}
  BY DEF KitCurrent, KitBasis, NoBasis
<1> HIDE DEF basis, rid
<1>4. ASSUME requests[j].action \in WorkActions PROVE FALSE
  <2>1. j \in Working(requests, rid)
    BY <1>4 DEF Working, RowsOf, Rows, rid
  <2>2. PICK k \in DOMAIN requests : k = Max(Working(requests, rid))
                                     /\ \A i \in Working(requests, rid) : k >= i
    BY <1>1, <2>1, WorkingIs
  <2>3. k >= j /\ k \in 1..(plan - 1)
    BY <1>2, <1>3, <2>1, <2>2
  <2>. QED
    BY <1>1, <2>2, <2>3
<1>5. ASSUME requests[j].action \in IssueActions PROVE FALSE
  <2> DEFINE issue == requests[j].content.issue
             last == LatestIssue(requests, issue)
  <2>1. j \in IssueRows(requests, issue)
    BY <1>5 DEF IssueRows, Rows
  <2>2. issue \in Issue
    BY <1>1, <1>5 DEF AllGrounded, Grounded
  <2>3. last # 0 /\ last \in DOMAIN requests /\ last >= j /\ requests[last].round = rid
    BY <1>1, <2>1, IssueIs DEF rid
  <2>4. last \in LatestIssues(requests)
    BY <2>2, <2>3 DEF LatestIssues
  <2>5. last \in 1..(plan - 1)
    BY <1>2, <1>3, <2>3, <2>4
  <2> HIDE DEF last
  <2>. QED
    BY <1>1, <2>3, <2>5
<1>. QED
  BY <1>4, <1>5

\* A command only proposes its row.
LEMMA CommandsOnlyPropose ==
    ASSUME NEW rid \in Round,
           \/ RoundCommand(rid) \/ WorkingCommand(rid) \/ IssueCommand(rid)
           \/ KitCommand(rid) \/ FinalCommand(rid)
    PROVE  UNCHANGED <<requests, version, history, journal, file, session>>
<1>1. CASE RoundCommand(rid) \/ WorkingCommand(rid)
  BY <1>1 DEF RoundCommand, WorkingCommand, StartRound, RecordSent, ImportWorkingDocument,
              PrepareWorkingCopy, LinkOperation, LinkWorkingDocument, RecordWorkingVersion,
              SelectWorkingCopy, Propose
<1>2. CASE IssueCommand(rid)
  <2>1. ASSUME NEW issue, NEW proposal, NEW link, NEW operations,
               SaveIssue(rid, issue, proposal, link, operations)
        PROVE  UNCHANGED <<requests, version, history, journal, file, session>>
    BY <2>1 DEF SaveIssue, Propose
  <2>2. ASSUME NEW issue, NEW o, LinkIssueOperation(rid, issue, o)
        PROVE  UNCHANGED <<requests, version, history, journal, file, session>>
    BY <2>2 DEF LinkIssueOperation, Propose
  <2>3. ASSUME NEW issue, NEW choice, DecideIssue(rid, issue, choice)
        PROVE  UNCHANGED <<requests, version, history, journal, file, session>>
    BY <2>3 DEF DecideIssue, Propose
  <2>. QED
    BY <1>2, <2>1, <2>2, <2>3 DEF IssueCommand
<1>3. CASE KitCommand(rid)
  BY <1>3 DEF KitCommand, PrepareOutgoingPackage, PublishOutgoingPackage,
              RecordOutgoingVerification, Propose
<1>4. CASE FinalCommand(rid)
  BY <1>4 DEF FinalCommand, RecordFinalBasisAgreement, PrepareFinalDocument, PublishFinalDocument,
              RecordFinalDocumentVerification, PrepareFinalSavedReview, ConfirmFinalSavedDocument,
              Propose
<1>. QED
  BY <1>1, <1>2, <1>3, <1>4

\* A row is added only by the end of its command.
LEMMA RowsAreCommitted ==
    ASSUME DealInv, [Next]_vars, requests' # requests
    PROVE  pending # Nothing /\ Commit /\ (CommitRow \/ PublishAndCommit)
<1>1. CASE CommitRow
  BY <1>1 DEF CommitRow
<1>2. CASE PublishAndCommit
  <2>1. pending.action \in Publishing /\ Commit
    BY <1>2 DEF PublishAndCommit
  <2>2. pending # Nothing
    BY <2>1 DEF Publishing, Nothing, Row
  <2>. QED
    BY <1>2, <2>1, <2>2
<1>3. CASE \E rid \in Round : \/ RoundCommand(rid) \/ WorkingCommand(rid) \/ IssueCommand(rid)
                              \/ KitCommand(rid) \/ FinalCommand(rid)
  BY <1>3, CommandsOnlyPropose
<1>4. CASE \E batch \in session.batches : MutateDealPositions(batch)
  BY <1>4 DEF MutateDealPositions
<1>5. CASE Abandon \/ (\E path \in Path \cup Folder : UserSaves(path))
           \/ \E o \in session.operations : PrepareOperation(o) \/ EndOperation(o)
  BY <1>5 DEF Abandon, UserSaves, PrepareOperation, EndOperation
<1>6. CASE UNCHANGED vars
  BY <1>6 DEF vars
<1>. QED
  BY <1>1, <1>2, <1>3, <1>4, <1>5, <1>6 DEF Next

\* What a committed row adds.
LEMMA CommitIs ==
    ASSUME DealInv, pending # Nothing, Commit
    PROVE  /\ requests' = Append(requests, pending) /\ history' = history
           /\ DOMAIN requests' = 1..(Len(requests) + 1) /\ DOMAIN requests = 1..Len(requests)
           /\ Len(requests) \in Nat /\ Len(requests') = Len(requests) + 1
           /\ requests'[Len(requests) + 1] = pending
           /\ \A i \in DOMAIN requests : requests'[i] = requests[i]
           /\ requests \in Seq(RowType) /\ pending \in RowType
<1>1. requests \in Seq(RowType) /\ pending \in RowType
  BY InvHas, PendingIs
<1>. QED
  BY <1>1, Longer DEF Commit

\* KitUnchangedSincePreview, action by action.
KitStep ==
    \A i \in DOMAIN requests' \ DOMAIN requests :
        requests'[i].action = "publish_outgoing_package" =>
            LET plan == requests'[i].ref
            IN /\ history = requests'[plan].basis.positions
               /\ \A j \in (plan + 1)..(i - 1) :
                     requests'[j].round = requests'[i].round =>
                         requests'[j].action \notin WorkActions \cup IssueActions

\* The end of a publication is the only step that adds such a row.
LEMMA KitStepHolds == ASSUME DealInv, [Next]_vars PROVE KitStep \/ UNCHANGED vars
<1> SUFFICES ASSUME NEW i \in DOMAIN requests' \ DOMAIN requests,
                    requests'[i].action = "publish_outgoing_package"
             PROVE  LET plan == requests'[i].ref
                    IN /\ history = requests'[plan].basis.positions
                       /\ \A j \in (plan + 1)..(i - 1) :
                             requests'[j].round = requests'[i].round =>
                                 requests'[j].action \notin WorkActions \cup IssueActions
  BY DEF KitStep
<1>1. pending # Nothing /\ Commit /\ (CommitRow \/ PublishAndCommit)
  BY RowsAreCommitted
<1>2. /\ DOMAIN requests' = 1..(Len(requests) + 1) /\ DOMAIN requests = 1..Len(requests)
      /\ Len(requests) \in Nat
      /\ requests'[Len(requests) + 1] = pending
      /\ \A j \in DOMAIN requests : requests'[j] = requests[j]
  BY <1>1, CommitIs
<1>3. i = Len(requests) + 1 /\ requests'[i] = pending
  BY <1>2
<1> DEFINE plan == pending.ref
<1>4. KitCurrent(requests, plan)
  <2>1. pending.action = "publish_outgoing_package"
    BY <1>3
  <2>2. PublishAndCommit
    BY <1>1, <2>1 DEF CommitRow, Publishing
  <2>. QED
    BY <2>1, <2>2 DEF PublishAndCommit, StillCurrent
<1>5. plan \in RowsOf(requests, PlanActions, pending.round)
  BY <1>1, <1>3, PendingIs DEF Grounded, Refers
<1>6. plan \in Rows(requests, PlanActions) /\ requests[plan].round = pending.round
      /\ plan \in 1..Len(requests)
  BY <1>2, <1>5 DEF RowsOf, Rows
<1>7. history = requests[plan].basis.positions
  BY <1>4 DEF KitCurrent, KitBasis, NoBasis
<1>8. ASSUME NEW j \in (plan + 1)..(i - 1), requests'[j].round = pending.round
      PROVE  requests'[j].action \notin WorkActions \cup IssueActions
  <2>1. j \in DOMAIN requests /\ j > plan /\ requests'[j] = requests[j]
    BY <1>2, <1>3, <1>6
  <2>. QED
    BY <1>4, <1>6, <1>8, <2>1, NothingSincePreview
<1>. QED
  BY <1>2, <1>3, <1>6, <1>7, <1>8

\* A kit is published on what its preview showed.
THEOREM KitsArePreviewed == Spec => KitUnchangedSincePreview
<1>1. DealInv /\ [Next]_vars => [KitStep]_vars
  BY KitStepHolds
<1>. QED
  BY <1>1, DealsAreGrounded, PTL DEF Spec, KitUnchangedSincePreview, KitStep

--------------------------------------------------------------------------------
(* The final document stands on its agreement.                             *)

\* The mapping, as operators of a store and of its positions.
MadeOf(s) == Rows(s, {"record_final_basis_agreement"})
StandingOf(s, h) == {a \in MadeOf(s) :
                        /\ s[a].basis.positions = h
                        /\ \A i \in (a + 1)..Len(s) : s[i].action \notin Negotiation}
ReachedOf(s) == {<<AgreementOf(s, i), Stage(s[i].action)>> : i \in Rows(s, Finalizing)}

\* The chain of requests from a row of the finalization to its agreement.
LEMMA ChainIs ==
    ASSUME NEW s \in Seq(RowType), AllGrounded(s), NEW i \in Rows(s, Finalizing)
    PROVE  /\ i \in DOMAIN s /\ s[i].ref \in DOMAIN s
           /\ s[i].action = "prepare_final_document" => s[i].ref \in MadeOf(s)
           /\ s[i].action \in FinalEvents \cup {"prepare_final_saved_review"} =>
                 s[i].ref \in Rows(s, {"prepare_final_document"})
           /\ s[i].action = "confirm_final_saved_document" =>
                 s[i].ref \in Rows(s, {"prepare_final_saved_review"})
<1>1. i \in DOMAIN s /\ s[i].action \in Finalizing /\ Grounded(s, i - 1, s[i])
  BY DEF Rows, AllGrounded
<1>2. Refers(s[i]) # {} => s[i].ref \in Rows(s, Refers(s[i]))
  BY <1>1 DEF Grounded, RowsOf
<1>. QED
  BY <1>1, <1>2 DEF Finalizing, Refers, Rows, MadeOf

\* What follows changes nothing of it.
LEMMA AgreementStays ==
    ASSUME NEW s \in Seq(RowType), AllGrounded(s), NEW r \in RowType, NEW i \in Rows(s, Finalizing)
    PROVE  AgreementOf(Append(s, r), i) = AgreementOf(s, i)
<1> DEFINE t == Append(s, r)
<1>1. \A j \in DOMAIN s : t[j] = s[j]
  BY Longer
<1>2. /\ i \in DOMAIN s /\ s[i].ref \in DOMAIN s
      /\ s[i].action = "confirm_final_saved_document" =>
            s[i].ref \in Rows(s, {"prepare_final_saved_review"})
  BY ChainIs
<1>3. ASSUME s[i].action = "confirm_final_saved_document"
      PROVE  s[s[i].ref].ref \in DOMAIN s
  <2>1. s[i].ref \in Rows(s, Finalizing)
    BY <1>2, <1>3 DEF Rows, Finalizing
  <2>. QED
    BY <2>1, ChainIs
<1> HIDE DEF t
<1>. QED
  BY <1>1, <1>2, <1>3 DEF AgreementOf, t

\* A row reaches one more stage of its agreement, or none.
LEMMA ReachedWithRow ==
    ASSUME NEW s \in Seq(RowType), AllGrounded(s), NEW r \in RowType
    PROVE  LET t == Append(s, r)
               n == Len(s) + 1
           IN ReachedOf(t) = ReachedOf(s) \cup (IF r.action \in Finalizing
                                                THEN {<<AgreementOf(t, n), Stage(r.action)>>}
                                                ELSE {})
<1> DEFINE t == Append(s, r)
           n == Len(s) + 1
<1>1. Rows(t, Finalizing) = Rows(s, Finalizing) \cup (IF r.action \in Finalizing THEN {n} ELSE {})
  BY RowsOfOneMore
<1>2. t[n] = r
  BY Longer
<1>3. \A i \in Rows(s, Finalizing) : AgreementOf(t, i) = AgreementOf(s, i) /\ t[i] = s[i]
  BY AgreementStays, Longer DEF Rows
<1> HIDE DEF t, n
<1>4. ReachedOf(t) = ReachedOf(s) \cup (IF r.action \in Finalizing
                                        THEN {<<AgreementOf(t, n), Stage(r.action)>>} ELSE {})
  BY <1>1, <1>2, <1>3 DEF ReachedOf
<1>. QED
  BY <1>4 DEF t, n

\* A row of the negotiation ends what stands; an agreement stands when it is made.
LEMMA StandingWithRow ==
    ASSUME NEW s \in Seq(RowType), NEW r \in RowType, NEW h
    PROVE  StandingOf(Append(s, r), h)
              = IF r.action \in Negotiation THEN {}
                ELSE StandingOf(s, h)
                     \cup (IF r.action = "record_final_basis_agreement" /\ r.basis.positions = h
                           THEN {Len(s) + 1} ELSE {})
<1> DEFINE t == Append(s, r)
           n == Len(s) + 1
<1>1. /\ Len(s) \in Nat /\ Len(t) = n /\ DOMAIN s = 1..Len(s) /\ t[n] = r
      /\ \A i \in 1..Len(s) : t[i] = s[i]
  BY Longer
<1>2. /\ MadeOf(t) = MadeOf(s) \cup (IF r.action = "record_final_basis_agreement" THEN {n} ELSE {})
      /\ MadeOf(s) \subseteq 1..Len(s)
  BY RowsOfOneMore, RowsAreIndices DEF MadeOf
<1> HIDE DEF t
<1>3. CASE r.action \in Negotiation
  <2>1. ASSUME NEW a \in MadeOf(t), \A i \in (a + 1)..n : t[i].action \notin Negotiation PROVE FALSE
    <3>1. a \in 1..Len(s)
      BY <1>2, <1>3 DEF Negotiation
    <3>2. n \in (a + 1)..n
      BY <1>1, <3>1
    <3>. QED
      BY <1>1, <1>3, <2>1, <3>2
  <2>. QED
    BY <1>1, <1>3, <2>1 DEF StandingOf, t
<1>4. CASE r.action \notin Negotiation
  <2>1. ASSUME NEW a \in 1..Len(s)
        PROVE  (\A i \in (a + 1)..n : t[i].action \notin Negotiation)
                  <=> (\A i \in (a + 1)..Len(s) : s[i].action \notin Negotiation)
    <3>1. \A i \in (a + 1)..n : i = n \/ i \in (a + 1)..Len(s)
      BY <1>1
    <3>2. \A i \in (a + 1)..Len(s) : i \in (a + 1)..n /\ i \in 1..Len(s)
      BY <1>1
    <3>. QED
      BY <1>1, <1>4, <3>1, <3>2
  <2>2. (n + 1)..n = {}
    BY <1>1
  <2>3. ASSUME NEW a \in MadeOf(s)
        PROVE  a \in StandingOf(t, h) <=> a \in StandingOf(s, h)
    BY <1>1, <1>2, <2>1 DEF StandingOf
  <2>4. n \in StandingOf(t, h)
           <=> r.action = "record_final_basis_agreement" /\ r.basis.positions = h
    BY <1>1, <1>2, <2>2 DEF StandingOf
  <2>5. StandingOf(t, h) \subseteq MadeOf(s) \cup {n} /\ StandingOf(s, h) \subseteq MadeOf(s)
    BY <1>2 DEF StandingOf
  <2>. QED
    BY <1>4, <2>3, <2>4, <2>5 DEF t
<1>. QED
  BY <1>3, <1>4

\* The rows an agreement names end before it, so none was added to them since.
LEMMA StandsIsCurrent ==
    ASSUME DealInv, NEW a \in MadeOf(requests), Stands(a)
    PROVE  a \in StandingOf(requests, history)
<1>1. /\ a \in 1..Len(requests) /\ Len(requests) \in Nat /\ Grounded(requests, a - 1, requests[a])
      /\ DOMAIN requests = 1..Len(requests)
  BY PlanIs, InvHas DEF MadeOf
<1>2. Negotiated(requests) \subseteq 1..(a - 1) /\ requests[a].basis.positions = history
  BY <1>1 DEF Stands, Grounded
<1>3. ASSUME NEW i \in (a + 1)..Len(requests), requests[i].action \in Negotiation PROVE FALSE
  <2>1. i \in DOMAIN requests
    BY <1>1
  <2>2. i \in Negotiated(requests)
    BY <1>3, <2>1 DEF Negotiated, Negotiation, Rows
  <2>. QED
    BY <1>1, <1>2, <2>2
<1>. QED
  BY <1>2, <1>3 DEF StandingOf

\* What a plan, an observation and a review have reached for their agreement.
LEMMA ReachedIs ==
    ASSUME NEW s \in Seq(RowType), AllGrounded(s)
    PROVE  /\ \A p \in Rows(s, {"prepare_final_document"}) :
                 s[p].ref \in MadeOf(s) /\ <<s[p].ref, "prepared">> \in ReachedOf(s)
           /\ \A i \in Rows(s, FinalEvents) : <<s[s[i].ref].ref, "observed">> \in ReachedOf(s)
           /\ \A i \in Rows(s, {"prepare_final_saved_review"}) :
                 <<s[s[i].ref].ref, "reviewed">> \in ReachedOf(s)
<1>1. ASSUME NEW p \in Rows(s, {"prepare_final_document"})
      PROVE  s[p].ref \in MadeOf(s) /\ <<s[p].ref, "prepared">> \in ReachedOf(s)
  <2>1. p \in Rows(s, Finalizing) /\ s[p].action = "prepare_final_document"
    BY DEF Rows, Finalizing
  <2>2. AgreementOf(s, p) = s[p].ref /\ Stage(s[p].action) = "prepared"
    BY <2>1 DEF AgreementOf, Stage
  <2>. QED
    BY <2>1, <2>2, ChainIs DEF ReachedOf
<1>2. ASSUME NEW i \in Rows(s, FinalEvents) PROVE <<s[s[i].ref].ref, "observed">> \in ReachedOf(s)
  <2>1. i \in Rows(s, Finalizing) /\ s[i].action \in FinalEvents
    BY DEF Rows, Finalizing
  <2>2. AgreementOf(s, i) = s[s[i].ref].ref /\ Stage(s[i].action) = "observed"
    BY <2>1 DEF AgreementOf, Stage
  <2>. QED
    BY <2>1, <2>2 DEF ReachedOf
<1>3. ASSUME NEW i \in Rows(s, {"prepare_final_saved_review"})
      PROVE  <<s[s[i].ref].ref, "reviewed">> \in ReachedOf(s)
  <2>1. i \in Rows(s, Finalizing) /\ s[i].action = "prepare_final_saved_review"
    BY DEF Rows, Finalizing
  <2>2. AgreementOf(s, i) = s[s[i].ref].ref /\ Stage(s[i].action) = "reviewed"
    BY <2>1 DEF AgreementOf, Stage
  <2>. QED
    BY <2>1, <2>2 DEF ReachedOf
<1>. QED
  BY <1>1, <1>2, <1>3

\* The steps of FinalAgreement, of the rows of a store and of its positions.
FinalStep(a, stage) ==
    /\ ReachedOf(requests') = ReachedOf(requests) \cup {<<a, stage>>}
    /\ MadeOf(requests') = MadeOf(requests)
    /\ StandingOf(requests', history') = StandingOf(requests, history)

LEMMA FinalStepIs ==
    ASSUME NEW a \in 1..MaxRequests
    PROVE  /\ a \in StandingOf(requests, history) /\ FinalStep(a, "prepared") => Final!Next
           /\ a \in StandingOf(requests, history) /\ <<a, "prepared">> \in ReachedOf(requests)
                /\ FinalStep(a, "observed") => Final!Next
           /\ a \in MadeOf(requests) /\ <<a, "prepared">> \in ReachedOf(requests)
                /\ FinalStep(a, "observed") => Final!Next
           /\ a \in StandingOf(requests, history) /\ <<a, "observed">> \in ReachedOf(requests)
                /\ FinalStep(a, "reviewed") => Final!Next
           /\ a \in StandingOf(requests, history) /\ <<a, "reviewed">> \in ReachedOf(requests)
                /\ FinalStep(a, "confirmed") => Final!Next
BY DEF FinalStep, Final!Next, Final!Prepare, Final!Publish, Final!Observe, Final!Review,
       Final!Confirm, Final!Reach, Agreements, MadeOf, StandingOf, ReachedOf

LEMMA OtherFinalSteps ==
    /\ StandingOf(requests', history') = {} /\ MadeOf(requests') = MadeOf(requests)
         /\ ReachedOf(requests') = ReachedOf(requests)
       => Final!Next
    /\ \A a \in 1..MaxRequests :
          /\ a \notin MadeOf(requests) /\ MadeOf(requests') = MadeOf(requests) \cup {a}
          /\ StandingOf(requests', history') = StandingOf(requests, history) \cup {a}
          /\ ReachedOf(requests') = ReachedOf(requests)
          => Final!Next
    /\ StandingOf(requests', history') = StandingOf(requests, history)
         /\ MadeOf(requests') = MadeOf(requests) /\ ReachedOf(requests') = ReachedOf(requests)
       => UNCHANGED Final!vars
<1>1. ASSUME StandingOf(requests', history') = {}, MadeOf(requests') = MadeOf(requests),
             ReachedOf(requests') = ReachedOf(requests)
      PROVE  Final!Next
  BY <1>1 DEF Final!Next, Final!NegotiationMovesOn, Agreements, MadeOf, StandingOf, ReachedOf
<1>2. ASSUME NEW a \in 1..MaxRequests,
             a \notin MadeOf(requests), MadeOf(requests') = MadeOf(requests) \cup {a},
             StandingOf(requests', history') = StandingOf(requests, history) \cup {a},
             ReachedOf(requests') = ReachedOf(requests)
      PROVE  Final!Next
  BY <1>2 DEF Final!Next, Final!Agree, Agreements, MadeOf, StandingOf, ReachedOf
<1>3. ASSUME StandingOf(requests', history') = StandingOf(requests, history),
             MadeOf(requests') = MadeOf(requests), ReachedOf(requests') = ReachedOf(requests)
      PROVE  UNCHANGED Final!vars
  BY <1>3 DEF Final!vars, Agreements, MadeOf, StandingOf, ReachedOf
<1>. QED
  BY <1>1, <1>2, <1>3

\* What a row that is committed changes of the three.
LEMMA CommitMaps ==
    ASSUME DealInv, pending # Nothing, Commit
    PROVE  LET n == Len(requests) + 1
           IN /\ MadeOf(requests') = MadeOf(requests)
                    \cup (IF pending.action = "record_final_basis_agreement" THEN {n} ELSE {})
              /\ ReachedOf(requests') = ReachedOf(requests)
                    \cup (IF pending.action \in Finalizing
                          THEN {<<AgreementOf(requests', n), Stage(pending.action)>>} ELSE {})
              /\ StandingOf(requests', history')
                    = IF pending.action \in Negotiation THEN {}
                      ELSE StandingOf(requests, history)
                           \cup (IF pending.action = "record_final_basis_agreement"
                                    /\ pending.basis.positions = history
                                 THEN {n} ELSE {})
              /\ n \notin MadeOf(requests) /\ n \in 1..MaxRequests
<1>1. /\ requests \in Seq(RowType) /\ AllGrounded(requests) /\ Len(requests) \in Nat
      /\ session.length \in 0..MaxRequests
  BY InvHas
<1>2. pending \in RowType /\ requests' = Append(requests, pending) /\ history' = history
  BY CommitIs
<1>3. Len(requests) < session.length
  BY PendingIs
<1>4. MadeOf(requests) \subseteq 1..Len(requests)
  BY <1>1, RowsAreIndices DEF MadeOf
<1>5. MadeOf(requests') = MadeOf(requests)
         \cup (IF pending.action = "record_final_basis_agreement" THEN {Len(requests) + 1} ELSE {})
  BY <1>1, <1>2, RowsOfOneMore DEF MadeOf
<1>. QED
  BY <1>1, <1>2, <1>3, <1>4, <1>5, ReachedWithRow, StandingWithRow, RequestLimit

\* A row of the finalization is a step of its agreement.
LEMMA FinalRowMaps ==
    ASSUME DealInv, pending # Nothing, Commit, CommitRow \/ PublishAndCommit,
           pending.action \in Finalizing
    PROVE  Final!Next
<1> DEFINE n == Len(requests) + 1
           q == pending.ref
           r == requests[q]
<1>1. /\ requests \in Seq(RowType) /\ AllGrounded(requests) /\ DOMAIN requests = 1..Len(requests)
      /\ Len(requests) \in Nat
  BY InvHas
<1>2. /\ requests'[n] = pending /\ \A i \in DOMAIN requests : requests'[i] = requests[i]
  BY CommitIs
<1>3. /\ MadeOf(requests') = MadeOf(requests)
      /\ ReachedOf(requests') = ReachedOf(requests)
                                \cup {<<AgreementOf(requests', n), Stage(pending.action)>>}
      /\ StandingOf(requests', history') = StandingOf(requests, history)
  BY CommitMaps DEF Finalizing, Negotiation
<1>4. FinalStep(AgreementOf(requests', n), Stage(pending.action))
  BY <1>3 DEF FinalStep
<1>5. Refers(pending) # {} => q \in Rows(requests, Refers(pending))
  BY PendingIs DEF Grounded, RowsOf
<1>6. PendingStands
  BY DEF DealInv
<1>7. \A a \in MadeOf(requests) : a \in 1..MaxRequests
  BY PlanIs DEF MadeOf
<1> HIDE DEF n
<1>8. CASE pending.action = "prepare_final_document"
  <2>1. q \in MadeOf(requests)
    BY <1>5, <1>8 DEF Refers, MadeOf
  <2>2. q \in StandingOf(requests, history)
    BY <1>6, <1>8, <2>1, StandsIsCurrent DEF PendingStands
  <2>3. AgreementOf(requests', n) = q /\ Stage(pending.action) = "prepared"
    BY <1>2, <1>8 DEF AgreementOf, Stage
  <2>. QED
    BY <1>4, <1>7, <2>1, <2>2, <2>3, FinalStepIs
<1>9. CASE pending.action \in FinalEvents
  <2>1. q \in Rows(requests, {"prepare_final_document"}) /\ q \in DOMAIN requests
    BY <1>5, <1>9 DEF Refers, Rows
  <2>2. r.ref \in MadeOf(requests) /\ <<r.ref, "prepared">> \in ReachedOf(requests)
    BY <1>1, <2>1, ReachedIs
  <2>3. AgreementOf(requests', n) = r.ref /\ Stage(pending.action) = "observed"
    BY <1>2, <1>9, <2>1 DEF AgreementOf, Stage
  <2>4. FinalStep(r.ref, "observed")
    BY <1>4, <2>3
  <2>. QED
    BY <1>7, <2>2, <2>4, FinalStepIs
<1>10. CASE pending.action = "prepare_final_saved_review"
  <2>1. q \in Rows(requests, {"prepare_final_document"}) /\ q \in DOMAIN requests
    BY <1>5, <1>10 DEF Refers, Rows
  <2>2. r.ref \in MadeOf(requests)
    BY <1>1, <2>1, ReachedIs
  <2>3. r.ref \in StandingOf(requests, history)
    BY <1>6, <1>10, <2>2, StandsIsCurrent DEF PendingStands
  <2>4. PICK i \in Rows(requests, FinalEvents) : requests[i].ref = q
    BY <1>10, PendingIs DEF Grounded
  <2>5. <<r.ref, "observed">> \in ReachedOf(requests)
    BY <1>1, <2>4, ReachedIs
  <2>6. AgreementOf(requests', n) = r.ref /\ Stage(pending.action) = "reviewed"
    BY <1>2, <1>10, <2>1 DEF AgreementOf, Stage
  <2>7. FinalStep(r.ref, "reviewed")
    BY <1>4, <2>6
  <2>. QED
    BY <1>7, <2>2, <2>3, <2>5, <2>7, FinalStepIs
<1>11. CASE pending.action = "confirm_final_saved_document"
  <2> DEFINE a == requests[r.ref].ref
  <2>1. q \in Rows(requests, {"prepare_final_saved_review"}) /\ q \in DOMAIN requests
    BY <1>5, <1>11 DEF Refers, Rows
  <2>2. r.action = "prepare_final_saved_review" /\ q \in Rows(requests, Finalizing)
    BY <2>1 DEF Rows, Finalizing
  <2>3. r.ref \in Rows(requests, {"prepare_final_document"}) /\ r.ref \in DOMAIN requests
    BY <1>1, <2>2, ChainIs
  <2>4. a \in MadeOf(requests)
    BY <1>1, <2>3, ReachedIs
  <2>5. AgreementCurrent(requests, a)
    <3>1. ~PublishAndCommit
      BY <1>11 DEF PublishAndCommit, Publishing
    <3>. QED
      BY <1>11, <3>1 DEF CommitRow
  <2>6. a \in StandingOf(requests, history)
    BY <2>4, <2>5, CurrentStands, StandsIsCurrent
  <2>7. <<a, "reviewed">> \in ReachedOf(requests)
    BY <1>1, <2>1, ReachedIs
  <2>8. AgreementOf(requests', n) = a /\ Stage(pending.action) = "confirmed"
    BY <1>2, <1>11, <2>1, <2>3 DEF AgreementOf, Stage
  <2>9. FinalStep(a, "confirmed")
    BY <1>4, <2>8
  <2>. QED
    BY <1>7, <2>4, <2>6, <2>7, <2>9, FinalStepIs
<1>. QED
  BY <1>8, <1>9, <1>10, <1>11 DEF Finalizing

\* So is any other row that is committed.
LEMMA CommittedMaps ==
    ASSUME DealInv, pending # Nothing, Commit, CommitRow \/ PublishAndCommit
    PROVE  [Final!Next]_Final!vars
<1> DEFINE n == Len(requests) + 1
<1>1. CASE pending.action \in Finalizing
  BY <1>1, FinalRowMaps
<1>2. CASE pending.action \in Negotiation
  <2>1. /\ MadeOf(requests') = MadeOf(requests) /\ ReachedOf(requests') = ReachedOf(requests)
        /\ StandingOf(requests', history') = {}
    BY <1>2, CommitMaps DEF Finalizing, Negotiation
  <2>. QED
    BY <2>1, OtherFinalSteps
<1>3. CASE pending.action = "record_final_basis_agreement"
  <2>1. pending.basis.positions = history
    BY <1>3 DEF DealInv, PendingStands
  <2>2. /\ MadeOf(requests') = MadeOf(requests) \cup {n}
        /\ ReachedOf(requests') = ReachedOf(requests)
        /\ StandingOf(requests', history') = StandingOf(requests, history) \cup {n}
        /\ n \notin MadeOf(requests) /\ n \in 1..MaxRequests
    BY <1>3, <2>1, CommitMaps DEF Finalizing, Negotiation
  <2>. QED
    BY <2>2, OtherFinalSteps
<1>4. CASE pending.action \notin Finalizing \cup Negotiation \cup {"record_final_basis_agreement"}
  <2>1. /\ MadeOf(requests') = MadeOf(requests) /\ ReachedOf(requests') = ReachedOf(requests)
        /\ StandingOf(requests', history') = StandingOf(requests, history)
    BY <1>4, CommitMaps
  <2>. QED
    BY <2>1, OtherFinalSteps
<1>. QED
  BY <1>1, <1>2, <1>3, <1>4

\* A change of the positions leaves no agreement standing.
LEMMA ChangedPositionsMap ==
    ASSUME DealInv, NEW batch \in session.batches, MutateDealPositions(batch)
    PROVE  Final!Next
<1>1. /\ history \in Seq(Event) /\ session \in Session /\ batch \in Seq(Change) /\ batch # <<>>
  BY InvHas, SessionsOK
<1>2. requests' = requests /\ history' = Extended(history, batch)
  BY <1>1, InvHas, ChangesAreValid DEF MutateDealPositions
<1>3. Len(history') > Len(history) /\ Len(history) \in Nat
  BY <1>1, <1>2, InvHas, ExtendedIs DEF MutateDealPositions
<1>4. ASSUME NEW a \in StandingOf(requests', history') PROVE FALSE
  <2>1. a \in DOMAIN requests /\ requests[a].basis.positions = history'
    BY <1>2, <1>4 DEF StandingOf, MadeOf, Rows
  <2>2. requests[a] \in RowType
    BY <2>1, InvHas
  <2>3. requests[a].basis \in Bases
    BY <2>2 DEF RowType
  <2>4. requests[a].basis.positions \in Seq(Event)
    BY <2>3 DEF Bases
  <2>5. IsPrefix(requests[a].basis.positions, history)
    BY <2>1 DEF DealInv, PositionLinksResolve, Found
  <2>6. Len(requests[a].basis.positions) <= Len(history)
    BY <1>1, <2>4, <2>5, PrefixIs
  <2>. QED
    BY <1>3, <2>1, <2>6
<1>5. MadeOf(requests') = MadeOf(requests) /\ ReachedOf(requests') = ReachedOf(requests)
  BY <1>2
<1>. QED
  BY <1>4, <1>5, OtherFinalSteps

\* The positions change only by their own command.
LEMMA HistoryMoves ==
    ASSUME [Next]_vars, requests' = requests, history' # history
    PROVE  \E batch \in session.batches : MutateDealPositions(batch)
<1>1. ~ \E rid \in Round : \/ RoundCommand(rid) \/ WorkingCommand(rid) \/ IssueCommand(rid)
                           \/ KitCommand(rid) \/ FinalCommand(rid)
  BY CommandsOnlyPropose
<1>2. ~ (CommitRow \/ PublishAndCommit)
  BY DEF CommitRow, PublishAndCommit, Commit
<1>3. ~ (Abandon \/ (\E path \in Path \cup Folder : UserSaves(path))
         \/ \E o \in session.operations : PrepareOperation(o) \/ EndOperation(o))
  BY DEF Abandon, UserSaves, PrepareOperation, EndOperation
<1>4. vars' # vars
  BY DEF vars
<1>. QED
  BY <1>1, <1>2, <1>3, <1>4 DEF Next

\* Every step is one of FinalAgreement or changes nothing of it.
LEMMA FinalStepMaps == DealInv /\ [Next]_vars => [Final!Next]_Final!vars
<1> SUFFICES ASSUME DealInv, [Next]_vars PROVE [Final!Next]_Final!vars
  OBVIOUS
<1>1. CASE requests' # requests
  BY <1>1, RowsAreCommitted, CommittedMaps
<1>2. CASE requests' = requests /\ history' # history
  <2>1. \E batch \in session.batches : MutateDealPositions(batch)
    BY <1>2, HistoryMoves
  <2>. QED
    BY <2>1, ChangedPositionsMap
<1>3. CASE requests' = requests /\ history' = history
  BY <1>3, OtherFinalSteps
<1>. QED
  BY <1>1, <1>2, <1>3

LEMMA FinalInitMaps == Init => Final!Init
<1> SUFFICES ASSUME Init PROVE Final!Init
  OBVIOUS
<1>1. requests = <<>>
  BY DEF Init
<1>2. \A A : Rows(requests, A) = {}
  BY <1>1 DEF Rows
<1>. QED
  BY <1>2 DEF Final!Init, Agreements

\* FinalizationImplemented: the final document stands on its agreement.
THEOREM ImplementsFinal == Spec => FinalizationImplemented
BY FinalInitMaps, FinalStepMaps, DealsAreGrounded, PTL
   DEF Spec, FinalizationImplemented, Final!Spec
================================================================================
