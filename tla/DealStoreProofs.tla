----------------------------- MODULE DealStoreProofs ----------------------------
(***************************************************************************)
(* Theorems about DealStore, for any number of calls, requests and losses. *)
(* Types come first; StoreInv is then shown inductive, action by action,   *)
(* and the promises of the stores follow from it.                          *)
(***************************************************************************)
EXTENDS DealStore, TLAPS

\* The fields of a command have their types.
LEMMA AttemptFields ==
    ASSUME NEW a \in Attempt
    PROVE  /\ a.id \in Request
           /\ a.digest \in Digest \cup {NoDigest}
           /\ a.plan \in Request \cup {NoPlan}
BY AttemptIsCommands

\* A free lock names no call.
LEMMA NoCallIsNoCall == NoCall \notin Call
BY BoundsOK DEF NoCall, Call

Typed == TypeOK /\ NamesItsFiles

USE DEF Goto, Stay

\* The members of a sequence.
LEMMA Member == ASSUME NEW S, NEW s \in Seq(S), NEW i \in DOMAIN s PROVE s[i] \in S
OBVIOUS

\* An entry of a store records a command and positions.
LEMMA EntryMember ==
    ASSUME NEW s \in Seq(Entry), NEW i \in DOMAIN s
    PROVE  s[i].attempt \in Attempt /\ s[i].positions \in Seq(Call)
<1>1. s[i] \in Entry
  BY Member
<1>. QED
  BY <1>1 DEF Entry

\* The state starts with its types.
LEMMA InitTyped == Init => Typed
<1>1. ASSUME NEW s \in Openings PROVE s \in Seq(Entry)
  <2>1. s \in Seq([attempt : Attempt, positions : {<<>>}])
    BY OpeningsAreRounds
  <2>2. <<>> \in Seq(Call)
    OBVIOUS
  <2>3. ASSUME NEW e \in [attempt : Attempt, positions : {<<>>}] PROVE e \in Entry
    BY <2>2 DEF Entry
  <2>4. ASSUME NEW S, NEW T, NEW t \in Seq(S), \A e \in S : e \in T PROVE t \in Seq(T)
    BY <2>4
  <2>. QED
    BY <2>1, <2>3, <2>4
<1>2. ASSUME NEW s \in Seq(Entry) PROVE Documents(s) \in SUBSET Digest
  <2>1. ASSUME NEW i \in DOMAIN s PROVE s[i].attempt.digest \in Digest \cup {NoDigest}
    BY EntryMember, AttemptFields
  <2>. QED
    BY <2>1 DEF Documents, ToSet
<1>3. (CHOOSE a \in Attempt : TRUE) \in Attempt
  BY SomethingToDo
<1>4. ASSUME Init PROVE /\ rounds \in Seq(Entry) /\ Documents(rounds) \in SUBSET Digest
                        /\ positions \in Seq(Call)
  BY <1>1, <1>2, <1>4 DEF Init
<1>5. Empty \in Stores
  BY DEF Empty, Stores
<1>6. ASSUME Init PROVE TypeOK
  <2>1. /\ rounds \in Seq(Entry) /\ roundsOnDisk \in SUBSET Seq(Entry)
        /\ positions \in Seq(Call) /\ positionsOnDisk \in SUBSET Seq(Call)
        /\ snapshots \in SUBSET Digest /\ snapshotsKept \in SUBSET snapshots
    BY <1>4, <1>6 DEF Init
  <2>2. /\ attempt \in [Call -> Attempt]
        /\ expected \in [Call -> Stores] /\ loaded \in [Call -> Stores]
    BY <1>3, <1>5, <1>6 DEF Init
  <2>3. folder \in {"absent", "made", "kept"}
    BY <1>6 DEF Init
  <2>4. losses \in 0..MaxLosses
    BY <1>6, BoundsOK DEF Init
  <2>. QED
    BY <2>1, <2>2, <2>3, <2>4, <1>6 DEF Init, TypeOK
<1>7. Init => NamesItsFiles
  BY DEF Init, NamesItsFiles
<1>. QED
  BY <1>6, <1>7 DEF Typed

\* Starting a call keeps the types.
LEMMA BeginTyped == ASSUME Typed, NEW c \in Call, Begin(c) PROVE Typed'
BY DEF Typed, TypeOK, NamesItsFiles, Begin, Stores, Running, Locked, Prepared,
     storeVars, fileVars, historyVars

\* Making .veqtor keeps the types.
LEMMA FolderTyped == ASSUME Typed, NEW c \in Call, OpenFolder(c) \/ SyncRoot(c) PROVE Typed'
BY DEF Typed, TypeOK, NamesItsFiles, OpenFolder, SyncRoot, Refuse, Answer,
     Released, Running, Locked, Prepared, storeVars, requestVars, historyVars

\* Taking the lock and syncing the folder keep the types.
LEMMA LockTyped == ASSUME Typed, NEW c \in Call, Lock(c) \/ Enter(c) PROVE Typed'
BY DEF Typed, TypeOK, NamesItsFiles, Lock, Enter, EntrySync, SideSynced, Refuse,
     Answer, Released, Running, Locked, Prepared, storeVars, fileVars, requestVars,
     historyVars

\* A plan that is on record has a request id.
LEMMA PlanIsRequest ==
    ASSUME NEW s \in Seq(Entry), NEW p, PlanEntries(s, p) # {} PROVE p \in Request
<1>1. PICK i \in DOMAIN s : s[i].attempt.id = p
  BY DEF PlanEntries, ToSet
<1>. QED
  BY <1>1, EntryMember, AttemptFields

\* An accepted command names the files its steps will write.
LEMMA DecideTyped == ASSUME Typed, NEW c \in Call, Replay(c) \/ Decide(c) PROVE Typed'
<1>. USE DEF Typed, TypeOK, NamesItsFiles, Loads, Stores, Refuse, Answer, Released, Running,
             Locked, Prepared, storeVars, fileVars, requestVars, historyVars
<1>1. CASE Replay(c)
  BY <1>1 DEF Replay
<1>2. CASE Decide(c)
  <2>1. ASSUME Accepted(c), ~OnPositions(c), attempt[c].digest = NoDigest,
               FirstWrite(attempt[c]) = "rechecking"
        PROVE  attempt[c].plan \in Request
    <3>1. PlanEntries(rounds, attempt[c].plan) # {}
      BY <2>1 DEF Accepted, Applicable, OnBasis, FirstWrite
    <3>. QED
      BY <3>1, PlanIsRequest
  <2>2. attempt[c].digest # NoDigest => attempt[c].digest \in Digest
    BY AttemptFields
  <2>3. FirstWrite(attempt[c]) \in {"snapshotting", "rechecking", "comparing"}
    BY DEF FirstWrite
  <2>4. attempt[c].digest = NoDigest <=> FirstWrite(attempt[c]) # "snapshotting"
    BY DEF FirstWrite
  <2>. QED
    BY <1>2, <2>1, <2>2, <2>3, <2>4 DEF Decide
<1>. QED
  BY <1>1, <1>2

\* The snapshot steps keep the types.
LEMMA SnapshotTyped ==
    ASSUME Typed, NEW c \in Call, ReuseSnapshot(c) \/ PersistSnapshot(c) \/ SettleSnapshot(c)
    PROVE  Typed'
BY DEF Typed, TypeOK, NamesItsFiles, ReuseSnapshot, PersistSnapshot,
     SettleSnapshot, Orphan,
       Refuse, Answer, Released, Running, Locked, Prepared, storeVars, fileVars, requestVars, historyVars

\* The steps around a kit keep the types.
LEMMA KitTyped ==
    ASSUME Typed, NEW c \in Call,
           Recheck(c) \/ PublishKit(c) \/ FlushKit(c) \/ VerifyKit(c) \/ Compare(c)
    PROVE  Typed'
BY DEF Typed, TypeOK, NamesItsFiles, Recheck, PublishKit, Flushing, FlushKit,
     VerifyKit, Compare, PublishFailure,
       Refuse, Answer, Released, Running, Locked, Prepared, storeVars, fileVars, requestVars, historyVars

\* What a call writes is a store.
LEMMA CandidateTyped ==
    ASSUME Typed, NEW c \in Call
    PROVE  Candidate(c) \in Seq(Entry) /\ Append(loaded[c].positions, c) \in Seq(Call)
<1>1. loaded[c].rounds \in Seq(Entry) /\ loaded[c].positions \in Seq(Call)
  BY DEF Typed, TypeOK, Stores
<1>2. RecordedBasis(attempt[c], loaded[c].positions) \in Seq(Call)
  BY <1>1 DEF RecordedBasis
<1>. QED
  BY <1>1, <1>2 DEF Candidate, Entry, Typed, TypeOK

\* Replacing and syncing a store keep the types.
LEMMA ReplaceTyped == ASSUME Typed, NEW c \in Call, Replace(c) \/ SyncStore(c) PROVE Typed'
<1>. USE CandidateTyped DEF Typed, TypeOK, NamesItsFiles, Answer, Released, Running,
             Locked, Prepared, storeVars, fileVars, requestVars, historyVars
<1>1. CASE Replace(c)
  <2>1. CASE Answer(c, "uncertain") /\ UNCHANGED <<storeVars, touched>>
    BY <1>1, <2>1 DEF Replace
  <2>2. CASE pc' = [pc EXCEPT ![c] = "syncing"]
    <3>1. /\ rounds' \in Seq(Entry) /\ roundsOnDisk' \in SUBSET Seq(Entry)
          /\ positions' \in Seq(Call) /\ positionsOnDisk' \in SUBSET Seq(Call)
      <4>1. CASE OnPositions(c)
        <5>1. positions' = Append(loaded[c].positions, c) \/ positions' = positions
          BY <1>1, <4>1 DEF Replace
        <5>2. positions' \in Seq(Call)
          BY <5>1
        <5>. QED
          BY <1>1, <4>1, <5>2 DEF Replace
      <4>2. CASE ~OnPositions(c)
        BY <1>1, <2>2, <4>2 DEF Replace
      <4>. QED
        BY <4>1, <4>2
    <3>. QED
      BY <1>1, <2>2, <3>1 DEF Replace
  <2>. QED
    BY <1>1, <2>1, <2>2 DEF Replace
<1>2. CASE SyncStore(c)
  BY <1>2 DEF SyncStore, SideSynced, CommitFailure
<1>. QED
  BY <1>1, <1>2

\* Kills, the user and power losses keep the types.
LEMMA OutsideTyped ==
    ASSUME Typed, (\E c \in Call : Kill(c)) \/ (\E p \in Request : CarryAway(p)) \/ PowerLoss
    PROVE  Typed'
<1>. USE DEF Typed, TypeOK, NamesItsFiles
<1>1. ASSUME NEW c \in Call, Kill(c) PROVE Typed'
  BY <1>1 DEF Kill, Orphan, Released, Running, Locked, Prepared, storeVars,
       fileVars, requestVars
<1>2. ASSUME NEW p \in Request, CarryAway(p) PROVE Typed'
  BY <1>2 DEF CarryAway, storeVars, requestVars, historyVars
<1>3. CASE PowerLoss
  <2>1. /\ rounds' \in Seq(Entry) /\ roundsOnDisk' \in SUBSET Seq(Entry)
        /\ positions' \in Seq(Call) /\ positionsOnDisk' \in SUBSET Seq(Call)
    <3>1. <<>> \in Seq(Entry) /\ <<>> \in Seq(Call)
      OBVIOUS
    <3>2. rounds' \in Seq(Entry) /\ positions' \in Seq(Call)
      BY <1>3, <3>1 DEF PowerLoss
    <3>. QED
      BY <1>3, <3>2 DEF PowerLoss
  <2>2. /\ snapshots' \in SUBSET Digest /\ snapshotsKept' \in SUBSET snapshots'
        /\ kits' \in SUBSET Request /\ kitsKept' \in SUBSET kits'
    BY <1>3 DEF PowerLoss
  <2>3. folder' \in {"absent", "made", "kept"} /\ folderLost' \in BOOLEAN
    BY <1>3 DEF PowerLoss
  <2>4. losses' \in 0..MaxLosses
    BY <1>3, BoundsOK DEF PowerLoss
  <2>5. \A c \in Call : pc'[c] \in {"idle", "ended"}
    BY <1>3 DEF PowerLoss, Running
  <2>6. pc' \in [Call -> {"idle", "ended"} \cup Running]
    BY <1>3, <2>5 DEF PowerLoss
  <2>. QED
    BY <1>3, <2>1, <2>2, <2>3, <2>4, <2>5, <2>6 DEF PowerLoss, requestVars
<1>. QED
  BY <1>1, <1>2, <1>3

\* Every step keeps the types.
LEMMA StepTyped == ASSUME Typed, [Next]_vars PROVE Typed'
<1>1. CASE UNCHANGED vars
  BY <1>1 DEF Typed, TypeOK, NamesItsFiles, vars, storeVars, fileVars, requestVars,
       historyVars
<1>2. ASSUME NEW c \in Call, Begin(c) \/ CallStep(c) PROVE Typed'
  BY <1>2, BeginTyped, FolderTyped, LockTyped, DecideTyped, SnapshotTyped, KitTyped,
     ReplaceTyped DEF CallStep
<1>. QED
  BY <1>1, <1>2, OutsideTyped DEF Next

\* Every variable keeps its type, and the files a call writes are named by its
\* command (the closed command schema of mutate_deal_state).
THEOREM StoreTypeCorrect == Spec => []TypeOK
<1>1. Init => Typed
  BY InitTyped
<1>2. Typed /\ [Next]_vars => Typed'
  BY StepTyped
<1>3. Typed => TypeOK
  BY DEF Typed
<1>. QED
  BY <1>1, <1>2, <1>3, PTL DEF Spec

--------------------------------------------------------------------------------
(* Sequences.                                                              *)

\* Appending adds one member.
LEMMA AppendMembers ==
    ASSUME NEW S, NEW s \in Seq(S), NEW e \in S
    PROVE  ToSet(Append(s, e)) = ToSet(s) \cup {e}
<1>1. DOMAIN Append(s, e) = 1..(Len(s) + 1) /\ DOMAIN s = 1..Len(s) /\ Len(s) \in Nat
  OBVIOUS
<1>2. /\ \A i \in 1..Len(s) : Append(s, e)[i] = s[i]
      /\ Append(s, e)[Len(s) + 1] = e
  OBVIOUS
<1>3. ASSUME NEW x \in ToSet(Append(s, e)) PROVE x \in ToSet(s) \cup {e}
  BY <1>1, <1>2 DEF ToSet
<1>4. ASSUME NEW x \in ToSet(s) \cup {e} PROVE x \in ToSet(Append(s, e))
  <2>1. CASE x = e
    <3>1. Len(s) + 1 \in DOMAIN Append(s, e)
      BY <1>1
    <3>. QED
      BY <2>1, <3>1, <1>2 DEF ToSet
  <2>2. ASSUME NEW i \in DOMAIN s, x = s[i] PROVE x \in ToSet(Append(s, e))
    <3>1. i \in DOMAIN Append(s, e) /\ Append(s, e)[i] = x
      BY <1>1, <1>2, <2>2
    <3>. QED
      BY <3>1 DEF ToSet
  <2>. QED
    BY <1>4, <2>1, <2>2 DEF ToSet
<1>. QED
  BY <1>3, <1>4

\* The empty sequence and the sequence itself are prefixes.
LEMMA PrefixSelf ==
    ASSUME NEW S, NEW s \in Seq(S) PROVE IsPrefix(<<>>, s) /\ IsPrefix(s, s)
BY DEF IsPrefix

\* A prefix stays one when an element is appended.
LEMMA PrefixFacts ==
    ASSUME NEW S, NEW s \in Seq(S), NEW t \in Seq(S), NEW e \in S
    PROVE  /\ IsPrefix(<<>>, s)
           /\ IsPrefix(s, s)
           /\ IsPrefix(s, t) => IsPrefix(s, Append(t, e))
<1>1. IsPrefix(<<>>, s) /\ IsPrefix(s, s)
  BY DEF IsPrefix
<1>2. ASSUME IsPrefix(s, t) PROVE IsPrefix(s, Append(t, e))
  <2>1. Len(s) <= Len(t) /\ SubSeq(s, 1, Len(s)) = SubSeq(t, 1, Len(s))
    BY <1>2 DEF IsPrefix
  <2>2. SubSeq(Append(t, e), 1, Len(s)) = SubSeq(t, 1, Len(s))
    BY <2>1
  <2>. QED
    BY <2>1, <2>2 DEF IsPrefix
<1>. QED
  BY <1>1, <1>2

--------------------------------------------------------------------------------
(* The invariant of the stores.                                            *)

Control == LockHeld /\ WorksOnDisk /\ DecidedStays /\ ReplacedIsThere
Content == SeenIsOnDisk /\ RecordedOnce /\ BasisStaysHistory /\ PlanBeforeKit

\* The invariant by what its parts speak of: calls, stores, answers.
LEMMA StoreInvParts == StoreInv <=> Control /\ Content /\ OkIsKept
BY DEF StoreInv, Control, Content

\* No new version, no new kit: what held of every version still does.
LEMMA VersionsShrink ==
    ASSUME Typed, StoreInv,
           roundsOnDisk' \subseteq roundsOnDisk, rounds' \in roundsOnDisk',
           positionsOnDisk' \subseteq positionsOnDisk, positions' \in positionsOnDisk',
           kits' \subseteq kits, folderLost' = folderLost
    PROVE  Content'
<1>1. SeenIsOnDisk'
  BY DEF SeenIsOnDisk
<1>2. RecordedOnce'
  BY DEF StoreInv, RecordedOnce
<1>3. BasisStaysHistory'
  BY DEF StoreInv, BasisStaysHistory
<1>4. PlanBeforeKit'
  BY DEF StoreInv, PlanBeforeKit, PlanEntries
<1>. QED
  BY <1>1, <1>2, <1>3, <1>4 DEF Content

\* Nor does a call that had answered ok lose its change.
LEMMA OkShrink ==
    ASSUME Typed, StoreInv,
           roundsOnDisk' \subseteq roundsOnDisk, positionsOnDisk' \subseteq positionsOnDisk,
           folderLost' = folderLost, UNCHANGED attempt,
           \A c \in Call : answer'[c] = "ok" => answer[c] = "ok"
    PROVE  OkIsKept'
BY DEF StoreInv, OkIsKept, Holds, OnPositions

\* The invariant holds at the start.
LEMMA InitInv == Init => StoreInv
<1>. SUFFICES ASSUME Init PROVE StoreInv
  OBVIOUS
<1>1. Typed
  BY InitTyped
<1>2. Control
  BY NoCallIsNoCall DEF Init, Control, LockHeld, WorksOnDisk, DecidedStays,
       ReplacedIsThere,
     Locked, Prepared
<1>3. SeenIsOnDisk
  BY DEF Init, SeenIsOnDisk
<1>4. RecordedOnce
  BY OpeningsAreRounds DEF Init, RecordedOnce
<1>5. BasisStaysHistory
  <2>1. ASSUME NEW i \in DOMAIN rounds PROVE rounds[i].positions = <<>>
    <3>1. rounds \in Seq([attempt : Attempt, positions : {<<>>}])
      BY OpeningsAreRounds DEF Init
    <3>2. rounds[i] \in [attempt : Attempt, positions : {<<>>}]
      BY <3>1, Member
    <3>. QED
      BY <3>2
  <2>2. IsPrefix(<<>>, <<>>)
    BY DEF IsPrefix
  <2>. QED
    BY <2>1, <2>2 DEF Init, BasisStaysHistory, ToSet
<1>6. PlanBeforeKit /\ OkIsKept
  BY DEF Init, PlanBeforeKit, OkIsKept
<1>. QED
  BY <1>2, <1>3, <1>4, <1>5, <1>6, StoreInvParts DEF Content

\* Steps that leave stores, kits and folder alone: only the control moves.
LEMMA CalmStep ==
    ASSUME Typed, StoreInv, UNCHANGED <<storeVars, folderLost, attempt>>,
           kits' \subseteq kits, Control',
           \A c \in Call : answer'[c] = "ok" => answer[c] = "ok"
    PROVE  StoreInv'
<1>1. /\ UNCHANGED <<rounds, roundsOnDisk, positions, positionsOnDisk>>
      /\ rounds \in roundsOnDisk /\ positions \in positionsOnDisk
  BY DEF storeVars, StoreInv, SeenIsOnDisk
<1>2. Content'
  BY <1>1, VersionsShrink
<1>3. OkIsKept'
  BY <1>1, OkShrink
<1>4. StoreInv' <=> Control' /\ Content' /\ OkIsKept'
  BY DEF StoreInv, Control, Content
<1>. QED
  BY <1>2, <1>3, <1>4

\* A call that starts disturbs nothing.
LEMMA BeginInv == ASSUME Typed, StoreInv, NEW c \in Call, Begin(c) PROVE StoreInv'
<1>1. Control'
  <2>1. LockHeld'
    BY DEF StoreInv, Typed, TypeOK, Begin, LockHeld, Locked, Prepared
  <2>2. WorksOnDisk'
    BY DEF StoreInv, Typed, TypeOK, Begin, WorksOnDisk, Prepared, storeVars
  <2>3. DecidedStays'
    BY DEF StoreInv, Typed, TypeOK, Begin, DecidedStays, Prepared, storeVars,
         OnPositions, OnBasis,
       PlanEntries, Receipts, Ids
  <2>4. ReplacedIsThere'
    BY DEF StoreInv, Typed, TypeOK, Begin, ReplacedIsThere, Prepared, storeVars,
         OnPositions, Holds
  <2>. QED
    BY <2>1, <2>2, <2>3, <2>4 DEF Control
<1>2. Content'
  BY VersionsShrink DEF Begin, StoreInv, SeenIsOnDisk, storeVars, fileVars,
       historyVars
<1>3. OkIsKept'
  BY DEF StoreInv, OkIsKept, ReplacedIsThere, Begin, Holds, OnPositions, storeVars,
       historyVars,
     Typed, TypeOK
<1>4. StoreInv' <=> Control' /\ Content' /\ OkIsKept'
  BY DEF StoreInv, Control, Content
<1>. QED
  BY <1>1, <1>2, <1>3, <1>4

\* Nor do making .veqtor and taking the lock.
LEMMA FolderInv ==
    ASSUME Typed, StoreInv, NEW c \in Call, OpenFolder(c) \/ SyncRoot(c) \/ Lock(c) PROVE StoreInv'
<1>1. Control'
  <2>. USE NoCallIsNoCall DEF StoreInv, Typed, TypeOK, OpenFolder, SyncRoot, Lock, LockFree, Refuse,
             Answer, Released, Locked, Prepared
  <2>1. LockHeld'
    BY DEF LockHeld
  <2>2. WorksOnDisk'
    BY DEF WorksOnDisk, storeVars
  <2>3. DecidedStays'
    BY DEF DecidedStays, storeVars, requestVars, OnPositions, OnBasis, PlanEntries,
         Receipts, Ids
  <2>4. ReplacedIsThere'
    BY DEF ReplacedIsThere, storeVars, requestVars, OnPositions, Holds
  <2>. QED
    BY <2>1, <2>2, <2>3, <2>4 DEF Control
<1>2. UNCHANGED <<storeVars, folderLost, attempt, kits>>
  BY DEF OpenFolder, SyncRoot, Lock, fileVars, requestVars, historyVars
<1>3. \A d \in Call : answer'[d] = "ok" => answer[d] = "ok"
  BY DEF OpenFolder, SyncRoot, Lock, Refuse, Answer, Typed, TypeOK
<1>. QED
  BY <1>1, <1>2, <1>3, CalmStep

\* The fsync on entry leaves one version of each store.
LEMMA EnterInv == ASSUME Typed, StoreInv, NEW c \in Call, Enter(c) PROVE StoreInv'
<1>1. Control'
  BY NoCallIsNoCall
  DEF StoreInv, Typed, TypeOK, Enter, EntrySync, SideSynced, Refuse, Answer, Released, Control, LockHeld,
      WorksOnDisk, DecidedStays, ReplacedIsThere, Locked, Prepared, fileVars, requestVars,
      OnPositions, Holds
<1>2. /\ roundsOnDisk' \subseteq roundsOnDisk /\ rounds' \in roundsOnDisk'
      /\ positionsOnDisk' \subseteq positionsOnDisk /\ positions' \in positionsOnDisk'
  BY DEF Enter, EntrySync, SideSynced, StoreInv, SeenIsOnDisk
<1>3. UNCHANGED <<folderLost, attempt, kits>>
  BY DEF Enter, fileVars, requestVars, historyVars
<1>4. \A d \in Call : answer'[d] = "ok" => answer[d] = "ok"
  BY DEF Enter, Refuse, Answer, Typed, TypeOK
<1>5. Content' /\ OkIsKept'
  BY <1>2, <1>3, <1>4, VersionsShrink, OkShrink
<1>6. StoreInv' <=> Control' /\ Content' /\ OkIsKept'
  BY DEF StoreInv, Control, Content
<1>. QED
  BY <1>1, <1>5, <1>6

\* A replayed request is on disk, since its entry synced the folder.
LEMMA ReplayInv == ASSUME Typed, StoreInv, NEW c \in Call, Replay(c) PROVE StoreInv'
<1>1. Control'
  BY NoCallIsNoCall
  DEF StoreInv, Typed, TypeOK, Replay, Loads, Refuse, Answer, Released, Control, LockHeld,
      WorksOnDisk, DecidedStays, ReplacedIsThere, Locked, Prepared, storeVars, fileVars, requestVars,
      OnPositions, Holds
<1>2. UNCHANGED <<rounds, roundsOnDisk, positions, positionsOnDisk, folderLost, attempt, kits>>
  BY DEF Replay, storeVars, fileVars, requestVars, historyVars
<1>3. Content'
  BY <1>2, VersionsShrink DEF StoreInv, SeenIsOnDisk
<1>4. OkIsKept'
  <2>1. ASSUME NEW d \in Call, answer'[d] = "ok", answer[d] # "ok", ~folderLost,
               NEW s \in roundsOnDisk, NEW pos \in positionsOnDisk
        PROVE  Holds(d, s, pos)
    <3>1. d = c /\ \E e \in ToSet(rounds) : e.attempt = attempt[c]
      BY <2>1 DEF Replay, Refuse, Answer, Typed, TypeOK
    <3>2. s = rounds /\ ~OnPositions(c)
      BY DEF Replay, StoreInv, WorksOnDisk
    <3>. QED
      BY <3>1, <3>2 DEF Holds
  <2>2. \A d \in Call, s \in roundsOnDisk, pos \in positionsOnDisk :
            answer[d] = "ok" /\ ~folderLost => Holds(d, s, pos)
    BY DEF StoreInv, OkIsKept
  <2>. QED
    BY <1>2, <2>1, <2>2 DEF OkIsKept, Holds, OnPositions
<1>5. StoreInv' <=> Control' /\ Content' /\ OkIsKept'
  BY DEF StoreInv, Control, Content
<1>. QED
  BY <1>1, <1>3, <1>4, <1>5

\* What is decided under the lock holds of the stores on disk.
LEMMA DecideInv == ASSUME Typed, StoreInv, NEW c \in Call, Decide(c) PROVE StoreInv'
<1>1. UNCHANGED <<storeVars, rounds, roundsOnDisk, positions, positionsOnDisk, folderLost, attempt, kits>>
  BY DEF Decide, storeVars, fileVars, requestVars, historyVars
<1>2. \A d \in Call : answer'[d] = "ok" => answer[d] = "ok"
  BY DEF Decide, Refuse, Answer, Typed, TypeOK
<1>3. \/ Refuse(c)
      \/ /\ Accepted(c)
         /\ Goto(c, IF OnPositions(c) THEN "comparing" ELSE FirstWrite(attempt[c]))
         /\ Stay
  BY DEF Decide
<1>4. Control'
  <2>. USE NoCallIsNoCall, <1>1, <1>3 DEF StoreInv, Typed, TypeOK, Refuse, Answer, Released, Locked, Prepared,
             FirstWrite
  <2>1. LockHeld'
    BY DEF LockHeld, Decide
  <2>2. WorksOnDisk'
    BY DEF WorksOnDisk, LockHeld, Decide, Loads
  <2>3. DecidedStays'
    <3>1. ASSUME NEW d \in Call, d # c, pc'[d] \in Prepared PROVE FALSE
      BY <3>1 DEF LockHeld, Decide
    <3>2. pc'[c] \in Prepared /\ ~OnPositions(c) => attempt[c].id \notin Ids(rounds)
      BY DEF Decide, Recorded
    <3>3. pc'[c] \in Prepared /\ OnPositions(c) => pc'[c] = "comparing"
      BY DEF Decide
    <3>4. pc'[c] \in Prepared /\ attempt[c].action = "publish_outgoing_package" =>
              /\ OnBasis(rounds, positions, attempt[c].plan)
              /\ Receipts(rounds, attempt[c].plan) = {}
      BY DEF Accepted, Applicable, OnPositions, Decide
    <3>. QED
      BY <3>1, <3>2, <3>3, <3>4 DEF DecidedStays, OnPositions, OnBasis,
           PlanEntries, Receipts, Ids
  <2>4. ReplacedIsThere'
    BY DEF ReplacedIsThere, OnPositions, Holds, Decide
  <2>. QED
    BY <2>1, <2>2, <2>3, <2>4 DEF Control
<1>. QED
  BY <1>1, <1>2, <1>4, CalmStep

\* The steps between deciding and the store: they move on or end the call.
Middle(c) ==
    \/ ReuseSnapshot(c) \/ PersistSnapshot(c) \/ SettleSnapshot(c)
    \/ Recheck(c) \/ FlushKit(c) \/ VerifyKit(c) \/ Compare(c)

\* How those steps move a call.
LEMMA MiddleMoves ==
    ASSUME Typed, NEW c \in Call, Middle(c)
    PROVE  /\ pc[c] \in Prepared \ {"replacing"}
           /\ UNCHANGED <<storeVars, folderLost, attempt, kits, loaded>>
           /\ \/ /\ pc[c] # "snapshotting" => pc'[c] \in {"effecting", "comparing", "replacing"}
                 /\ pc'[c] = "effecting" => pc[c] = "rechecking"
                 /\ pc'[c] = "settling" => pc[c] = "snapshotting"
                 /\ pc'[c] \in Prepared \ {"snapshotting", "rechecking", "flushing"}
                 /\ UNCHANGED <<answer, holder>>
              \/ pc'[c] = "ended" /\ answer'[c] \in {"refused", "uncertain"} /\ holder' = Released(c)
           /\ \A d \in Call : d # c => pc'[d] = pc[d] /\ answer'[d] = answer[d]
BY DEF Typed, TypeOK, Middle, ReuseSnapshot, PersistSnapshot, SettleSnapshot,
     Recheck, FlushKit, VerifyKit,
       Compare, PublishFailure, Refuse, Answer, Prepared, fileVars, requestVars, historyVars

\* They keep the invariant.
LEMMA MiddleInv == ASSUME Typed, StoreInv, NEW c \in Call, Middle(c) PROVE StoreInv'
<1>. DEFINE moved == /\ pc[c] # "snapshotting" => pc'[c] \in {"effecting", "comparing", "replacing"}
                     /\ pc'[c] = "effecting" => pc[c] = "rechecking"
                     /\ pc'[c] = "settling" => pc[c] = "snapshotting"
                     /\ pc'[c] \in Prepared \ {"snapshotting", "rechecking", "flushing"}
                     /\ UNCHANGED <<answer, holder>>
            ended == pc'[c] = "ended" /\ answer'[c] \in {"refused", "uncertain"} /\ holder' = Released(c)
<1>1. /\ pc[c] \in Prepared \ {"replacing"}
      /\ UNCHANGED <<storeVars, rounds, roundsOnDisk, positions, positionsOnDisk, folderLost, attempt,
                     kits, loaded>>
      /\ moved \/ ended
      /\ \A d \in Call : d # c => pc'[d] = pc[d] /\ answer'[d] = answer[d]
  BY MiddleMoves DEF storeVars
<1>2. holder = c /\ \A d \in Call : d # c => pc[d] \notin Locked
  BY <1>1 DEF StoreInv, LockHeld, Locked
<1>3. LockHeld'
  BY <1>1, <1>2, NoCallIsNoCall DEF LockHeld, Locked, Released, Prepared
<1>4. WorksOnDisk'
  BY <1>1, <1>2 DEF StoreInv, WorksOnDisk, Locked, Prepared
<1>5. DecidedStays'
  BY <1>1, <1>2 DEF StoreInv, DecidedStays, Locked, Prepared, OnPositions, OnBasis,
       PlanEntries,
     Receipts, Ids
<1>6. ReplacedIsThere'
  <2>1. pc'[c] # "syncing" /\ (answer'[c] # "none" => pc'[c] = "ended")
    BY <1>1 DEF StoreInv, ReplacedIsThere, Prepared
  <2>2. \A d \in Call : d # c =>
            /\ pc'[d] = "syncing" => Holds(d, rounds, positions)
            /\ answer'[d] # "none" => pc'[d] = "ended"
    BY <1>1 DEF StoreInv, ReplacedIsThere
  <2>3. ASSUME NEW d \in Call
        PROVE  /\ pc'[d] = "syncing" => Holds(d, rounds, positions)'
               /\ answer'[d] # "none" => pc'[d] = "ended"
    <3>1. CASE d = c
      BY <2>1, <3>1
    <3>2. CASE d # c
      BY <1>1, <2>2, <3>2 DEF Holds, OnPositions
    <3>. QED
      BY <3>1, <3>2
  <2>. QED
    BY <2>3 DEF ReplacedIsThere
<1>7. \A d \in Call : answer'[d] = "ok" => answer[d] = "ok"
  BY <1>1
<1>. QED
  BY <1>1, <1>3, <1>4, <1>5, <1>6, <1>7, CalmStep DEF Control

\* A kit is created with its plan in the only version on disk.
LEMMA PublishInv == ASSUME Typed, StoreInv, NEW c \in Call, PublishKit(c) PROVE StoreInv'
<1>1. /\ pc[c] = "effecting"
      /\ UNCHANGED <<storeVars, rounds, roundsOnDisk, positions, positionsOnDisk, folderLost, attempt, loaded>>
      /\ \A d \in Call : d # c => pc'[d] = pc[d] /\ answer'[d] = answer[d]
      /\ \/ pc'[c] = "flushing" /\ UNCHANGED <<answer, holder>>
         \/ pc'[c] = "ended" /\ answer'[c] = "refused" /\ holder' = Released(c)
  BY DEF Typed, TypeOK, PublishKit, Flushing, Refuse, Answer, storeVars, requestVars
<1>2. holder = c /\ \A d \in Call : d # c => pc[d] \notin Locked
  BY <1>1 DEF StoreInv, LockHeld, Locked, Prepared
<1>3. LockHeld'
  BY <1>1, <1>2, NoCallIsNoCall DEF LockHeld, Locked, Released, Prepared
<1>4. WorksOnDisk'
  BY <1>1, <1>2 DEF StoreInv, WorksOnDisk, Locked, Prepared
<1>5. DecidedStays'
  BY <1>1, <1>2 DEF StoreInv, DecidedStays, Locked, Prepared, OnPositions, OnBasis,
       PlanEntries,
     Receipts, Ids
<1>6. ReplacedIsThere'
  BY <1>1 DEF StoreInv, ReplacedIsThere, Holds, OnPositions
<1>7. \A p \in kits' \ kits : p = attempt[c].plan /\ attempt[c].action = "publish_outgoing_package"
  BY DEF PublishKit
<1>8. PlanBeforeKit'
  <2>1. ASSUME NEW p \in kits', p \notin kits, NEW s \in roundsOnDisk PROVE PlanEntries(s, p) # {}
    <3>1. OnBasis(rounds, positions, p) /\ s = rounds
      BY <1>1, <1>7, <2>1 DEF StoreInv, DecidedStays, WorksOnDisk, Prepared
    <3>. QED
      BY <3>1 DEF OnBasis
  <2>. QED
    BY <1>1, <2>1 DEF StoreInv, PlanBeforeKit, PlanEntries
<1>9. SeenIsOnDisk' /\ RecordedOnce' /\ BasisStaysHistory' /\ OkIsKept'
  BY <1>1 DEF StoreInv, SeenIsOnDisk, RecordedOnce, BasisStaysHistory, OkIsKept,
       Holds, OnPositions
<1>. QED
  BY <1>3, <1>4, <1>5, <1>6, <1>8, <1>9 DEF StoreInv

\* The fsync behind a replacement makes it the only version.
LEMMA SyncInv == ASSUME Typed, StoreInv, NEW c \in Call, SyncStore(c) PROVE StoreInv'
<1>1. /\ pc[c] = "syncing" /\ pc'[c] = "ended" /\ holder' = Released(c)
      /\ UNCHANGED <<rounds, positions, folderLost, attempt, loaded, kits>>
      /\ \A d \in Call : d # c => pc'[d] = pc[d] /\ answer'[d] = answer[d]
      /\ \/ SideSynced /\ answer'[c] = "ok"
         \/ answer'[c] = "uncertain" /\ UNCHANGED <<roundsOnDisk, positionsOnDisk>>
  BY DEF Typed, TypeOK, SyncStore, CommitFailure, Answer, fileVars, requestVars,
       historyVars
<1>2. holder = c /\ \A d \in Call : d # c => pc[d] \notin Locked
  BY <1>1 DEF StoreInv, LockHeld, Locked, Prepared
<1>3. LockHeld'
  BY <1>1, <1>2, NoCallIsNoCall DEF LockHeld, Locked, Released, Prepared
<1>4. WorksOnDisk'
  BY <1>1, <1>2 DEF StoreInv, WorksOnDisk, Locked, Prepared
<1>5. DecidedStays'
  BY <1>1, <1>2 DEF StoreInv, DecidedStays, Locked, Prepared, OnPositions, OnBasis,
       PlanEntries,
     Receipts, Ids
<1>6. ReplacedIsThere'
  BY <1>1 DEF StoreInv, ReplacedIsThere, Holds, OnPositions
<1>7. /\ roundsOnDisk' \subseteq roundsOnDisk /\ rounds' \in roundsOnDisk'
      /\ positionsOnDisk' \subseteq positionsOnDisk /\ positions' \in positionsOnDisk'
  BY <1>1 DEF SideSynced, StoreInv, SeenIsOnDisk
<1>8. Content'
  BY <1>1, <1>7, VersionsShrink
<1>9. OkIsKept'
  <2>1. ASSUME NEW d \in Call, answer'[d] = "ok", answer[d] # "ok", ~folderLost,
               NEW s \in roundsOnDisk', NEW pos \in positionsOnDisk'
        PROVE  Holds(d, s, pos)
    <3>1. d = c /\ s = rounds /\ pos = positions
      BY <1>1, <2>1 DEF SideSynced
    <3>. QED
      BY <1>1, <3>1 DEF StoreInv, ReplacedIsThere
  <2>2. \A d \in Call, s \in roundsOnDisk, pos \in positionsOnDisk :
            answer[d] = "ok" /\ ~folderLost => Holds(d, s, pos)
    BY DEF StoreInv, OkIsKept
  <2>. QED
    BY <1>1, <1>7, <2>1, <2>2 DEF OkIsKept, Holds, OnPositions
<1>10. StoreInv' <=> Control' /\ Content' /\ OkIsKept'
  BY DEF StoreInv, Control, Content
<1>. QED
  BY <1>3, <1>4, <1>5, <1>6, <1>8, <1>9, <1>10 DEF Control

\* A replaced store is the old one and one entry more.
LEMMA Extended ==
    ASSUME Typed, StoreInv, NEW c \in Call, Replace(c), pc'[c] = "syncing"
    PROVE  /\ roundsOnDisk = {rounds} /\ positionsOnDisk = {positions}
           /\ OnPositions(c) => /\ UNCHANGED <<rounds, roundsOnDisk>>
                               /\ positions' = Append(positions, c)
                               /\ positionsOnDisk' = {positions, positions'}
           /\ ~OnPositions(c) =>
                 /\ UNCHANGED <<positions, positionsOnDisk>>
                 /\ roundsOnDisk' = {rounds, rounds'}
                 /\ \E e \in Entry :
                       /\ e.attempt = attempt[c]
                       /\ e.positions \in {<<>>, positions}
                       /\ rounds' = Append(rounds, e)
<1>1. /\ pc[c] = "replacing"
      /\ roundsOnDisk = {rounds} /\ positionsOnDisk = {positions}
      /\ loaded[c] = [rounds |-> rounds, positions |-> positions]
  BY DEF Replace, StoreInv, WorksOnDisk, Prepared
<1>2. \/ Answer(c, "uncertain")
      \/ /\ OnPositions(c)
         /\ positions' = Append(loaded[c].positions, c)
         /\ positionsOnDisk' = positionsOnDisk \cup {positions'}
         /\ UNCHANGED <<rounds, roundsOnDisk>>
      \/ /\ ~OnPositions(c)
         /\ rounds' = Candidate(c)
         /\ roundsOnDisk' = roundsOnDisk \cup {rounds'}
         /\ UNCHANGED <<positions, positionsOnDisk>>
  BY DEF Replace
<1>3. ~Answer(c, "uncertain")
  BY DEF Answer, Typed, TypeOK
<1>4. CASE OnPositions(c)
  BY <1>1, <1>2, <1>3, <1>4
<1>5. CASE ~OnPositions(c)
  <2>. DEFINE e == [attempt |-> attempt[c],
                    positions |-> RecordedBasis(attempt[c], loaded[c].positions)]
  <2>1. e \in Entry
    BY <1>1 DEF Entry, RecordedBasis, Typed, TypeOK
  <2>2. rounds' = Append(rounds, e)
    BY <1>1, <1>2, <1>3, <1>5 DEF Candidate
  <2>3. e.positions \in {<<>>, positions}
    BY <1>1 DEF RecordedBasis
  <2>. QED
    BY <1>1, <1>2, <1>3, <1>5, <2>1, <2>2, <2>3
<1>. QED
  BY <1>4, <1>5

\* An entry more, with a new id, keeps the ids distinct.
LEMMA DistinctAppend ==
    ASSUME NEW s \in Seq(Entry), NEW e \in Entry, e.attempt.id \notin Ids(s),
           \A i, j \in DOMAIN s : s[i].attempt.id = s[j].attempt.id => i = j
    PROVE  LET t == Append(s, e) IN
           \A i, j \in DOMAIN t : t[i].attempt.id = t[j].attempt.id => i = j
<1>. DEFINE t == Append(s, e)
<1>1. /\ Len(s) \in Nat /\ DOMAIN s = 1..Len(s) /\ DOMAIN t = 1..(Len(s) + 1)
      /\ \A i \in 1..Len(s) : t[i] = s[i]
      /\ t[Len(s) + 1] = e
  OBVIOUS
<1>2. \A i \in 1..Len(s) : s[i].attempt.id # e.attempt.id
  BY <1>1 DEF Ids, ToSet
<1>3. ASSUME NEW i \in DOMAIN t, NEW j \in DOMAIN t, t[i].attempt.id = t[j].attempt.id
      PROVE  i = j
  <2>1. CASE i \in 1..Len(s) /\ j \in 1..Len(s)
    BY <1>1, <1>3, <2>1
  <2>2. CASE i = Len(s) + 1 /\ j = Len(s) + 1
    BY <2>2
  <2>3. CASE i \in 1..Len(s) /\ j = Len(s) + 1
    BY <1>1, <1>2, <1>3, <2>3
  <2>4. CASE i = Len(s) + 1 /\ j \in 1..Len(s)
    BY <1>1, <1>2, <1>3, <2>4
  <2>. QED
    BY <1>1, <2>1, <2>2, <2>3, <2>4
<1>. QED
  BY <1>3

\* Replacing a store ends what the call had decided.
LEMMA ReplaceControl ==
    ASSUME Typed, StoreInv, NEW c \in Call, Replace(c)
    PROVE  LockHeld' /\ WorksOnDisk' /\ DecidedStays'
<1>1. /\ pc[c] = "replacing" /\ attempt' = attempt
      /\ \A d \in Call : d # c => pc'[d] = pc[d]
      /\ \/ pc'[c] = "syncing" /\ UNCHANGED holder
         \/ pc'[c] = "ended" /\ holder' = Released(c)
  BY DEF Typed, TypeOK, Replace, Answer, requestVars
<1>2. holder = c /\ \A d \in Call : d # c => pc[d] \notin Locked
  BY <1>1 DEF StoreInv, LockHeld, Locked, Prepared
<1>3. LockHeld'
  BY <1>1, <1>2, NoCallIsNoCall DEF LockHeld, Locked, Released, Prepared
<1>4. \A d \in Call : pc'[d] \notin {"deciding"} \cup Prepared
  BY <1>1, <1>2 DEF Locked, Prepared
<1>5. WorksOnDisk'
  BY <1>4 DEF WorksOnDisk
<1>6. DecidedStays'
  BY <1>4 DEF DecidedStays, Prepared
<1>. QED
  BY <1>3, <1>5, <1>6

\* A replacement keeps the invariant in both versions on disk.
LEMMA ReplaceInv == ASSUME Typed, StoreInv, NEW c \in Call, Replace(c) PROVE StoreInv'
<1>1. LockHeld' /\ WorksOnDisk' /\ DecidedStays'
  BY ReplaceControl
<1>2. /\ UNCHANGED <<folderLost, attempt, kits>>
      /\ \A d \in Call : d # c => pc'[d] = pc[d] /\ answer'[d] = answer[d]
  BY DEF Typed, TypeOK, Replace, Answer, fileVars, requestVars
<1>3. CASE Answer(c, "uncertain") /\ UNCHANGED <<storeVars, touched>>
  <2>1. pc'[c] = "ended" /\ answer'[c] = "uncertain"
    BY <1>3 DEF Answer, Typed, TypeOK
  <2>2. ReplacedIsThere'
    BY <1>2, <1>3, <2>1 DEF StoreInv, ReplacedIsThere, Holds, OnPositions, storeVars
  <2>3. \A d \in Call : answer'[d] = "ok" => answer[d] = "ok"
    BY <1>2, <2>1
  <2>. QED
    BY <1>1, <1>2, <1>3, <2>2, <2>3, CalmStep DEF Control
<1>4. CASE pc'[c] = "syncing" /\ UNCHANGED answer
  <2>1. pc[c] = "replacing" /\ \A d \in Call : d # c => pc[d] # "syncing"
    BY DEF Replace, StoreInv, LockHeld, Locked, Prepared
  <2>. DEFINE new(e) == e \in Entry /\ e.attempt = attempt[c] /\ e.positions \in {<<>>, positions}
                        /\ rounds' = Append(rounds, e)
  <2>2. /\ roundsOnDisk = {rounds} /\ positionsOnDisk = {positions}
        /\ rounds \in Seq(Entry) /\ positions \in Seq(Call)
        /\ OnPositions(c) => /\ UNCHANGED <<rounds, roundsOnDisk>>
                            /\ positions' = Append(positions, c)
                            /\ positionsOnDisk' = {positions, positions'}
        /\ ~OnPositions(c) => /\ UNCHANGED <<positions, positionsOnDisk>>
                             /\ roundsOnDisk' = {rounds, rounds'}
                             /\ \E e : new(e)
    BY <1>4, Extended DEF Typed, TypeOK
  <2>3. OnPositions(c) => ToSet(positions') = ToSet(positions) \cup {c}
    <3>1. ToSet(Append(positions, c)) = ToSet(positions) \cup {c}
      BY <2>2, AppendMembers
    <3>. QED
      BY <2>2, <3>1
  <2>4. ASSUME NEW e, new(e) PROVE ToSet(rounds') = ToSet(rounds) \cup {e}
    BY <2>2, <2>4, AppendMembers
  <2>5. ~OnPositions(c) => ToSet(rounds) \subseteq ToSet(rounds')
    BY <2>2, <2>4
  <2>6. ASSUME NEW d \in Call, Holds(d, rounds, positions),
               NEW s \in roundsOnDisk', NEW pos \in positionsOnDisk'
        PROVE  Holds(d, s, pos)'
    <3>1. ToSet(rounds) \subseteq ToSet(s) /\ ToSet(positions) \subseteq ToSet(pos)
      BY <2>2, <2>3, <2>5
    <3>. QED
      BY <1>2, <2>6, <3>1 DEF Holds, OnPositions
  <2>7. Holds(c, rounds, positions)'
    BY <1>2, <2>2, <2>3, <2>4 DEF Holds, OnPositions
  <2>8. ReplacedIsThere'
    <3>1. ASSUME NEW d \in Call PROVE (answer[d] # "none" => pc[d] = "ended")'
      BY <1>2, <1>4, <2>1 DEF StoreInv, ReplacedIsThere
    <3>2. ASSUME NEW d \in Call PROVE (pc[d] = "syncing" => Holds(d, rounds, positions))'
      BY <1>2, <2>1, <2>7
    <3>. QED
      BY <3>1, <3>2 DEF ReplacedIsThere
  <2>9. SeenIsOnDisk'
    BY <2>2 DEF SeenIsOnDisk
  <2>10. OkIsKept'
    <3>1. \A d \in Call : answer[d] = "ok" /\ ~folderLost => Holds(d, rounds, positions)
      BY <2>2 DEF StoreInv, OkIsKept
    <3>. QED
      BY <1>2, <1>4, <2>6, <3>1 DEF OkIsKept
  <2>11. RecordedOnce'
    <3>1. \A i, j \in DOMAIN rounds : rounds[i].attempt.id = rounds[j].attempt.id => i = j
      BY DEF StoreInv, RecordedOnce
    <3>2. ASSUME NEW e, new(e)
          PROVE  \A i, j \in DOMAIN rounds' : rounds'[i].attempt.id = rounds'[j].attempt.id => i = j
      <4>1. CASE OnPositions(c)
        BY <2>2, <3>1, <4>1
      <4>2. CASE ~OnPositions(c)
        <5>1. e.attempt.id \notin Ids(rounds)
          BY <2>1, <3>2, <4>2 DEF StoreInv, DecidedStays, Prepared
        <5>. QED
          BY <2>2, <3>1, <3>2, <5>1, DistinctAppend
      <4>. QED
        BY <4>1, <4>2
    <3>. QED
      BY <2>2, <3>1, <3>2 DEF RecordedOnce
  <2>12. BasisStaysHistory'
    <3>1. \A e \in ToSet(rounds) : IsPrefix(e.positions, positions)
      BY <2>2 DEF StoreInv, BasisStaysHistory
    <3>2. \A e \in ToSet(rounds) : e.positions \in Seq(Call)
      BY <2>2, EntryMember DEF ToSet
    <3>3. CASE OnPositions(c)
      <4>1. \A e \in ToSet(rounds) : IsPrefix(e.positions, Append(positions, c))
        BY <2>2, <3>1, <3>2, PrefixFacts
      <4>. QED
        BY <2>2, <3>1, <3>3, <4>1 DEF BasisStaysHistory
    <3>4. CASE ~OnPositions(c)
      <4>1. PICK e : new(e)
        BY <2>2, <3>4
      <4>2. IsPrefix(e.positions, positions)
        BY <2>2, <4>1, PrefixFacts
      <4>. QED
        BY <2>2, <2>4, <3>1, <3>4, <4>1, <4>2 DEF BasisStaysHistory
    <3>. QED
      BY <3>3, <3>4
  <2>13. PlanBeforeKit'
    <3>1. ASSUME NEW p, PlanEntries(rounds, p) # {}, NEW s \in roundsOnDisk'
          PROVE  PlanEntries(s, p)' # {}
      BY <2>2, <2>5, <3>1 DEF PlanEntries
    <3>. QED
      BY <1>2, <2>2, <3>1 DEF StoreInv, PlanBeforeKit
  <2>. QED
    BY <1>1, <2>8, <2>9, <2>10, <2>11, <2>12, <2>13 DEF StoreInv
<1>. QED
  BY <1>3, <1>4 DEF Replace, Typed, TypeOK

\* Kills, the user and power losses keep the invariant.
LEMMA OutsideInv ==
    ASSUME Typed, StoreInv,
           (\E c \in Call : Kill(c)) \/ (\E p \in Request : CarryAway(p)) \/ PowerLoss
    PROVE  StoreInv'
<1>1. ASSUME NEW c \in Call, Kill(c) PROVE StoreInv'
  <2>1. /\ UNCHANGED <<rounds, roundsOnDisk, positions, positionsOnDisk>>
        /\ UNCHANGED <<storeVars, folderLost, attempt, loaded, answer, kits>>
        /\ pc'[c] = "ended" /\ holder' = Released(c)
        /\ \A d \in Call : d # c => pc'[d] = pc[d]
    BY <1>1 DEF Kill, Typed, TypeOK, storeVars, fileVars, requestVars
  <2>2. LockHeld'
    BY <2>1, NoCallIsNoCall DEF StoreInv, LockHeld, Locked, Released, Prepared
  <2>3. WorksOnDisk' /\ DecidedStays'
    BY <2>1 DEF StoreInv, WorksOnDisk, DecidedStays, Prepared, OnPositions, OnBasis,
       PlanEntries, Receipts, Ids
  <2>4. ReplacedIsThere'
    BY <2>1 DEF StoreInv, ReplacedIsThere, Holds, OnPositions
  <2>. QED
    BY <2>1, <2>2, <2>3, <2>4, CalmStep DEF Control
<1>2. ASSUME NEW p \in Request, CarryAway(p) PROVE StoreInv'
  <2>1. /\ UNCHANGED <<rounds, roundsOnDisk, positions, positionsOnDisk>>
        /\ UNCHANGED <<storeVars, folderLost, attempt, loaded, answer, pc, holder>>
        /\ kits' \subseteq kits
    BY <1>2 DEF CarryAway, storeVars, requestVars, historyVars
  <2>2. Control'
    BY <2>1 DEF StoreInv, Control, LockHeld, WorksOnDisk, DecidedStays,
         ReplacedIsThere,
       Holds, OnPositions, OnBasis, PlanEntries, Receipts, Ids
  <2>. QED
    BY <2>1, <2>2, CalmStep
<1>3. CASE PowerLoss
  <2>1. /\ \A c \in Call : pc'[c] \in {"idle", "ended"} /\ (pc[c] = "ended" => pc'[c] = "ended")
        /\ holder' = NoCall /\ UNCHANGED <<attempt, answer>>
        /\ roundsOnDisk' = {rounds'} /\ positionsOnDisk' = {positions'}
    BY <1>3 DEF PowerLoss, Typed, TypeOK, Running, requestVars
  <2>2. Control'
    BY <2>1, NoCallIsNoCall DEF StoreInv, Control, LockHeld, WorksOnDisk,
         DecidedStays,
       ReplacedIsThere, Locked, Prepared
  <2>3. CASE rounds' \in roundsOnDisk /\ positions' \in positionsOnDisk /\ UNCHANGED folderLost
    <3>1. /\ roundsOnDisk' \subseteq roundsOnDisk /\ rounds' \in roundsOnDisk'
          /\ positionsOnDisk' \subseteq positionsOnDisk /\ positions' \in positionsOnDisk'
      BY <2>1, <2>3
    <3>2. kits' \subseteq kits
      BY <1>3 DEF PowerLoss, Typed, TypeOK
    <3>3. Content'
      BY <2>3, <3>1, <3>2, VersionsShrink
    <3>4. OkIsKept'
      BY <2>1, <2>3, <3>1, OkShrink
    <3>. QED
      BY <2>2, <3>3, <3>4 DEF StoreInv, Control, Content
  <2>4. CASE rounds' = <<>> /\ positions' = <<>> /\ folderLost'
    <3>1. ToSet(<<>>) = {}
      BY DEF ToSet
    <3>2. OkIsKept' /\ PlanBeforeKit'
      BY <2>4 DEF OkIsKept, PlanBeforeKit
    <3>3. SeenIsOnDisk' /\ RecordedOnce'
      BY <2>1, <2>4 DEF SeenIsOnDisk, RecordedOnce
    <3>4. BasisStaysHistory'
      BY <2>1, <2>4, <3>1 DEF BasisStaysHistory
    <3>. QED
      BY <2>2, <3>2, <3>3, <3>4 DEF StoreInv, Control
  <2>. QED
    BY <1>3, <2>3, <2>4 DEF PowerLoss
<1>. QED
  BY <1>1, <1>2, <1>3

\* Every step keeps the invariant.
LEMMA StepInv == ASSUME Typed, StoreInv, [Next]_vars PROVE StoreInv'
<1>1. CASE UNCHANGED vars
  <2>1. /\ UNCHANGED <<storeVars, folderLost, attempt, loaded, answer, pc, holder>>
        /\ UNCHANGED <<rounds, positions, roundsOnDisk, positionsOnDisk>> /\ kits' = kits
    BY <1>1 DEF vars, storeVars, fileVars, requestVars, historyVars
  <2>2. Control'
    BY <2>1 DEF StoreInv, Control, LockHeld, WorksOnDisk, DecidedStays,
         ReplacedIsThere,
       Holds, OnPositions, OnBasis, PlanEntries, Receipts, Ids
  <2>. QED
    BY <2>1, <2>2, CalmStep
<1>2. ASSUME NEW c \in Call, CallStep(c) PROVE StoreInv'
  BY <1>2, FolderInv, EnterInv, ReplayInv, DecideInv, MiddleInv, PublishInv,
       ReplaceInv, SyncInv
     DEF CallStep, Middle
<1>3. ASSUME NEW c \in Call, Begin(c) PROVE StoreInv'
  BY <1>3, BeginInv
<1>. QED
  BY <1>1, <1>2, <1>3, OutsideInv DEF Next

--------------------------------------------------------------------------------
(* The promises.                                                           *)

\* The invariant holds in every reachable state: the lock, the fsync on entry
\* and the reading under the lock keep every call on current, durable stores.
THEOREM StoreInvariant == Spec => [](Typed /\ StoreInv)
<1>1. Init => Typed /\ StoreInv
  BY InitTyped, InitInv
<1>2. Typed /\ StoreInv /\ [Next]_vars => (Typed /\ StoreInv)'
  BY StepTyped, StepInv
<1>. QED
  BY <1>1, <1>2, PTL DEF Spec

\* A request id is recorded once, however often the client sends it again
\* (the requests loop of mutate_deal_state).
THEOREM RequestsRecordedOnce == Spec => []RecordedOnce
<1>1. StoreInv => RecordedOnce
  BY DEF StoreInv
<1>. QED
  BY <1>1, StoreInvariant, PTL

\* No power loss takes away a change that was answered ok (_storage, _publish).
THEOREM OkStaysKept == Spec => []OkIsKept
<1>1. StoreInv => OkIsKept
  BY DEF StoreInv
<1>. QED
  BY <1>1, StoreInvariant, PTL

\* The positions a round was based on stay a prefix of the history, in every
\* pair of versions a power loss may leave (_positions_observation).
THEOREM BasisIsHistory == Spec => []BasisStaysHistory
<1>1. StoreInv => BasisStaysHistory
  BY DEF StoreInv
<1>. QED
  BY <1>1, StoreInvariant, PTL

\* Behind every kit stands a plan that survives a power loss (_deal_outgoing).
THEOREM KitsHavePlans == Spec => []PlanBeforeKit
<1>1. StoreInv => PlanBeforeKit
  BY DEF StoreInv
<1>. QED
  BY <1>1, StoreInvariant, PTL

\* A kit is created only on the basis its plan froze and before any receipt of
\* that plan (effect and basis of _deal_outgoing).
THEOREM KitsOnTheirBasis == Spec => KitOnItsBasis
<1>. DEFINE Based == \A p \in kits' \ kits :
                        OnBasis(rounds, positions, p) /\ Receipts(rounds, p) = {}
<1>1. ASSUME Typed, StoreInv, Next, NEW p \in kits' \ kits
      PROVE  OnBasis(rounds, positions, p) /\ Receipts(rounds, p) = {}
  <2>1. \E c \in Call : PublishKit(c)
    BY <1>1 DEF Next, Begin, CallStep, Kill, CarryAway, PowerLoss, OpenFolder,
         SyncRoot, Lock,
       Enter, Replay, Decide, ReuseSnapshot, PersistSnapshot, SettleSnapshot, Recheck, FlushKit,
       VerifyKit, Compare, Replace, SyncStore, fileVars, Typed, TypeOK
  <2>2. PICK c \in Call : PublishKit(c)
    BY <2>1
  <2>3. p = attempt[c].plan /\ pc[c] = "effecting"
        /\ attempt[c].action = "publish_outgoing_package"
    BY <1>1, <2>2 DEF PublishKit
  <2>. QED
    BY <1>1, <2>3 DEF StoreInv, DecidedStays, Prepared
<1>2. Typed /\ StoreInv /\ [Next]_vars => [Based]_vars
  BY <1>1
<1>. QED
  BY <1>2, StoreInvariant, PTL DEF Spec, KitOnItsBasis

--------------------------------------------------------------------------------
(* Kits, snapshots and answers.                                            *)

\* Only the state of the call itself moves in a step of a call.
LEMMA OthersStay ==
    ASSUME Typed, NEW c \in Call, Begin(c) \/ CallStep(c) \/ Kill(c)
    PROVE  /\ \A d \in Call : d # c => /\ pc'[d] = pc[d] /\ answer'[d] = answer[d]
                                       /\ attempt'[d] = attempt[d]
           /\ pc[c] # "idle" => UNCHANGED attempt
<1>. USE DEF Typed, TypeOK, Refuse, Answer, requestVars
<1>1. CASE Begin(c) \/ Kill(c)
  BY <1>1 DEF Begin, Kill
<1>2. CASE OpenFolder(c) \/ SyncRoot(c) \/ Lock(c) \/ Enter(c) \/ Replay(c) \/ Decide(c)
  BY <1>2 DEF OpenFolder, SyncRoot, Lock, Enter, Replay, Decide
<1>3. CASE ReuseSnapshot(c) \/ PersistSnapshot(c) \/ SettleSnapshot(c) \/ Recheck(c)
           \/ PublishKit(c) \/ FlushKit(c) \/ VerifyKit(c)
  BY <1>3 DEF ReuseSnapshot, PersistSnapshot, SettleSnapshot, Recheck, PublishKit,
       FlushKit,
     VerifyKit
<1>4. CASE Compare(c) \/ Replace(c) \/ SyncStore(c)
  BY <1>4 DEF Compare, PublishFailure, Replace, SyncStore, CommitFailure
<1>. QED
  BY <1>1, <1>2, <1>3, <1>4 DEF CallStep

\* A call reports more than a refusal once it has touched a file.
LEMMA TouchedStep ==
    ASSUME Typed, StoreInv, TouchedAnswers, [Next]_vars PROVE TouchedAnswers'
<1>1. ASSUME NEW c \in Call, Begin(c) \/ CallStep(c) \/ Kill(c) PROVE TouchedAnswers'
  <2>1. \A d \in Call : d # c => (d \in touched' <=> d \in touched)
    BY <1>1 DEF Begin, CallStep, Kill, OpenFolder, SyncRoot, Lock, Enter, Replay,
         Decide,
       ReuseSnapshot, PersistSnapshot, SettleSnapshot, Recheck, PublishKit, FlushKit, VerifyKit,
       Compare, Replace, SyncStore, historyVars
  <2>2. /\ c \in touched' => \/ pc'[c] \in {"flushing", "syncing"}
                             \/ /\ pc'[c] \in {"comparing", "replacing"}
                                /\ attempt'[c].action = "publish_outgoing_package"
                             \/ pc'[c] = "ended" /\ answer'[c] # "refused"
        /\ pc'[c] = "flushing" => attempt'[c].action = "publish_outgoing_package"
    <3>. USE DEF Typed, TypeOK, TouchedAnswers, StoreInv, ReplacedIsThere, Refuse, Answer,
                 requestVars, historyVars
    <3>1. CASE Begin(c) \/ Kill(c)
      BY <1>1, <3>1 DEF Begin, Kill, Running, Locked, Prepared
    <3>2. CASE OpenFolder(c) \/ SyncRoot(c) \/ Lock(c) \/ Enter(c) \/ Replay(c) \/ Decide(c)
      BY <3>2 DEF OpenFolder, SyncRoot, Lock, Enter, Replay, Decide, FirstWrite
    <3>3. CASE ReuseSnapshot(c) \/ PersistSnapshot(c) \/ SettleSnapshot(c) \/ Recheck(c)
               \/ VerifyKit(c)
      BY <3>3 DEF ReuseSnapshot, PersistSnapshot, SettleSnapshot, Recheck, VerifyKit
    <3>4. CASE PublishKit(c) \/ FlushKit(c)
      BY <3>4 DEF PublishKit, FlushKit, Flushing
    <3>5. CASE Compare(c) \/ Replace(c) \/ SyncStore(c)
      BY <3>5 DEF Compare, PublishFailure, Replace, SyncStore, CommitFailure
    <3>. QED
      BY <1>1, <3>1, <3>2, <3>3, <3>4, <3>5 DEF CallStep
  <2>. QED
    BY <1>1, <2>1, <2>2, OthersStay DEF TouchedAnswers
<1>2. CASE (\E p \in Request : CarryAway(p)) \/ UNCHANGED vars
  BY <1>2 DEF TouchedAnswers, CarryAway, vars, requestVars, historyVars
<1>3. CASE PowerLoss
  <2>1. /\ UNCHANGED <<touched, answer, attempt>>
        /\ \A c \in Call : pc'[c] = IF pc[c] \in Running THEN "ended" ELSE pc[c]
    BY <1>3 DEF PowerLoss, requestVars
  <2>. QED
    BY <2>1 DEF TouchedAnswers, StoreInv, ReplacedIsThere, Running, Locked, Prepared
<1>. QED
  BY <1>1, <1>2, <1>3 DEF Next

\* A definite refusal means that the call replaced no store and created no kit
\* (_publish, mutate_deal_state).
THEOREM RefusalsChangeNothing == Spec => []RefusedChangesNothing
<1>1. Init => TouchedAnswers
  BY DEF Init, TouchedAnswers
<1>2. Typed /\ StoreInv /\ TouchedAnswers /\ [Next]_vars => TouchedAnswers'
  BY TouchedStep
<1>3. StoreInv /\ TouchedAnswers => RefusedChangesNothing
  BY DEF StoreInv, ReplacedIsThere, TouchedAnswers, RefusedChangesNothing
<1>. QED
  BY <1>1, <1>2, <1>3, StoreInvariant, PTL DEF Spec

\* The kit of a publication that is on its way to the store stays on disk or
\* with the user, and so do those of the recorded ones.
Kits == KitsBehindPublications /\ ReceiptsHaveKits

\* Every step keeps them.
LEMMA KitsStep == ASSUME Typed, StoreInv, Kits, [Next]_vars PROVE Kits'
<1>1. kitsKept \cup carried \subseteq kitsKept' \cup carried'
  <2>1. CASE UNCHANGED vars
    BY <2>1 DEF vars, fileVars
  <2>2. ASSUME NEW c \in Call, Begin(c) \/ CallStep(c) \/ Kill(c)
        PROVE  kitsKept \subseteq kitsKept' /\ carried \subseteq carried'
    BY <2>2 DEF Begin, CallStep, Kill, OpenFolder, SyncRoot, Lock, Enter, Replay,
         Decide,
       ReuseSnapshot, PersistSnapshot, SettleSnapshot, Recheck, PublishKit, FlushKit, VerifyKit,
       Compare, Replace, SyncStore, fileVars, Typed, TypeOK
  <2>3. ASSUME (\E p \in Request : CarryAway(p)) \/ PowerLoss
        PROVE  kitsKept \cup carried \subseteq kitsKept' \cup carried'
    BY <2>3 DEF CarryAway, PowerLoss
  <2>. QED
    BY <2>1, <2>2, <2>3 DEF Next
<1>2. KitsBehindPublications'
  <2>1. ASSUME NEW c \in Call, pc'[c] \in {"comparing", "replacing"},
               attempt'[c].action = "publish_outgoing_package"
        PROVE  /\ attempt'[c].plan = attempt[c].plan
               /\ attempt[c].plan \in kitsKept' \cup carried'
    <3>. USE DEF Typed, TypeOK, Refuse, Answer, OnPositions, requestVars, fileVars
    <3>1. CASE UNCHANGED vars \/ \E p \in Request : CarryAway(p)
      BY <1>1, <2>1, <3>1 DEF vars, CarryAway, Kits, KitsBehindPublications
    <3>2. CASE PowerLoss
      BY <2>1, <3>2 DEF PowerLoss, Running, Locked, Prepared
    <3>3. ASSUME NEW d \in Call, Begin(d) \/ CallStep(d) \/ Kill(d), d # c
          PROVE  /\ attempt'[c].plan = attempt[c].plan
                 /\ attempt[c].plan \in kitsKept' \cup carried'
      BY <1>1, <2>1, <3>3, OthersStay DEF Kits, KitsBehindPublications
    <3>4. CASE Begin(c) \/ Kill(c) \/ OpenFolder(c) \/ SyncRoot(c) \/ Lock(c) \/ Enter(c)
               \/ Replay(c) \/ Replace(c) \/ SyncStore(c) \/ PersistSnapshot(c) \/ Recheck(c)
               \/ PublishKit(c)
      BY <2>1, <3>4 DEF Begin, Kill, OpenFolder, SyncRoot, Lock, Enter, Replay,
           Replace,
         SyncStore, CommitFailure, PersistSnapshot, Recheck, PublishKit, Flushing
    <3>5. CASE Decide(c)
      BY <2>1, <3>5, KitCommandsCaptureNothing DEF Decide, FirstWrite
    <3>6. CASE ReuseSnapshot(c) \/ SettleSnapshot(c)
      <4>1. attempt[c].digest \in Digest /\ attempt' = attempt
        BY <3>6 DEF ReuseSnapshot, SettleSnapshot, NamesItsFiles
      <4>. QED
        BY <2>1, <4>1, KitCommandsCaptureNothing, DistinctNothing
    <3>7. CASE FlushKit(c) \/ VerifyKit(c) \/ Compare(c)
      BY <1>1, <2>1, <3>7 DEF FlushKit, VerifyKit, Compare, PublishFailure, Kits,
         KitsBehindPublications
    <3>. QED
      BY <3>1, <3>2, <3>3, <3>4, <3>5, <3>6, <3>7 DEF Next, CallStep
  <2>. QED
    BY <2>1 DEF KitsBehindPublications
<1>3. ReceiptsHaveKits'
  <2>1. CASE \A s \in roundsOnDisk' : s \in roundsOnDisk \/ s = <<>>
    <3>1. ToSet(<<>>) = {}
      BY DEF ToSet
    <3>. QED
      BY <1>1, <2>1, <3>1 DEF Kits, ReceiptsHaveKits
  <2>2. ASSUME NEW c \in Call, Replace(c), pc'[c] = "syncing" PROVE ReceiptsHaveKits'
    <3>1. CASE OnPositions(c)
      BY <1>1, <2>2, <3>1, Extended DEF Kits, ReceiptsHaveKits
    <3>2. CASE ~OnPositions(c)
      <4>1. PICK e \in Entry : e.attempt = attempt[c] /\ rounds' = Append(rounds, e)
        BY <2>2, <3>2, Extended
      <4>2. ToSet(rounds') = ToSet(rounds) \cup {e}
        BY <4>1, AppendMembers DEF Typed, TypeOK
      <4>3. roundsOnDisk = {rounds} /\ roundsOnDisk' = {rounds, rounds'}
        BY <2>2, <3>2, Extended
      <4>4. e.attempt.action = "publish_outgoing_package" =>
                e.attempt.plan \in kitsKept' \cup carried'
        BY <1>1, <2>2, <4>1 DEF Replace, Kits, KitsBehindPublications
      <4>. QED
        BY <1>1, <4>2, <4>3, <4>4 DEF Kits, ReceiptsHaveKits
    <3>. QED
      BY <3>1, <3>2
  <2>3. \/ \A s \in roundsOnDisk' : s \in roundsOnDisk \/ s = <<>>
        \/ \E c \in Call : Replace(c) /\ pc'[c] = "syncing"
    <3>. USE DEF storeVars
    <3>1. CASE UNCHANGED vars \/ PowerLoss \/ \E p \in Request : CarryAway(p)
      BY <3>1 DEF vars, PowerLoss, CarryAway
    <3>2. ASSUME NEW c \in Call, Begin(c) \/ CallStep(c) \/ Kill(c), ~Replace(c)
          PROVE  roundsOnDisk' \in {roundsOnDisk, {rounds}} /\ rounds \in roundsOnDisk
      BY <3>2 DEF Begin, CallStep, Kill, OpenFolder, SyncRoot, Lock, Enter,
           EntrySync, SideSynced,
         Replay, Decide, ReuseSnapshot, PersistSnapshot, SettleSnapshot, Recheck, PublishKit,
         FlushKit, VerifyKit, Compare, SyncStore, StoreInv, SeenIsOnDisk
    <3>3. ASSUME NEW c \in Call, Replace(c) PROVE UNCHANGED roundsOnDisk \/ pc'[c] = "syncing"
      BY <3>3 DEF Replace, Typed, TypeOK
    <3>. QED
      BY <3>1, <3>2, <3>3 DEF Next
  <2>. QED
    BY <2>1, <2>2, <2>3
<1>. QED
  BY <1>2, <1>3 DEF Kits

\* A recorded publication has its kit, until the user takes it (_deal_outgoing.effect).
THEOREM ReceiptsKeepKits == Spec => []ReceiptsHaveKits
<1>1. Init => Kits
  <2>1. ASSUME Init, NEW i \in DOMAIN rounds
        PROVE  rounds[i].attempt.action # "publish_outgoing_package"
    BY <2>1, OpeningsAreRounds DEF Init
  <2>2. ASSUME Init PROVE ReceiptsHaveKits
    <3>1. \A e \in ToSet(rounds) : e.attempt.action # "publish_outgoing_package"
      BY <2>1, <2>2 DEF ToSet
    <3>. QED
      BY <2>2, <3>1 DEF Init, ReceiptsHaveKits
  <2>3. Init => KitsBehindPublications
    BY DEF Init, KitsBehindPublications
  <2>. QED
    BY <2>2, <2>3 DEF Kits
<1>2. Typed /\ StoreInv /\ Kits /\ [Next]_vars => Kits'
  BY KitsStep
<1>3. Kits => ReceiptsHaveKits
  BY DEF Kits
<1>. QED
  BY <1>1, <1>2, <1>3, StoreInvariant, PTL DEF Spec

\* Apart from what an ended call left unsynced, the snapshots a store names are
\* on disk, and those a call is about to record.
Snapshots == SnapshotsAccounted /\ RolesHaveSnapshots

\* The documents of a longer store.
LEMMA DocumentsAppend ==
    ASSUME NEW s \in Seq(Entry), NEW e \in Entry
    PROVE  Documents(Append(s, e)) = (Documents(s) \cup {e.attempt.digest}) \ {NoDigest}
BY AppendMembers DEF Documents

\* Power losses and the user keep them.
LEMMA SnapshotsOutside ==
    ASSUME Typed, StoreInv, Snapshots,
           UNCHANGED vars \/ PowerLoss \/ \E p \in Request : CarryAway(p)
    PROVE  Snapshots'
<1>1. CASE UNCHANGED vars \/ \E p \in Request : CarryAway(p)
  <2>1. UNCHANGED <<rounds, roundsOnDisk, snapshots, snapshotsKept, orphans, pc, attempt>>
    BY <1>1 DEF vars, CarryAway, storeVars, fileVars, requestVars, historyVars
  <2>. QED
    BY <2>1 DEF Snapshots, SnapshotsAccounted, RolesHaveSnapshots, Documents,
         OnPositions
<1>2. CASE PowerLoss
  <2>1. /\ \A c \in Call : pc'[c] \in {"idle", "ended"}
        /\ roundsOnDisk' = {rounds'} /\ snapshotsKept' = snapshots' /\ UNCHANGED orphans
        /\ \/ rounds' \in roundsOnDisk /\ snapshotsKept \subseteq snapshotsKept'
           \/ rounds' = <<>>
    BY <1>2 DEF PowerLoss, Running, Typed, TypeOK
  <2>2. SnapshotsAccounted'
    BY <2>1 DEF SnapshotsAccounted, Prepared
  <2>3. Documents(<<>>) = {}
    BY DEF Documents, ToSet
  <2>. QED
    BY <2>1, <2>2, <2>3 DEF Snapshots, RolesHaveSnapshots
<1>. QED
  BY <1>1, <1>2

\* A step that leaves stores and snapshots alone disturbs only what is said of
\* the call itself.
LEMMA SnapshotsQuiet ==
    ASSUME Typed, Snapshots, NEW c \in Call, Begin(c) \/ CallStep(c) \/ Kill(c),
           UNCHANGED <<rounds, snapshots, snapshotsKept, orphans>>,
           roundsOnDisk' \subseteq roundsOnDisk,
           pc[c] # "settling", pc'[c] # "settling",
           pc'[c] \in {"rechecking", "effecting", "flushing"} => attempt'[c].digest = NoDigest,
           pc'[c] \in Prepared /\ ~OnPositions(c)' =>
              Documents(rounds) \ {attempt'[c].digest} \subseteq snapshots,
           pc'[c] \in {"comparing", "replacing"} /\ ~OnPositions(c)' =>
              attempt'[c].digest \in {NoDigest} \cup snapshotsKept \cup orphans
    PROVE  Snapshots'
<1>1. \A d \in Call : d # c => pc'[d] = pc[d] /\ attempt'[d] = attempt[d]
  BY OthersStay
<1>2. RolesHaveSnapshots'
  BY DEF Snapshots, RolesHaveSnapshots
<1>3. ASSUME NEW g \in snapshots, g \notin snapshotsKept \cup orphans
      PROVE  \E d \in Call : pc'[d] = "settling" /\ attempt'[d].digest = g
  <2>1. PICK d \in Call : pc[d] = "settling" /\ attempt[d].digest = g
    BY <1>3 DEF Snapshots, SnapshotsAccounted
  <2>. QED
    BY <1>1, <2>1
<1>4. ASSUME NEW d \in Call
      PROVE  /\ pc'[d] = "settling" => attempt'[d].digest \in snapshots
             /\ pc'[d] \in {"rechecking", "effecting", "flushing"} =>
                   attempt'[d].digest = NoDigest
             /\ pc'[d] \in Prepared /\ ~OnPositions(d)' =>
                   Documents(rounds) \ {attempt'[d].digest} \subseteq snapshots
             /\ pc'[d] \in {"comparing", "replacing"} /\ ~OnPositions(d)' =>
                   attempt'[d].digest \in {NoDigest} \cup snapshotsKept \cup orphans
  <2>1. CASE d = c
    BY <2>1
  <2>2. CASE d # c
    BY <1>1, <2>2 DEF Snapshots, SnapshotsAccounted, OnPositions
  <2>. QED
    BY <2>1, <2>2
<1>5. Documents(rounds') = Documents(rounds)
  OBVIOUS
<1>6. SnapshotsAccounted'
  BY <1>3, <1>4, <1>5 DEF SnapshotsAccounted
<1>. QED
  BY <1>2, <1>6 DEF Snapshots

\* The steps of a call keep them.
LEMMA SnapshotsCall ==
    ASSUME Typed, StoreInv, Snapshots, NEW c \in Call, Begin(c) \/ CallStep(c) \/ Kill(c)
    PROVE  Snapshots'
<1>. USE DEF Typed, TypeOK, Snapshots
<1>1. CASE Begin(c) \/ OpenFolder(c) \/ SyncRoot(c) \/ Lock(c)
  <2>1. UNCHANGED <<rounds, roundsOnDisk, snapshots, snapshotsKept, orphans>>
    BY <1>1 DEF Begin, OpenFolder, SyncRoot, Lock, storeVars, fileVars, historyVars
  <2>2. pc'[c] \notin {"deciding"} \cup Prepared /\ pc[c] # "settling"
    BY <1>1 DEF Begin, OpenFolder, SyncRoot, Lock, Refuse, Answer, Prepared
  <2>. QED
    BY <1>1, <2>1, <2>2, SnapshotsQuiet DEF CallStep, Prepared
<1>2. CASE Enter(c) \/ SyncStore(c) \/ Replay(c)
  <2>1. /\ UNCHANGED <<rounds, snapshots, snapshotsKept, orphans>>
        /\ roundsOnDisk' \subseteq roundsOnDisk
    BY <1>2 DEF Enter, EntrySync, SyncStore, SideSynced, Replay, storeVars,
         fileVars, historyVars,
       StoreInv, SeenIsOnDisk
  <2>2. pc'[c] \notin Prepared /\ pc[c] # "settling"
    BY <1>2 DEF Enter, SyncStore, CommitFailure, Replay, Refuse, Answer, Prepared
  <2>. QED
    BY <1>2, <2>1, <2>2, SnapshotsQuiet DEF CallStep, Prepared
<1>3. CASE Kill(c)
  <2>1. UNCHANGED <<rounds, roundsOnDisk, snapshots, snapshotsKept, attempt>>
    BY <1>3 DEF Kill, storeVars, fileVars, requestVars
  <2>2. pc'[c] = "ended" /\ orphans' = orphans \cup Orphan(c)
    BY <1>3 DEF Kill
  <2>. QED
    BY <1>3, <2>1, <2>2, OthersStay DEF SnapshotsAccounted, RolesHaveSnapshots,
         OnPositions,
       Orphan, Prepared
<1>4. CASE Decide(c)
  <2>1. UNCHANGED <<rounds, roundsOnDisk, snapshots, snapshotsKept, orphans, attempt>>
    BY <1>4 DEF Decide, storeVars, fileVars, requestVars, historyVars
  <2>2. pc'[c] = "ended" \/ /\ Accepted(c)
                            /\ pc'[c] = IF OnPositions(c) THEN "comparing"
                                        ELSE FirstWrite(attempt[c])
    BY <1>4 DEF Decide, Refuse, Answer
  <2>3. attempt[c].digest # NoDigest <=> FirstWrite(attempt[c]) = "snapshotting"
    BY DEF FirstWrite
  <2>4. pc[c] = "deciding"
    BY <1>4 DEF Decide
  <2>5. /\ pc'[c] # "settling"
        /\ pc'[c] \in {"rechecking", "effecting", "flushing"} => attempt[c].digest = NoDigest
        /\ pc'[c] \in Prepared /\ ~OnPositions(c) =>
              Documents(rounds) \ {attempt[c].digest} \subseteq snapshots
        /\ pc'[c] \in {"comparing", "replacing"} /\ ~OnPositions(c) =>
              attempt[c].digest = NoDigest
    BY <2>2, <2>3 DEF Accepted, FirstWrite, Prepared
  <2>. QED
    BY <1>4, <2>1, <2>4, <2>5, SnapshotsQuiet DEF CallStep, OnPositions
<1>5. CASE Recheck(c) \/ PublishKit(c) \/ FlushKit(c) \/ VerifyKit(c) \/ Compare(c)
  <2>1. UNCHANGED <<rounds, roundsOnDisk, snapshots, snapshotsKept, orphans, attempt>>
    BY <1>5 DEF Recheck, PublishKit, FlushKit, VerifyKit, Compare, storeVars,
         fileVars,
       requestVars, historyVars
  <2>2. /\ pc[c] \in Prepared \ {"snapshotting", "settling"}
        /\ \/ pc'[c] = "ended"
           \/ /\ pc'[c] \in Prepared \ {"snapshotting", "settling"}
              /\ pc'[c] \in {"rechecking", "effecting", "flushing"} =>
                    pc[c] \in {"rechecking", "effecting", "flushing"}
    BY <1>5 DEF Recheck, PublishKit, Flushing, FlushKit, VerifyKit, Compare,
         PublishFailure,
       Refuse, Answer, Prepared
  <2>. QED
    BY <1>5, <2>1, <2>2, OthersStay DEF SnapshotsAccounted, RolesHaveSnapshots,
         OnPositions,
       Prepared
<1>6. CASE ReuseSnapshot(c) \/ PersistSnapshot(c) \/ SettleSnapshot(c)
  <2>1. /\ holder = c /\ \A d \in Call : d # c => pc[d] \notin Locked
        /\ roundsOnDisk = {rounds}
    BY <1>6 DEF ReuseSnapshot, PersistSnapshot, SettleSnapshot, StoreInv, LockHeld,
         WorksOnDisk,
       Locked, Prepared
  <2>2. \A d \in Call : d # c => pc'[d] \notin Prepared
    BY <1>6, <2>1, OthersStay DEF CallStep, Locked
  <2>3. UNCHANGED <<rounds, roundsOnDisk, attempt>> /\ ~OnPositions(c)
    BY <1>6 DEF ReuseSnapshot, PersistSnapshot, SettleSnapshot, storeVars,
         requestVars, StoreInv,
       DecidedStays
  <2>4. Documents(rounds) \ {attempt[c].digest} \subseteq snapshots
    BY <1>6, <2>3 DEF ReuseSnapshot, PersistSnapshot, SettleSnapshot,
         SnapshotsAccounted,
       Prepared
  <2>5. CASE ReuseSnapshot(c)
    BY <2>2, <2>3, <2>4, <2>5 DEF ReuseSnapshot, Refuse, Answer, fileVars,
         historyVars,
       SnapshotsAccounted, RolesHaveSnapshots, OnPositions, Prepared
  <2>6. CASE PersistSnapshot(c)
    BY <2>2, <2>3, <2>4, <2>6 DEF PersistSnapshot, Refuse, Answer, historyVars,
       SnapshotsAccounted, RolesHaveSnapshots, OnPositions, Prepared
  <2>7. CASE SettleSnapshot(c)
    BY <2>1, <2>2, <2>3, <2>4, <2>7 DEF SettleSnapshot, Orphan, Answer,
       SnapshotsAccounted, RolesHaveSnapshots, OnPositions, Prepared
  <2>. QED
    BY <1>6, <2>5, <2>6, <2>7
<1>7. CASE Replace(c)
  <2>1. UNCHANGED <<snapshots, snapshotsKept, orphans, attempt>> /\ pc[c] = "replacing"
    BY <1>7 DEF Replace, fileVars, requestVars
  <2>2. \A d \in Call : pc'[d] \notin Prepared /\ pc[d] # "settling"
    BY <1>7, <2>1, OthersStay DEF CallStep, Replace, Answer, Prepared, Locked,
         StoreInv, LockHeld
  <2>3. SnapshotsAccounted'
    BY <2>1, <2>2 DEF SnapshotsAccounted, Prepared
  <2>4. CASE roundsOnDisk' = roundsOnDisk
    BY <2>1, <2>3, <2>4 DEF RolesHaveSnapshots
  <2>5. CASE pc'[c] = "syncing" /\ ~OnPositions(c)
    <3>1. PICK e \in Entry : e.attempt = attempt[c] /\ rounds' = Append(rounds, e)
      BY <1>7, <2>5, Extended
    <3>2. Documents(rounds')
              \subseteq (Documents(rounds) \cup {attempt[c].digest}) \ {NoDigest}
      BY <3>1, DocumentsAppend DEF Documents
    <3>3. attempt[c].digest \in {NoDigest} \cup snapshotsKept \cup orphans
      BY <2>1, <2>5 DEF SnapshotsAccounted
    <3>4. roundsOnDisk = {rounds} /\ roundsOnDisk' = {rounds, rounds'}
      BY <1>7, <2>5, Extended
    <3>. QED
      BY <2>1, <2>3, <3>2, <3>3, <3>4 DEF RolesHaveSnapshots
  <2>6. roundsOnDisk' = roundsOnDisk \/ (pc'[c] = "syncing" /\ ~OnPositions(c))
    BY <1>7 DEF Replace, storeVars
  <2>. QED
    BY <2>4, <2>5, <2>6
<1>. QED
  BY <1>1, <1>2, <1>3, <1>4, <1>5, <1>6, <1>7 DEF CallStep

\* Every document a store names is in the snapshot folder for good, apart from
\* snapshots that an ended call had left unsynced (_store_snapshot).
THEOREM RolesKeepSnapshots == Spec => []RolesHaveSnapshots
<1>1. Init => Snapshots
  BY DEF Init, Snapshots, SnapshotsAccounted, RolesHaveSnapshots, Prepared
<1>2. Typed /\ StoreInv /\ Snapshots /\ [Next]_vars => Snapshots'
  BY SnapshotsCall, SnapshotsOutside DEF Next
<1>3. Snapshots => RolesHaveSnapshots
  BY DEF Snapshots
<1>. QED
  BY <1>1, <1>2, <1>3, StoreInvariant, PTL DEF Spec

\* A store is only ever extended, but for power losses: no change is lost under
\* another (the lock, the revision and the stamp of _publish).
THEOREM StoresAreExtended == Spec => StoresOnlyExtend
<1>. DEFINE Grows == losses' = losses =>
                        IsPrefix(rounds, rounds') /\ IsPrefix(positions, positions')
<1>1. ASSUME Typed, StoreInv, Next PROVE Grows
  <2>1. /\ rounds \in Seq(Entry) /\ positions \in Seq(Call)
        /\ IsPrefix(rounds, rounds) /\ IsPrefix(positions, positions)
    BY <1>1, PrefixSelf DEF Typed, TypeOK
  <2>2. ASSUME NEW c \in Call, Replace(c), pc'[c] = "syncing" PROVE Grows
    <3>1. CASE OnPositions(c)
      <4>1. positions' = Append(positions, c) /\ rounds' = rounds
        BY <1>1, <2>2, <3>1, Extended
      <4>2. IsPrefix(positions, Append(positions, c))
        BY <2>1, PrefixFacts
      <4>. QED
        BY <2>1, <4>1, <4>2
    <3>2. CASE ~OnPositions(c)
      <4>1. PICK e \in Entry : rounds' = Append(rounds, e) /\ positions' = positions
        BY <1>1, <2>2, <3>2, Extended
      <4>2. IsPrefix(rounds, Append(rounds, e))
        BY <2>1, PrefixFacts
      <4>. QED
        BY <2>1, <4>1, <4>2
    <3>. QED
      BY <3>1, <3>2
  <2>3. ASSUME NEW c \in Call, Replace(c), pc'[c] # "syncing" PROVE UNCHANGED <<rounds, positions>>
    BY <1>1, <2>3 DEF Replace, storeVars, Typed, TypeOK
  <2>4. ASSUME NEW c \in Call, Begin(c) \/ CallStep(c) \/ Kill(c), ~Replace(c)
        PROVE  UNCHANGED <<rounds, positions>>
    BY <2>4 DEF Begin, CallStep, Kill, OpenFolder, SyncRoot, Lock, Enter, Replay,
         Decide,
       ReuseSnapshot, PersistSnapshot, SettleSnapshot, Recheck, PublishKit, FlushKit, VerifyKit,
       Compare, SyncStore, storeVars
  <2>5. ASSUME NEW p \in Request, CarryAway(p) PROVE UNCHANGED <<rounds, positions>>
    BY <2>5 DEF CarryAway, storeVars
  <2>6. PowerLoss => losses' # losses
    BY <1>1 DEF PowerLoss, Typed, TypeOK
  <2>. QED
    BY <1>1, <2>1, <2>2, <2>3, <2>4, <2>5, <2>6 DEF Next
<1>2. Typed /\ StoreInv /\ [Next]_vars => [Grows]_vars
  BY <1>1
<1>. QED
  BY <1>2, StoreInvariant, PTL DEF Spec, StoresOnlyExtend
--------------------------------------------------------------------------------
(* The properties of the run, from the theorems above.                      *)

\* An answer of a store that is ok stays true, one that refuses is true
\* (_publish, mutate_deal_positions, mutate_deal_state).
THEOREM AnswersStayTrue == Spec => []AnswersHold
<1>1. OkIsKept /\ RefusedChangesNothing => AnswersHold
  BY DEF AnswersHold
<1>. QED
  BY <1>1, OkStaysKept, RefusalsChangeNothing, PTL

\* The positions and the documents a state names are there
\* (_positions_observation, _store_snapshot).
THEOREM StatesResolve == Spec => []StateResolves
<1>1. BasisStaysHistory /\ RolesHaveSnapshots => StateResolves
  BY DEF StateResolves
<1>. QED
  BY <1>1, BasisIsHistory, RolesKeepSnapshots, PTL

\* Plans, kits and receipts stand on one another (_deal_outgoing).
THEOREM KitsAreAccountedFor == Spec => []KitsAccountedFor
<1>1. PlanBeforeKit /\ ReceiptsHaveKits => KitsAccountedFor
  BY DEF KitsAccountedFor
<1>. QED
  BY <1>1, KitsHavePlans, ReceiptsKeepKits, PTL

================================================================================
